--------------------------- MODULE IdentityProofs ---------------------------
(***************************************************************************)
(* What holds of the keys an agent obeys (TrustAnchor), of the token it is *)
(* known by (Enrollment) and of the calls that carry the token (RestCalls),*)
(* for every set of keys, commands, codes and calls, every skew and every  *)
(* choice of what may go wrong.                                            *)
(***************************************************************************)
EXTENDS TrustAnchor, Enrollment, RestCalls, SequenceTheorems, TLAPS

-----------------------------------------------------------------------------
(* Keys and signed commands.                                               *)

(* A handler between two writes is a handler of some command.              *)
JobHasCommand == job.step # "none" => job.cmd \in Commands

(* What the shape of a command says of its parts.                          *)
LEMMA CommandParts ==
  ASSUME TrustAssumption, NEW c \in Commands
  PROVE  /\ c.rekey \in BOOLEAN /\ c.signer \in Usable /\ c.proper \in BOOLEAN
         /\ c.id \in AuthIds \cup {NoId} /\ c.issued \in Nat /\ c.expires \in Int
         /\ c.offer \in Usable /\ c.purpose \in Purposes
         /\ c.proof.sequence \in Nat
         /\ c.proof.licence \in Licences \cup {NoLicence}
         /\ Expiry(c) \in Int
<1>1. c \in CommandShape
  BY DEF TrustAssumption
<1>2. /\ c.rekey \in BOOLEAN /\ c.signer \in Usable /\ c.proper \in BOOLEAN
      /\ c.id \in AuthIds \cup {NoId} /\ c.issued \in Nat /\ c.expires \in Int
      /\ c.offer \in Usable /\ c.purpose \in {"release", "command"}
      /\ c.proof \in Proofs \cup {NoProof}
  BY <1>1 DEF CommandShape
<1>3. /\ c.proof.sequence \in Nat
      /\ c.proof.licence \in Licences \cup {NoLicence}
  BY <1>2 DEF Proofs, NoProof
<1> QED
  BY <1>2, <1>3 DEF Purposes, Expiry, TrustAssumption

(* What the guard remembers is made of ids and instants.                   *)
LEMMA RememberedPairs ==
  ASSUME TrustTypeOK
  PROVE  Remembered \subseteq AuthIds \X Int
BY DEF Remembered, Live, TrustTypeOK

(* Asking the guard leaves its memory, its file and the history well formed. *)
LEMMA GuardTypes ==
  ASSUME TrustAssumption, TrustTypeOK, NEW c \in Commands, GuardAsked(c)
  PROVE  /\ replayFile' \subseteq AuthIds \X Int
         /\ seen' \subseteq AuthIds \X Int /\ loaded' \in BOOLEAN
         /\ carried' \in [AuthIds -> Nat]
         /\ lapses' \subseteq {"forgot", "boundary", "unrecorded"}
<1>1. CASE ~Signed(c) \/ ~Genuine(c)
  BY <1>1 DEF GuardAsked, TrustTypeOK
<1>2. CASE Signed(c) /\ Genuine(c)
  <2>1. c.id \in AuthIds /\ Expiry(c) \in Int
    BY <1>2, CommandParts DEF Genuine
  <2>2. <<c.id, Expiry(c)>> \in AuthIds \X Int
    BY <2>1
  <2>3. Remembered \subseteq AuthIds \X Int
    BY RememberedPairs
  <2>4. seen' \subseteq AuthIds \X Int /\ loaded' \in BOOLEAN
    BY <1>2, <2>2, <2>3 DEF GuardAsked
  <2>5. replayFile' \subseteq AuthIds \X Int
    BY <1>2, <2>4 DEF GuardAsked, TrustTypeOK
  <2>6. carried' \in [AuthIds -> Nat]
    <3>1. CASE ~Unseen(c)
      BY <1>2, <3>1 DEF GuardAsked, TrustTypeOK
    <3>2. CASE Unseen(c)
      <4>1. carried' = [carried EXCEPT ![c.id] = @ + 1]
        BY <1>2, <3>2 DEF GuardAsked
      <4> QED
        BY <4>1, <2>1 DEF TrustTypeOK
    <3> QED
      BY <3>1, <3>2
  <2>7. lapses' \subseteq {"forgot", "boundary", "unrecorded"}
    BY <1>2 DEF GuardAsked, TrustTypeOK
  <2> QED
    BY <2>4, <2>5, <2>6, <2>7
<1> QED
  BY <1>1, <1>2

(* The parts of a handler in progress have their types.                     *)
LEMMA JobParts ==
  ASSUME TrustTypeOK
  PROVE  /\ job.cmd \in Commands \cup {NoCommand} /\ job.vendor \in BOOLEAN
         /\ job.step \in {"none", "latch", "anchor", "unit", "record"}
BY DEF TrustTypeOK

(* So has what a handler goes on with.                                      *)
LEMMA ThenTypes ==
  ASSUME TrustTypeOK, JobHasCommand, job.step # "none",
         NEW s \in {"none", "latch", "anchor", "unit", "record"}, Then(s)
  PROVE  /\ job' \in [cmd : Commands \cup {NoCommand}, vendor : BOOLEAN,
                      step : {"none", "latch", "anchor", "unit", "record"}]
         /\ JobHasCommand'
<1>1. CASE s = "none"
  BY <1>1 DEF Then, NoJob, JobHasCommand
<1>2. CASE s # "none"
  <2>1. job' = [job EXCEPT !.step = s]
    BY <1>2 DEF Then
  <2>2. job \in [cmd : Commands \cup {NoCommand}, vendor : BOOLEAN,
                 step : {"none", "latch", "anchor", "unit", "record"}]
    BY DEF TrustTypeOK
  <2> QED
    BY <2>1, <2>2 DEF JobHasCommand
<1> QED
  BY <1>1, <1>2

(* The types hold at first.                                                 *)
LEMMA TrustTypesInit ==
  ASSUME TrustAssumption, TrustInit
  PROVE  TrustTypeOK /\ JobHasCommand
<1>1. /\ anchor \in [Purposes -> Usable] /\ pinned \in [Purposes -> Usable]
      /\ since \in [Purposes -> Int]
  BY DEF TrustInit, Usable, NoSeq
<1>2. /\ unitKey \in Usable
      /\ trust \in [sequence : Int, licence : Licences \cup {NoLicence},
                    rooted : BOOLEAN, signed : BOOLEAN]
  BY DEF TrustAssumption, TrustInit, NoTrust, NoSeq
<1>3. job \in [cmd : Commands \cup {NoCommand}, vendor : BOOLEAN,
               step : {"none", "latch", "anchor", "unit", "record"}]
  BY DEF TrustInit, NoJob
<1> QED
  BY <1>1, <1>2, <1>3 DEF TrustInit, TrustTypeOK, JobHasCommand, NoJob

(* Every step keeps the types.                                              *)
LEMMA TrustTypesStep ==
  ASSUME TrustAssumption, TrustTypeOK, JobHasCommand, [TrustNext]_trustVars
  PROVE  (TrustTypeOK /\ JobHasCommand)'
<1>1. CASE TrustBoots
  <2>1. BootKeys \in [Purposes -> Usable] /\ BootStrict \in BOOLEAN
    BY DEF BootKeys, BootStrict, TrustTypeOK, Purposes
  <2> QED
    BY <1>1, <2>1 DEF TrustBoots, disk, trustHistory, TrustTypeOK, JobHasCommand
<1>2. CASE TrustStops
  BY <1>2 DEF TrustStops, disk, TrustTypeOK, JobHasCommand, NoJob, Usable, Purposes
<1>3. CASE TrustTick
  BY <1>3 DEF TrustTick, disk, memory, trustHistory, TrustTypeOK, JobHasCommand
<1>4. ASSUME NEW c \in Commands, Arrives(c)
      PROVE  (TrustTypeOK /\ JobHasCommand)'
  <2>1. CASE Authorized(c)
    <3>1. /\ replayFile' \subseteq AuthIds \X Int
          /\ seen' \subseteq AuthIds \X Int /\ loaded' \in BOOLEAN
          /\ carried' \in [AuthIds -> Nat]
          /\ lapses' \subseteq {"forgot", "boundary", "unrecorded"}
      BY <2>1, GuardTypes DEF Authorized
    <3>2. UNCHANGED <<anchor, unitKey, trust, pinned, strict, since, up, now>>
      BY <1>4, <2>1 DEF Arrives, Authorized, Refused
    <3>3. /\ job' \in [cmd : Commands \cup {NoCommand}, vendor : BOOLEAN,
                       step : {"none", "latch", "anchor", "unit", "record"}]
          /\ JobHasCommand'
      <4>1. AfterAuth(c) \in {"none", "latch", "anchor"}
        BY DEF AfterAuth
      <4>2. CASE job' = [cmd |-> c, vendor |-> FALSE, step |-> AfterAuth(c)]
        BY <4>1, <4>2 DEF JobHasCommand
      <4>3. CASE job' = job
        BY <4>3 DEF TrustTypeOK, JobHasCommand
      <4> QED
        BY <2>1, <4>2, <4>3 DEF Authorized, Refused
    <3> QED
      BY <3>1, <3>2, <3>3 DEF TrustTypeOK
  <2>2. CASE ~Authorized(c)
    <3>1. UNCHANGED <<disk, memory, trustHistory, up, now>>
      BY <1>4, <2>2 DEF Arrives
    <3>2. job' = job \/ job' = [cmd |-> c, vendor |-> TRUE, step |-> "anchor"]
      BY <1>4, <2>2 DEF Arrives
    <3>3. /\ job' \in [cmd : Commands \cup {NoCommand}, vendor : BOOLEAN,
                       step : {"none", "latch", "anchor", "unit", "record"}]
          /\ JobHasCommand'
      <4>1. CASE job' = job
        BY <4>1 DEF TrustTypeOK, JobHasCommand
      <4>2. CASE job' = [cmd |-> c, vendor |-> TRUE, step |-> "anchor"]
        BY <4>2 DEF JobHasCommand
      <4> QED
        BY <3>2, <4>1, <4>2
    <3> QED
      BY <3>1, <3>3 DEF TrustTypeOK, disk, memory, trustHistory
  <2> QED
    BY <2>1, <2>2
<1>5. CASE Latch
  <2>1. /\ trust' \in [sequence : Int, licence : Licences \cup {NoLicence},
                       rooted : BOOLEAN, signed : BOOLEAN]
        /\ strict' \in BOOLEAN
    BY <1>5 DEF Latch, TrustTypeOK
  <2>2. /\ job' \in [cmd : Commands \cup {NoCommand}, vendor : BOOLEAN,
                     step : {"none", "latch", "anchor", "unit", "record"}]
        /\ JobHasCommand'
    <3> DEFINE s == IF job.cmd.rekey THEN "anchor" ELSE "none"
    <3>1. s \in {"none", "latch", "anchor", "unit", "record"} /\ Then(s)
      BY <1>5 DEF Latch
    <3>2. job.step # "none"
      BY <1>5 DEF Latch, Doing
    <3> QED
      BY <3>1, <3>2, ThenTypes
  <2> QED
    BY <1>5, <2>1, <2>2 DEF Latch, TrustTypeOK, trustHistory
<1>6. CASE PinsKey
  <2>1. job.step = "anchor" /\ job.cmd \in Commands
    BY <1>6 DEF PinsKey, Doing, JobHasCommand
  <2>2. /\ job.cmd.offer \in Usable /\ job.cmd.purpose \in Purposes
        /\ job.cmd.proof.sequence \in Int
    BY <2>1, CommandParts
  <2>3. /\ anchor' \in [Purposes -> Usable] /\ pinned' \in [Purposes -> Usable]
        /\ since' \in [Purposes -> Int]
    BY <1>6, <2>2 DEF PinsKey, TrustTypeOK, NoSeq
  <2>4. /\ job' \in [cmd : Commands \cup {NoCommand}, vendor : BOOLEAN,
                     step : {"none", "latch", "anchor", "unit", "record"}]
        /\ JobHasCommand'
    <3>1. PICK s \in {"none", "latch", "anchor", "unit", "record"} : Then(s)
      BY <1>6 DEF PinsKey, AfterAnchor
    <3> QED
      BY <2>1, <3>1, ThenTypes
  <2> QED
    BY <1>6, <2>3, <2>4 DEF PinsKey, TrustTypeOK
<1>7. CASE SyncsUnit
  <2>1. job.step = "unit" /\ job.cmd \in Commands
    BY <1>7 DEF SyncsUnit, Doing, JobHasCommand
  <2>2. job.cmd.offer \in Usable
    BY <2>1, CommandParts
  <2>3. unitKey' \in Usable
    BY <1>7, <2>2 DEF SyncsUnit, TrustTypeOK
  <2>4. PICK s \in {"none", "record"} : Then(s)
    BY <1>7 DEF SyncsUnit
  <2>5. /\ job' \in [cmd : Commands \cup {NoCommand}, vendor : BOOLEAN,
                     step : {"none", "latch", "anchor", "unit", "record"}]
        /\ JobHasCommand'
    BY <2>1, <2>4, ThenTypes
  <2> QED
    BY <1>7, <2>3, <2>5 DEF SyncsUnit, TrustTypeOK, memory, trustHistory
<1>8. CASE Records
  <2>1. job.step = "record" /\ job.cmd \in Commands /\ Then("none")
    BY <1>8 DEF Records, Doing, JobHasCommand
  <2>2. /\ job' \in [cmd : Commands \cup {NoCommand}, vendor : BOOLEAN,
                     step : {"none", "latch", "anchor", "unit", "record"}]
        /\ JobHasCommand'
    BY <2>1, ThenTypes
  <2>3. RecordOf(job.cmd) \in [sequence : Int, licence : Licences \cup {NoLicence},
                               rooted : BOOLEAN, signed : BOOLEAN]
    BY <2>1, CommandParts DEF RecordOf, TrustTypeOK
  <2>4. /\ trust' \in [sequence : Int, licence : Licences \cup {NoLicence},
                       rooted : BOOLEAN, signed : BOOLEAN]
        /\ lapses' \subseteq {"forgot", "boundary", "unrecorded"}
    BY <1>8, <2>3 DEF Records, TrustTypeOK
  <2> QED
    BY <1>8, <2>2, <2>4 DEF Records, TrustTypeOK, memory
<1>9. CASE UNCHANGED trustVars
  BY <1>9 DEF trustVars, disk, memory, trustHistory, TrustTypeOK, JobHasCommand
<1> QED
  BY <1>1, <1>2, <1>3, <1>4, <1>5, <1>6, <1>7, <1>8, <1>9 DEF TrustNext

(* Every variable of the anchors keeps its type.                            *)
LEMMA TrustTypes == TrustSpec => [](TrustTypeOK /\ JobHasCommand)
<1>1. TrustInit => TrustTypeOK /\ JobHasCommand
  BY TrustAssumption, TrustTypesInit
<1>2. TrustTypeOK /\ JobHasCommand /\ [TrustNext]_trustVars
        => (TrustTypeOK /\ JobHasCommand)'
  BY TrustAssumption, TrustTypesStep
<1> QED
  BY <1>1, <1>2, PTL DEF TrustSpec

(* What the agent decides by, and what is on file about it.                *)
KeysOnFile ==
  /\ up => pinned = BootKeys
  /\ job.step = "unit" => anchor["release"] # NoKey
StrictOnFile == strict /\ Override # "off" => BootStrict
IdsOnFile ==
  loaded /\ "forgot" \notin lapses => Live(seen, now) \subseteq Live(replayFile, now)

(* The keys in memory stay those a restart would read.                      *)
LEMMA KeysStep ==
  ASSUME TrustAssumption, TrustTypeOK, JobHasCommand, KeysOnFile, [TrustNext]_trustVars
  PROVE  KeysOnFile'
<1>1. CASE TrustBoots
  BY <1>1 DEF TrustBoots, disk, KeysOnFile, BootKeys
<1>2. CASE TrustStops
  BY <1>2 DEF TrustStops, KeysOnFile, NoJob
<1>3. CASE TrustTick
  BY <1>3 DEF TrustTick, disk, memory, KeysOnFile, BootKeys
<1>4. ASSUME NEW c \in Commands, Arrives(c)
      PROVE  KeysOnFile'
  <2>1. UNCHANGED <<anchor, unitKey, pinned, up>>
    BY <1>4 DEF Arrives, Authorized, Refused, disk, memory
  <2>2. job' = job \/ job'.step \in {"latch", "anchor", "none"}
    BY <1>4 DEF Arrives, Authorized, Refused, AfterAuth
  <2> QED
    BY <2>1, <2>2 DEF KeysOnFile, BootKeys
<1>5. CASE Latch
  <2>1. job'.step # "unit"
    BY <1>5, JobParts DEF Latch, Then, NoJob, TrustTypeOK
  <2> QED
    BY <1>5, <2>1 DEF Latch, KeysOnFile, BootKeys
<1>6. CASE PinsKey
  <2> DEFINE p == job.cmd.purpose
             k == job.cmd.offer
  <2>1. up /\ job.step = "anchor" /\ job.cmd \in Commands
    BY <1>6 DEF PinsKey, Doing, JobHasCommand
  <2>2. p \in Purposes /\ k \in Usable
    BY <2>1, CommandParts
  <2>3. up' = up /\ unitKey' = unitKey
    BY <1>6 DEF PinsKey
  <2>4. CASE UNCHANGED <<anchor, pinned>> /\ job'.step # "unit"
    BY <2>3, <2>4 DEF KeysOnFile, BootKeys
  <2>5. CASE /\ k # NoKey
             /\ anchor' = [anchor EXCEPT ![p] = k]
             /\ pinned' = [pinned EXCEPT ![p] = k]
             /\ job'.step = "unit" => p = "release"
    <3>1. anchor \in [Purposes -> Usable] /\ pinned \in [Purposes -> Usable]
      BY DEF TrustTypeOK
    <3>2. pinned = BootKeys
      BY <2>1 DEF KeysOnFile
    <3>3. CASE p = "release"
      BY <2>2, <2>3, <2>5, <3>1, <3>2, <3>3 DEF KeysOnFile, BootKeys, Purposes
    <3>4. CASE p = "command"
      BY <2>2, <2>3, <2>5, <3>1, <3>2, <3>4 DEF KeysOnFile, BootKeys, Purposes
    <3> QED
      BY <2>2, <3>3, <3>4 DEF Purposes
  <2>6. Then("none") \/ Then("record") => job'.step # "unit"
    BY DEF Then, NoJob, TrustTypeOK
  <2>7. p # "release" /\ Then(AfterAnchor) => job'.step # "unit"
    BY DEF Then, AfterAnchor, NoJob, TrustTypeOK
  <2> QED
    BY <1>6, <2>4, <2>5, <2>6, <2>7 DEF PinsKey
<1>7. CASE SyncsUnit
  <2>1. job.step = "unit" /\ job'.step # "unit"
    BY <1>7, JobParts DEF SyncsUnit, Doing, Then, NoJob, TrustTypeOK
  <2> QED
    BY <1>7, <2>1 DEF SyncsUnit, memory, KeysOnFile, BootKeys
<1>8. CASE Records
  BY <1>8 DEF Records, Then, NoJob, memory, KeysOnFile, BootKeys
<1>9. CASE UNCHANGED trustVars
  BY <1>9 DEF trustVars, disk, memory, KeysOnFile, BootKeys
<1> QED
  BY <1>1, <1>2, <1>3, <1>4, <1>5, <1>6, <1>7, <1>8, <1>9 DEF TrustNext

(* Strictness stays what a restart would read.                              *)
LEMMA StrictStep ==
  ASSUME Override \in {"on", "off", "unset"}, TrustTypeOK, StrictOnFile, [TrustNext]_trustVars
  PROVE  StrictOnFile'
<1>1. CASE TrustBoots
  BY <1>1 DEF TrustBoots, disk, StrictOnFile, BootStrict
<1>2. CASE TrustStops
  BY <1>2 DEF TrustStops, StrictOnFile
<1>3. ASSUME NEW c \in Commands, Arrives(c)
      PROVE  StrictOnFile'
  BY <1>3 DEF Arrives, Authorized, Refused, disk, memory, StrictOnFile, BootStrict
<1>4. CASE Latch
  BY <1>4 DEF Latch, StrictOnFile, BootStrict, TrustTypeOK
<1>5. CASE TrustTick \/ PinsKey \/ SyncsUnit
  BY <1>5 DEF TrustTick, PinsKey, SyncsUnit, disk, memory, StrictOnFile, BootStrict
<1>6. CASE Records
  BY <1>6 DEF Records, RecordOf, memory, StrictOnFile, BootStrict
<1>7. CASE UNCHANGED trustVars
  BY <1>7 DEF trustVars, disk, memory, StrictOnFile, BootStrict
<1> QED
  BY <1>1, <1>2, <1>3, <1>4, <1>5, <1>6, <1>7 DEF TrustNext

(* The guard's answer and what asking it leaves behind, in one case each.  *)
LEMMA GuardCases ==
  ASSUME NEW c, GuardAsked(c)
  PROVE  \/ UNCHANGED <<seen, loaded, replayFile, carried, lapses>>
         \/ /\ loaded' = TRUE /\ seen' = Remembered
            /\ UNCHANGED <<replayFile, carried, lapses>>
         \/ /\ Genuine(c) /\ Unseen(c)
            /\ loaded' = TRUE /\ seen' = Remembered \cup {<<c.id, Expiry(c)>>}
            /\ carried' = [carried EXCEPT ![c.id] = @ + 1]
            /\ lapses \subseteq lapses'
            /\ now = Expiry(c) => "boundary" \in lapses'
            /\ replayFile' = seen' \/ "forgot" \in lapses'
<1>1. CASE ~Signed(c) \/ ~Genuine(c)
  BY <1>1 DEF GuardAsked
<1>2. CASE Genuine(c) /\ ~Unseen(c)
  BY <1>2 DEF GuardAsked
<1>3. CASE Signed(c) /\ Genuine(c) /\ Unseen(c)
  <2>1. /\ loaded' = TRUE /\ seen' = Remembered \cup {<<c.id, Expiry(c)>>}
        /\ carried' = [carried EXCEPT ![c.id] = @ + 1]
    BY <1>3 DEF GuardAsked
  <2>2. PICK ok \in WriteOutcomes :
          /\ replayFile' = IF ok THEN seen' ELSE replayFile
          /\ lapses' = lapses \cup (IF ok THEN {} ELSE {"forgot"})
                              \cup (IF now = Expiry(c) THEN {"boundary"} ELSE {})
    BY <1>3 DEF GuardAsked
  <2> QED
    BY <1>3, <2>1, <2>2
<1> QED
  BY <1>1, <1>2, <1>3


(* The ids refused stay those a restart would refuse.                       *)
LEMMA IdsStep ==
  ASSUME TrustTypeOK, IdsOnFile, [TrustNext]_trustVars
  PROVE  IdsOnFile'
<1>1. CASE UNCHANGED <<seen, loaded, replayFile, now, lapses>>
  BY <1>1 DEF IdsOnFile, Live
<1>2. ASSUME NEW c \in Commands, GuardAsked(c), now' = now
      PROVE  IdsOnFile'
  <2>1. CASE UNCHANGED <<seen, loaded, replayFile, carried, lapses>>
    BY <1>2, <2>1 DEF IdsOnFile, Live
  <2>2. CASE loaded' = TRUE /\ seen' = Remembered /\ UNCHANGED <<replayFile, lapses>>
    BY <1>2, <2>2 DEF IdsOnFile, Remembered, Live
  <2>3. CASE replayFile' = seen' \/ "forgot" \in lapses'
    BY <2>3 DEF IdsOnFile
  <2> QED
    BY <1>2, <2>1, <2>2, <2>3, GuardCases
<1>3. CASE TrustStops
  BY <1>3 DEF TrustStops, IdsOnFile
<1>4. CASE TrustTick
  <2>1. now' = now + 1 /\ now \in Nat
    BY <1>4 DEF TrustTick, TrustTypeOK
  <2>2. /\ UNCHANGED <<seen, loaded, replayFile, lapses>>
        /\ seen \subseteq AuthIds \X Int /\ replayFile \subseteq AuthIds \X Int
    BY <1>4 DEF TrustTick, disk, memory, trustHistory, TrustTypeOK
  <2>3. ASSUME NEW e \in Live(seen, now)', loaded, "forgot" \notin lapses
        PROVE  e \in Live(replayFile, now)'
    <3>1. e \in seen /\ e[2] > now + 1 /\ e[2] \in Int
      BY <2>1, <2>2, <2>3 DEF Live
    <3>2. e \in Live(seen, now)
      BY <2>1, <3>1 DEF Live
    <3>3. e \in replayFile
      BY <2>3, <3>2 DEF IdsOnFile, Live
    <3> QED
      BY <2>1, <2>2, <3>1, <3>3 DEF Live
  <2> QED
    BY <2>2, <2>3 DEF IdsOnFile
<1>5. ASSUME NEW c \in Commands, Arrives(c)
      PROVE  IdsOnFile'
  BY <1>1, <1>2, <1>5 DEF Arrives, Authorized, disk, memory, trustHistory
<1>6. CASE TrustBoots \/ Latch \/ PinsKey \/ SyncsUnit
  BY <1>1, <1>6 DEF TrustBoots, Latch, PinsKey, SyncsUnit, disk, memory, trustHistory
<1>7. CASE Records
  BY <1>7 DEF Records, memory, IdsOnFile, Live
<1>8. CASE UNCHANGED trustVars
  BY <1>1, <1>8 DEF trustVars, disk, memory, trustHistory
<1> QED
  BY <1>3, <1>4, <1>5, <1>6, <1>7, <1>8 DEF TrustNext

(* A signed command that was carried out and is not out of date yet is on  *)
(* file, and in memory once the file has been read: unless a write failed  *)
(* or a command came in its last instant.                                  *)
CarriedIsRemembered ==
  lapses \cap {"forgot", "boundary"} = {} =>
    \A c \in Commands : c.id # NoId /\ carried[c.id] > 0 /\ now < Expiry(c)
      => /\ <<c.id, Expiry(c)>> \in replayFile
         /\ loaded => <<c.id, Expiry(c)>> \in seen

(* Nothing has been carried out.                                            *)
LEMMA CarriedInit ==
  ASSUME TrustAssumption, TrustInit
  PROVE  CarriedIsRemembered /\ ActsOnce
<1>1. \A c \in Commands : c.id # NoId => c.id \in AuthIds
  BY CommandParts
<1> QED
  BY <1>1 DEF TrustInit, CarriedIsRemembered, ActsOnce

(* Both hold on through one question to the guard.                         *)
LEMMA CarriedGuarded ==
  ASSUME TrustAssumption, TrustTypeOK, CarriedIsRemembered, ActsOnce,
         NEW c \in Commands, GuardAsked(c), now' = now
  PROVE  (CarriedIsRemembered /\ ActsOnce)'
<1> DEFINE Lapsed == lapses \cap {"forgot", "boundary"} # {}
<1>1. CASE UNCHANGED <<seen, loaded, replayFile, carried, lapses>>
  BY <1>1 DEF CarriedIsRemembered, ActsOnce, Expiry
<1>2. CASE /\ loaded' = TRUE /\ seen' = Remembered
           /\ UNCHANGED <<replayFile, carried, lapses>>
  BY <1>2 DEF CarriedIsRemembered, ActsOnce, Expiry, Remembered, Live
<1>3. CASE /\ Genuine(c) /\ Unseen(c)
           /\ loaded' = TRUE /\ seen' = Remembered \cup {<<c.id, Expiry(c)>>}
           /\ carried' = [carried EXCEPT ![c.id] = @ + 1]
           /\ lapses \subseteq lapses'
           /\ now = Expiry(c) => "boundary" \in lapses'
           /\ replayFile' = seen' \/ "forgot" \in lapses'
  <2>1. /\ c.id \in AuthIds /\ Expiry(c) \in Int /\ now \in Nat
        /\ now <= Expiry(c)
    BY <1>3, CommandParts DEF Genuine, Fresh, Expiry, TrustTypeOK, TrustAssumption
  <2>2. CASE Lapsed'
    BY <2>2 DEF CarriedIsRemembered, ActsOnce
  <2>3. CASE ~Lapsed'
    <3>1. ~Lapsed /\ now < Expiry(c) /\ replayFile' = seen'
      BY <1>3, <2>1, <2>3
    <3>2. carried[c.id] = 0
      <4>1. SUFFICES ASSUME carried[c.id] > 0
                     PROVE  FALSE
        BY <2>1 DEF TrustTypeOK
      <4>2. /\ <<c.id, Expiry(c)>> \in replayFile
            /\ loaded => <<c.id, Expiry(c)>> \in seen
        BY <1>3, <3>1, <4>1 DEF CarriedIsRemembered, Genuine
      <4>3. <<c.id, Expiry(c)>> \in Remembered
        BY <2>1, <3>1, <4>2 DEF Remembered, Live
      <4> QED
        BY <1>3, <4>3 DEF Unseen
    <3>3. ActsOnce'
      BY <1>3, <2>1, <3>1, <3>2 DEF ActsOnce, TrustTypeOK
    <3>4. ASSUME NEW d \in Commands, d.id # NoId, carried'[d.id] > 0, now < Expiry(d)
          PROVE  <<d.id, Expiry(d)>> \in seen'
      <4>1. CASE d.id = c.id
        BY <1>3, <3>4, <4>1 DEF TrustAssumption
      <4>2. CASE d.id # c.id
        <5>1. d.id \in AuthIds /\ Expiry(d) \in Int
          BY <3>4, CommandParts
        <5>2. carried[d.id] > 0
          BY <1>3, <3>4, <4>2, <5>1 DEF TrustTypeOK
        <5>3. /\ <<d.id, Expiry(d)>> \in replayFile
              /\ loaded => <<d.id, Expiry(d)>> \in seen
          BY <3>1, <3>4, <5>2 DEF CarriedIsRemembered
        <5>4. <<d.id, Expiry(d)>> \in Remembered
          BY <3>4, <5>3 DEF Remembered, Live
        <5> QED
          BY <1>3, <5>4
      <4> QED
        BY <4>1, <4>2
    <3> QED
      BY <1>3, <3>1, <3>3, <3>4 DEF CarriedIsRemembered, Expiry
  <2> QED
    BY <2>2, <2>3
<1> QED
  BY <1>1, <1>2, <1>3, GuardCases

(* What was carried out is remembered or can no longer be fresh.            *)
LEMMA CarriedStep ==
  ASSUME TrustAssumption, TrustTypeOK, CarriedIsRemembered, ActsOnce,
         [TrustNext]_trustVars
  PROVE  (CarriedIsRemembered /\ ActsOnce)'
<1>1. CASE UNCHANGED <<seen, loaded, replayFile, now, carried, lapses>>
  BY <1>1 DEF CarriedIsRemembered, ActsOnce, Expiry
<1>2. CASE TrustStops
  <2>1. lapses \subseteq lapses'
    BY <1>2 DEF TrustStops
  <2> QED
    BY <1>2, <2>1 DEF TrustStops, disk, CarriedIsRemembered, ActsOnce, Expiry
<1>3. CASE TrustTick
  <2>1. ASSUME NEW c \in Commands, now' < Expiry(c)
        PROVE  now < Expiry(c)
    BY <1>3, <2>1, CommandParts DEF TrustTick, TrustTypeOK
  <2>2. UNCHANGED <<seen, loaded, replayFile, carried, lapses>>
    BY <1>3 DEF TrustTick, disk, memory, trustHistory
  <2> QED
    BY <2>1, <2>2 DEF CarriedIsRemembered, ActsOnce, Expiry
<1>4. ASSUME NEW c \in Commands, Arrives(c)
      PROVE  (CarriedIsRemembered /\ ActsOnce)'
  <2>1. CASE GuardAsked(c) /\ now' = now
    BY <2>1, CarriedGuarded
  <2> QED
    BY <1>1, <1>4, <2>1 DEF Arrives, Authorized, disk, memory, trustHistory
<1>5. CASE TrustBoots \/ Latch \/ PinsKey \/ SyncsUnit
  BY <1>1, <1>5 DEF TrustBoots, Latch, PinsKey, SyncsUnit, disk, memory, trustHistory
<1>6. CASE Records
  BY <1>6 DEF Records, memory, CarriedIsRemembered, ActsOnce, Expiry
<1>7. CASE UNCHANGED trustVars
  BY <1>1, <1>7 DEF trustVars, disk, memory, trustHistory
<1> QED
  BY <1>2, <1>3, <1>4, <1>5, <1>6, <1>7 DEF TrustNext

(* Whatever is lost, repeated or interrupted, the agent goes on deciding by *)
(* what it has decided by: it acts on a signed command once, and a restart  *)
(* between two handlers would change neither its keys, nor whether it       *)
(* insists on signatures, nor the ids it refuses (src/commandAuth.js,       *)
(* src/release/keyStore.js, handleRekey of src/runtime.js).                 *)
THEOREM TrustForgetsNothing == TrustSpec => []NothingForgotten
<1> DEFINE Inv == /\ TrustTypeOK /\ JobHasCommand
                  /\ KeysOnFile /\ StrictOnFile /\ IdsOnFile
                  /\ CarriedIsRemembered /\ ActsOnce
<1>1. TrustInit => Inv
  <2>1. TrustInit => KeysOnFile /\ StrictOnFile /\ IdsOnFile
    BY DEF TrustInit, KeysOnFile, StrictOnFile, IdsOnFile, NoJob
  <2> QED
    BY <2>1, TrustTypesInit, CarriedInit, TrustAssumption
<1>2. Inv /\ [TrustNext]_trustVars => Inv'
  <2>1. Override \in {"on", "off", "unset"}
    BY TrustAssumption
  <2> QED
    BY <2>1, TrustTypesStep, KeysStep, StrictStep, IdsStep, CarriedStep, TrustAssumption
<1>3. Inv => NothingForgotten
  BY DEF NothingForgotten, RestartForgetsNothing, KeysOnFile, StrictOnFile, IdsOnFile
<1> QED
  BY <1>1, <1>2, <1>3, PTL DEF TrustSpec

(* A handler on the vendor's word, and what that word is worth.            *)
VendorJob == job.vendor /\ job.step \in {"anchor", "unit", "record"}
(* The sequence number of the authorisation a handler acts on.              *)
Worth == job.cmd.proof.sequence

(* Until the vendor has authorised anything an anchor may be replaced on an *)
(* older say-so; from then on only by an authorisation as late or later.   *)
JobsInOrder ==
  /\ ~trust.rooted => trust.sequence = NoSeq
  /\ job.vendor => job.step # "latch"
  /\ job.step = "record" => job.vendor
  /\ VendorJob => Worth >= trust.sequence
  /\ (job.step = "latch" /\ job.cmd.rekey) \/ (job.step = "anchor" /\ ~job.vendor)
       => ~trust.rooted

(* What authorised the anchors in force is on file, or about to be.        *)
SinceOnFile ==
  "unrecorded" \in lapses
  \/ \A p \in Purposes :
       \/ since[p] <= trust.sequence
       \/ VendorJob /\ job.step # "anchor" /\ since[p] <= Worth

(* The strengthening of NoRollback.                                         *)
RollbackInv == JobsInOrder /\ SinceOnFile

(* It holds at first.                                                       *)
LEMMA RollbackInit ==
  ASSUME TrustInit
  PROVE  RollbackInv
BY DEF TrustInit, RollbackInv, JobsInOrder, SinceOnFile, VendorJob, NoJob, NoTrust, NoSeq

(* Every step keeps it.                                                     *)
LEMMA RollbackStep ==
  ASSUME TrustAssumption, TrustTypeOK, JobHasCommand, RollbackInv, [TrustNext]_trustVars
  PROVE  RollbackInv'
<1> USE DEF RollbackInv
<1>1. CASE TrustBoots \/ TrustTick \/ UNCHANGED trustVars
  <2>1. UNCHANGED <<trust, job, since, lapses>>
    BY <1>1 DEF TrustBoots, TrustTick, trustVars, disk, memory, trustHistory
  <2> QED
    BY <2>1 DEF JobsInOrder, SinceOnFile, VendorJob, Worth
<1>2. CASE TrustStops
  <2>1. /\ job' = NoJob /\ UNCHANGED <<trust, since>>
        /\ lapses \subseteq lapses'
        /\ VendorJob /\ job.step # "anchor" => "unrecorded" \in lapses'
    BY <1>2 DEF TrustStops, VendorJob, disk
  <2> QED
    BY <2>1 DEF JobsInOrder, SinceOnFile, VendorJob, Worth, NoJob
<1>3. ASSUME NEW c \in Commands, Arrives(c)
      PROVE  RollbackInv'
  <2>1. /\ UNCHANGED <<trust, since>> /\ lapses \subseteq lapses'
        /\ job = NoJob
    BY <1>3, GuardCases DEF Arrives, Authorized, Refused, disk, trustHistory
  <2>2. \A p \in Purposes : since[p] <= trust.sequence \/ "unrecorded" \in lapses
    BY <2>1 DEF SinceOnFile, VendorJob, NoJob
  <2>3. CASE job' = job
    BY <2>1, <2>2, <2>3 DEF JobsInOrder, SinceOnFile, VendorJob, Worth, NoJob
  <2>4. CASE /\ ProofAccepted(c)
             /\ job' = [cmd |-> c, vendor |-> TRUE, step |-> "anchor"]
    <3>1. /\ job'.vendor /\ job'.step = "anchor" /\ job'.cmd = c
      BY <2>4
    <3>2. Worth' = c.proof.sequence
      BY <3>1 DEF Worth
    <3>3. Worth' >= trust.sequence
      BY <2>4, <3>2 DEF ProofAccepted
    <3> QED
      BY <2>1, <2>2, <3>1, <3>3 DEF JobsInOrder, SinceOnFile, VendorJob
  <2>5. CASE /\ c.rekey => ~trust.rooted
             /\ AfterAuth(c) # "none"
             /\ job' = [cmd |-> c, vendor |-> FALSE, step |-> AfterAuth(c)]
    <3>1. /\ ~job'.vendor /\ job'.cmd = c
          /\ job'.step = "latch" \/ (job'.step = "anchor" /\ c.rekey)
      <4>1. AfterAuth(c) = "latch" \/ (AfterAuth(c) = "anchor" /\ c.rekey)
        BY <2>5 DEF AfterAuth
      <4> QED
        BY <2>5, <4>1
    <3> QED
      BY <2>1, <2>2, <2>5, <3>1 DEF JobsInOrder, SinceOnFile, VendorJob, Worth
  <2> QED
    BY <1>3, <2>3, <2>4, <2>5 DEF Arrives, Authorized, Refused
<1>4. CASE Latch
  <2>1. /\ job.step = "latch" /\ ~job.vendor
        /\ UNCHANGED <<since, lapses>>
    BY <1>4, JobParts DEF Latch, Doing, JobsInOrder, trustHistory
  <2>2. trust'.rooted = trust.rooted /\ trust'.sequence = trust.sequence
    BY <1>4 DEF Latch, TrustTypeOK
  <2>3. \/ job' = NoJob
        \/ job.cmd.rekey /\ job' = [job EXCEPT !.step = "anchor"]
    BY <1>4 DEF Latch, Then
  <2>4. \A p \in Purposes : since[p] <= trust.sequence \/ "unrecorded" \in lapses
    BY <2>1 DEF SinceOnFile, VendorJob
  <2>5. ~job'.vendor /\ job'.step \in {"none", "anchor"}
        /\ (job'.step = "anchor" => job.cmd.rekey)
    BY <2>1, <2>3, JobParts DEF NoJob, TrustTypeOK
  <2> QED
    BY <2>1, <2>2, <2>4, <2>5 DEF JobsInOrder, SinceOnFile, VendorJob, Worth
<1>5. CASE PinsKey
  <2> DEFINE p == job.cmd.purpose
  <2>1. /\ job.step = "anchor" /\ job.cmd \in Commands
        /\ UNCHANGED <<trust, lapses>>
    BY <1>5 DEF PinsKey, Doing, JobHasCommand
  <2>2. p \in Purposes /\ Worth \in Int /\ trust.sequence \in Int
    BY <2>1, CommandParts DEF Worth, TrustTypeOK
  <2>3. \A q \in Purposes : since[q] <= trust.sequence \/ "unrecorded" \in lapses
    BY <2>1 DEF SinceOnFile, VendorJob
  <2>4. job.vendor => Worth >= trust.sequence
    BY <2>1 DEF JobsInOrder, VendorJob
  <2>5. ~job.vendor => trust.sequence = NoSeq
    BY <2>1 DEF JobsInOrder
  <2>6. /\ job'.step \in {"none", "unit", "record"}
        /\ job'.step = "record" => job'.vendor
        /\ job'.vendor => job.vendor /\ job'.cmd = job.cmd
    BY <1>5, JobParts DEF PinsKey, AfterAnchor, Then, NoJob, TrustTypeOK
  <2>7. JobsInOrder'
    BY <2>1, <2>4, <2>6 DEF JobsInOrder, VendorJob, Worth
  <2>8. SinceOnFile'
    <3>1. CASE since' = since
      BY <2>1, <2>3, <3>1 DEF SinceOnFile
    <3>2. CASE /\ since' = [since EXCEPT ![p] = IF job.vendor THEN Worth ELSE NoSeq]
               /\ Then(AfterAnchor)
      <4>1. CASE ~job.vendor
        BY <2>1, <2>2, <2>3, <2>5, <3>2, <4>1 DEF SinceOnFile, NoSeq, TrustTypeOK
      <4>2. CASE job.vendor
        <5>1. /\ job'.vendor /\ job'.cmd = job.cmd
              /\ job'.step \in {"unit", "record"}
          BY <3>2, <4>2 DEF Then, AfterAnchor, TrustTypeOK
        <5>2. VendorJob' /\ job'.step # "anchor" /\ Worth' = Worth
          BY <5>1 DEF VendorJob, Worth
        <5>3. since' = [since EXCEPT ![p] = Worth]
          BY <3>2, <4>2
        <5> HIDE DEF p
        <5>4. \A q \in Purposes : q # p => since'[q] = since[q]
          BY <5>3 DEF TrustTypeOK
        <5>5. since'[p] = Worth
          BY <2>2, <5>3 DEF TrustTypeOK
        <5> QED
          BY <2>1, <2>2, <2>3, <5>2, <5>4, <5>5 DEF SinceOnFile
      <4> QED
        BY <4>1, <4>2
    <3> QED
      BY <1>5, <3>1, <3>2 DEF PinsKey, Worth
  <2> QED
    BY <2>7, <2>8
<1>6. CASE SyncsUnit
  <2>1. /\ job.step = "unit" /\ UNCHANGED <<trust, since, lapses>>
        /\ Then(IF job.vendor THEN "record" ELSE "none")
    BY <1>6 DEF SyncsUnit, Doing, trustHistory
  <2>2. CASE job.vendor
    BY <2>1, <2>2 DEF Then, TrustTypeOK, JobsInOrder, SinceOnFile, VendorJob, Worth
  <2>3. CASE ~job.vendor
    BY <2>1, <2>3 DEF Then, NoJob, JobsInOrder, SinceOnFile, VendorJob, Worth
  <2> QED
    BY <2>2, <2>3
<1>7. CASE Records
  <2>1. /\ job.step = "record" /\ job' = NoJob /\ since' = since
        /\ job.cmd \in Commands
    BY <1>7 DEF Records, Doing, Then, JobHasCommand
  <2>2. Worth \in Int /\ trust.sequence \in Int /\ since \in [Purposes -> Int]
    BY <2>1, CommandParts DEF Worth, TrustTypeOK
  <2>3. CASE trust' = trust /\ "unrecorded" \in lapses'
    BY <2>1, <2>3 DEF NoJob, JobsInOrder, SinceOnFile, VendorJob
  <2>4. CASE trust' = RecordOf(job.cmd) /\ lapses' = lapses
    <3>1. trust'.rooted /\ trust'.sequence = Worth
      BY <2>4 DEF RecordOf, Worth
    <3>2. Worth >= trust.sequence
      BY <2>1 DEF JobsInOrder, VendorJob
    <3>3. \A p \in Purposes : since[p] <= Worth \/ "unrecorded" \in lapses
      BY <2>2, <3>2 DEF SinceOnFile, TrustTypeOK
    <3>4. JobsInOrder'
      BY <2>1, <3>1 DEF JobsInOrder, VendorJob, NoJob
    <3> QED
      BY <2>1, <2>4, <3>1, <3>3, <3>4 DEF SinceOnFile
  <2> QED
    BY <1>7, <2>3, <2>4 DEF Records
<1> QED
  BY <1>1, <1>2, <1>3, <1>4, <1>5, <1>6, <1>7 DEF TrustNext

(* An anchor the vendor authorised gives way only to one authorised as late *)
(* or later, whichever key it is, over crashes and repeated or reordered    *)
(* proofs, unless an authorisation was accepted and never reached the disk  *)
(* (src/license/trustProof.js, handleRekey of src/runtime.js).              *)
THEOREM AnchorsNeverRollBack == TrustSpec => NoRollback
<1> DEFINE Inv  == TrustTypeOK /\ JobHasCommand /\ RollbackInv
           Kept == \A p \in Purposes : since'[p] >= since[p] \/ "unrecorded" \in lapses
<1>1. TrustInit => Inv
  BY RollbackInit, TrustTypesInit, TrustAssumption
<1>2. Inv /\ [TrustNext]_trustVars => Inv'
  BY TrustTypesStep, RollbackStep, TrustAssumption
<1>3. Inv /\ [TrustNext]_trustVars => [Kept]_trustVars
  <2> SUFFICES ASSUME Inv, TrustNext, NEW p \in Purposes, "unrecorded" \notin lapses
               PROVE  since'[p] >= since[p]
    OBVIOUS
  <2>0. since \in [Purposes -> Int]
    BY DEF TrustTypeOK
  <2>1. CASE since' = since
    BY <2>0, <2>1
  <2>2. CASE PinsKey
    <3> DEFINE q == job.cmd.purpose
    <3>1. job.step = "anchor" /\ job.cmd \in Commands
      BY <2>2 DEF PinsKey, Doing, JobHasCommand
    <3>2. q \in Purposes /\ Worth \in Int /\ trust.sequence \in Int
      BY <3>1, CommandParts, TrustAssumption DEF Worth, TrustTypeOK
    <3>3. since[p] <= trust.sequence
      BY <3>1 DEF RollbackInv, SinceOnFile
    <3>4. (IF job.vendor THEN Worth ELSE NoSeq) >= trust.sequence
      BY <3>1, <3>2 DEF RollbackInv, JobsInOrder, VendorJob, NoSeq
    <3>5. CASE since' = [since EXCEPT ![q] = IF job.vendor THEN Worth ELSE NoSeq]
      <4> DEFINE n == IF job.vendor THEN Worth ELSE NoSeq
      <4>1. n \in Int
        BY <3>2 DEF NoSeq
      <4> HIDE DEF n, q
      <4>2. since'[p] = n \/ since'[p] = since[p]
        BY <2>0, <3>5 DEF n
      <4>3. n >= trust.sequence
        BY <3>4 DEF n
      <4> QED
        BY <2>0, <3>2, <3>3, <4>1, <4>2, <4>3
    <3> QED
      BY <2>1, <2>2, <3>5 DEF PinsKey, Worth
  <2>3. ~PinsKey => since' = since
    BY DEF TrustNext, TrustBoots, TrustStops, TrustTick, Arrives, Authorized, Refused,
           Latch, SyncsUnit, Records, trustHistory
  <2> QED
    BY <2>1, <2>2, <2>3
<1>4. TrustSpec => [][Kept]_trustVars
  BY <1>1, <1>2, <1>3, PTL DEF TrustSpec
<1> QED
  BY <1>4 DEF NoRollback

-----------------------------------------------------------------------------
(* Codes and tokens.                                                       *)

(* Where a process of the enrolment can be.                                 *)
Stages == {"idle", "checking", "asking", "got", "saving", "keep", "keeping", "drop",
           "dropping", "running", "leaving"}

(* A process that holds a token got it for a code.                         *)
TokensHaveCodes == \A p \in Procs : At(p, "got") \/ At(p, "saving") => proc[p].code \in Codes

(* The types, and that a token in hand is for a code.                       *)
EnrolTyped == EnrolTypeOK /\ TokensHaveCodes

(* A process that goes on changes its place and nothing else.               *)
LEMMA MovedProcess ==
  ASSUME EnrolTyped, NEW p \in Procs, NEW s \in Stages,
         s \in {"got", "saving"} => proc[p].code \in Codes, Goes(p, s)
  PROVE  /\ proc' \in [Procs -> [at : Stages, code : Codes \cup {NoCode},
                                 found : Codes \cup {Empty}, force : BOOLEAN]]
         /\ TokensHaveCodes'
         /\ proc'[p].at = s /\ proc'[p].code = proc[p].code
         /\ \A q \in Procs \ {p} : proc'[q] = proc[q]
<1>1. proc' = [proc EXCEPT ![p].at = s]
  BY DEF Goes
<1>2. proc \in [Procs -> [at : Stages, code : Codes \cup {NoCode},
                          found : Codes \cup {Empty}, force : BOOLEAN]]
  BY DEF EnrolTyped, EnrolTypeOK, Stages
<1>3. proc' \in [Procs -> [at : Stages, code : Codes \cup {NoCode},
                           found : Codes \cup {Empty}, force : BOOLEAN]]
  BY <1>1, <1>2
<1>4. /\ proc'[p].at = s /\ proc'[p].code = proc[p].code
      /\ \A q \in Procs \ {p} : proc'[q] = proc[q]
  BY <1>1, <1>2
<1> QED
  BY <1>3, <1>4 DEF EnrolTyped, TokensHaveCodes, At

(* A process that ends has nothing in hand.                                 *)
LEMMA EndedProcess ==
  ASSUME EnrolTyped, NEW p \in Procs, Ends(p)
  PROVE  /\ proc' \in [Procs -> [at : Stages, code : Codes \cup {NoCode},
                                 found : Codes \cup {Empty}, force : BOOLEAN]]
         /\ TokensHaveCodes'
         /\ proc'[p].at = "idle"
         /\ \A q \in Procs \ {p} : proc'[q] = proc[q]
<1>1. proc' = [proc EXCEPT ![p] = Resting]
  BY DEF Ends
<1>2. proc \in [Procs -> [at : Stages, code : Codes \cup {NoCode},
                          found : Codes \cup {Empty}, force : BOOLEAN]]
  BY DEF EnrolTyped, EnrolTypeOK, Stages
<1>3. proc' \in [Procs -> [at : Stages, code : Codes \cup {NoCode},
                           found : Codes \cup {Empty}, force : BOOLEAN]]
  BY <1>1, <1>2 DEF Resting, Stages
<1>4. /\ proc'[p].at = "idle"
      /\ \A q \in Procs \ {p} : proc'[q] = proc[q]
  BY <1>1, <1>2 DEF Resting
<1> QED
  BY <1>3, <1>4 DEF EnrolTyped, TokensHaveCodes, At

(* The types hold at first.                                                 *)
LEMMA EnrolTypesInit ==
  ASSUME EnrollmentAssumption, EnrolInit
  PROVE  EnrolTyped
BY DEF EnrollmentAssumption, EnrolInit, EnrolTyped, EnrolTypeOK, TokensHaveCodes, At, Resting

(* Every step keeps the types.                                              *)
LEMMA EnrolTypesStep ==
  ASSUME EnrollmentAssumption, EnrolTyped, [EnrolNext]_enrolVars
  PROVE  EnrolTyped'
<1> DEFINE ProcOK == proc \in [Procs -> [at : Stages, code : Codes \cup {NoCode},
                                         found : Codes \cup {Empty}, force : BOOLEAN]]
           RestOK == /\ tokenFile \in Codes \cup {Empty}
                     /\ conf \in [code : Codes \cup {NoCode}, whole : BOOLEAN]
                     /\ unused \subseteq Codes /\ accepted \subseteq Codes
                     /\ installed \in BOOLEAN
                     /\ troubles \subseteq {"answer", "disk", "crash", "deleted", "revoked"}
<1>0. EnrolTyped <=> RestOK /\ ProcOK /\ TokensHaveCodes
  BY DEF EnrolTyped, EnrolTypeOK, Stages
<1>a. EnrolTyped' <=> RestOK' /\ ProcOK' /\ TokensHaveCodes'
  BY DEF EnrolTyped, EnrolTypeOK, Stages
<1>1. CASE Installed \/ Revoked \/ UNCHANGED enrolVars
  BY <1>0, <1>a, <1>1 DEF Installed, Revoked, enrolVars, TokensHaveCodes, At
<1>2. CASE ServiceStarts
  <2>1. CodeOffered \in Codes \cup {NoCode}
    BY <1>0 DEF CodeOffered, EnrollmentAssumption
  <2>2. PICK r \in [at : {"running", "asking"}, code : Codes \cup {NoCode},
                    found : Codes \cup {Empty}, force : BOOLEAN] :
          proc' = [proc EXCEPT !["service"] = r]
    <3> DEFINE r(s, c) == [Resting EXCEPT !.at = s, !.code = c]
    <3>1. \A s \in {"running", "asking"}, c \in Codes \cup {NoCode} :
            r(s, c) \in [at : {"running", "asking"}, code : Codes \cup {NoCode},
                         found : Codes \cup {Empty}, force : BOOLEAN]
      BY DEF Resting
    <3> HIDE DEF r
    <3>2. PICK s \in {"running", "asking"}, c \in Codes \cup {NoCode} :
            proc' = [proc EXCEPT !["service"] = r(s, c)]
      BY <1>0, <1>2, <2>1 DEF ServiceStarts, Holds, r
    <3> QED
      BY <3>1, <3>2
  <2>3. ProcOK' /\ TokensHaveCodes'
    BY <1>0, <2>2 DEF TokensHaveCodes, At, Procs, Stages
  <2> QED
    BY <1>0, <1>a, <1>2, <2>3 DEF ServiceStarts
<1>3. ASSUME NEW c \in Codes, NEW force \in BOOLEAN, CliStarts(c, force)
      PROVE  EnrolTyped'
  <2>1. PICK r \in [at : {"checking", "asking"}, code : Codes \cup {NoCode},
                    found : Codes \cup {Empty}, force : BOOLEAN] :
          proc' = [proc EXCEPT !["cli"] = r]
    <3> DEFINE s == IF Holds(tokenFile) /\ ~force THEN "checking" ELSE "asking"
    <3>1. s \in {"checking", "asking"}
      OBVIOUS
    <3>2. proc' = [proc EXCEPT !["cli"] = [at |-> s, code |-> c, found |-> tokenFile,
                                           force |-> force]]
      BY <1>3 DEF CliStarts
    <3> HIDE DEF s
    <3> QED
      BY <1>0, <3>1, <3>2
  <2>2. ProcOK' /\ TokensHaveCodes'
    BY <1>0, <2>1 DEF TokensHaveCodes, At, Procs, Stages
  <2> QED
    BY <1>0, <1>a, <1>3, <2>2 DEF CliStarts
<1>4. CASE Checks
  <2>1. ProcOK' /\ TokensHaveCodes'
    BY <1>4, MovedProcess, EndedProcess DEF Checks, Procs, Stages
  <2> QED
    BY <1>0, <1>a, <1>4, <2>1 DEF Checks
<1>5. CASE ServiceEnds \/ Wipes \/ Removed
  <2>1. ProcOK' /\ TokensHaveCodes'
    BY <1>5, MovedProcess, EndedProcess DEF ServiceEnds, Wipes, Removed, Procs, Stages
  <2> QED
    BY <1>0, <1>a, <1>5, <2>1 DEF ServiceEnds, Wipes, Removed
<1>6. ASSUME NEW p \in Procs, ProcSteps(p)
      PROVE  EnrolTyped'
  <2>1. CASE Enrols(p)
    <3>1. proc[p].code \in Codes
      BY <1>0, <2>1 DEF Enrols
    <3>2. ProcOK' /\ TokensHaveCodes'
      BY <2>1, <3>1, MovedProcess DEF Enrols, Stages
    <3> QED
      BY <1>0, <1>a, <2>1, <3>1, <3>2 DEF Enrols
  <2>2. CASE AnswerLost(p) \/ EnrolFails(p) \/ Dies(p)
    <3>1. ProcOK' /\ TokensHaveCodes'
      BY <2>2, EndedProcess DEF AnswerLost, EnrolFails, Dies
    <3> QED
      BY <1>0, <1>a, <2>2, <3>1 DEF AnswerLost, EnrolFails, Dies
  <2>3. CASE OpensToken(p)
    <3>1. proc[p].code \in Codes
      BY <2>3 DEF OpensToken, EnrolTyped, TokensHaveCodes
    <3>2. ProcOK' /\ TokensHaveCodes'
      BY <2>3, <3>1, MovedProcess DEF OpensToken, Stages
    <3> QED
      BY <1>0, <1>a, <2>3, <3>2 DEF OpensToken
  <2>4. CASE WritesToken(p)
    <3>1. proc[p].code \in Codes
      BY <2>4 DEF WritesToken, EnrolTyped, TokensHaveCodes
    <3>2. ProcOK' /\ TokensHaveCodes'
      BY <2>4, MovedProcess, EndedProcess DEF WritesToken, Stages
    <3> QED
      BY <1>0, <1>a, <2>4, <3>1, <3>2 DEF WritesToken
  <2>5. CASE ConfigLeft(p) \/ OpensConfig(p) \/ WritesConfig(p)
    <3>1. ProcOK' /\ TokensHaveCodes'
      <4>1. \/ Ends(p)
            \/ \E s \in {"keeping", "drop", "dropping", "running"} : Goes(p, s)
        BY <2>5 DEF ConfigLeft, OpensConfig, WritesConfig, Onward
      <4> QED
        BY <4>1, MovedProcess, EndedProcess DEF Stages
    <3>2. conf' \in [code : Codes \cup {NoCode}, whole : BOOLEAN]
      <4>1. CASE ConfigLeft(p) \/ OpensConfig(p)
        BY <1>0, <4>1 DEF ConfigLeft, OpensConfig
      <4>2. CASE WritesConfig(p)
        <5>1. PICK c \in Codes \cup {NoCode} : conf' = [code |-> c, whole |-> TRUE]
          BY <1>0, <4>2 DEF WritesConfig
        <5> QED
          BY <5>1
      <4> QED
        BY <2>5, <4>1, <4>2
    <3> QED
      BY <1>0, <1>a, <2>5, <3>1, <3>2 DEF ConfigLeft, OpensConfig, WritesConfig
  <2> QED
    BY <1>6, <2>1, <2>2, <2>3, <2>4, <2>5 DEF ProcSteps
<1> QED
  BY <1>1, <1>2, <1>3, <1>4, <1>5, <1>6 DEF EnrolNext

(* The token is being stored, the config file is being written.            *)
Storing(p) == proc[p].at \in {"got", "saving"}
Writing(p) == proc[p].at \in {"keeping", "dropping"}

(* Where nothing went wrong: a code was spent for a token that is on disk   *)
(* or on its way there, and a torn config file is about to be made whole.  *)
SpentInv ==
  troubles \subseteq {"revoked"} =>
    /\ unused # Codes => Holds(tokenFile) \/ \E p \in Procs : Storing(p)
    /\ conf.whole \/ \E p \in Procs : Writing(p)

(* Every step keeps the invariant of the spent codes.                       *)
LEMMA SpentStep ==
  ASSUME EnrollmentAssumption, EnrolTyped, SpentInv, [EnrolNext]_enrolVars
  PROVE  SpentInv'
<1> SUFFICES ASSUME troubles' \subseteq {"revoked"}
             PROVE  SpentInv'
  BY DEF SpentInv
<1>0. troubles \subseteq {"revoked"}
  BY DEF EnrolNext, ProcSteps, Installed, ServiceStarts, ServiceEnds, Wipes, Removed,
         Revoked, Checks, CliStarts, Enrols, AnswerLost, EnrolFails, OpensToken,
         WritesToken, ConfigLeft, OpensConfig, WritesConfig, Dies, enrolVars
<1>1. proc \in [Procs -> [at : Stages, code : Codes \cup {NoCode},
                          found : Codes \cup {Empty}, force : BOOLEAN]]
  BY DEF EnrolTyped, EnrolTypeOK, Stages
<1>2. ASSUME UNCHANGED <<tokenFile, conf, unused>>,
             \A p \in Procs : Storing(p) => Storing(p)',
             \A p \in Procs : Writing(p) => Writing(p)'
      PROVE  SpentInv'
  BY <1>0, <1>2 DEF SpentInv
<1>3. CASE Installed \/ Revoked \/ UNCHANGED enrolVars
  BY <1>2, <1>3 DEF Installed, Revoked, enrolVars, Storing, Writing
<1>4. CASE ServiceStarts \/ ServiceEnds \/ Removed
  <2>1. PICK r : proc' = [proc EXCEPT !["service"] = r]
    BY <1>4 DEF ServiceStarts, ServiceEnds, Removed, Ends
  <2>2. proc["service"].at \in {"idle", "running", "leaving"}
    BY <1>4 DEF ServiceStarts, ServiceEnds, Removed, At
  <2>3. \A p \in Procs : Storing(p) \/ Writing(p) => proc'[p] = proc[p]
    BY <1>1, <2>1, <2>2 DEF Storing, Writing
  <2> QED
    BY <1>2, <1>4, <2>3 DEF ServiceStarts, ServiceEnds, Removed, Storing, Writing
<1>5. CASE Checks \/ \E c \in Codes, force \in BOOLEAN : CliStarts(c, force)
  <2>1. PICK r : proc' = [proc EXCEPT !["cli"] = r]
    BY <1>5 DEF Checks, CliStarts, Ends, Goes
  <2>2. proc["cli"].at \in {"idle", "checking"}
    BY <1>5 DEF Checks, CliStarts, At
  <2>3. \A p \in Procs : Storing(p) \/ Writing(p) => proc'[p] = proc[p]
    BY <1>1, <2>1, <2>2 DEF Storing, Writing
  <2> QED
    BY <1>2, <1>5, <2>3 DEF Checks, CliStarts, Storing, Writing
<1>6. CASE Wipes
  BY <1>6 DEF Wipes
<1>7. ASSUME NEW p \in Procs, ProcSteps(p)
      PROVE  SpentInv'
  <2>1. CASE Enrols(p)
    <3>1. Goes(p, "got") /\ At(p, "asking") /\ UNCHANGED <<tokenFile, conf>>
      BY <2>1 DEF Enrols
    <3>2. Storing(p)' /\ \A q \in Procs : Writing(q) => Writing(q)'
      BY <1>1, <3>1 DEF Goes, At, Storing, Writing
    <3> QED
      BY <1>0, <3>1, <3>2 DEF SpentInv
  <2>2. CASE AnswerLost(p) \/ Dies(p)
    BY <2>2 DEF AnswerLost, Dies
  <2>3. CASE EnrolFails(p)
    <3>1. \A q \in Procs : Storing(q) \/ Writing(q) => proc'[q] = proc[q]
      BY <1>1, <2>3 DEF EnrolFails, Ends, At, Storing, Writing
    <3> QED
      BY <1>2, <2>3, <3>1 DEF EnrolFails, Storing, Writing
  <2>4. CASE OpensToken(p)
    <3>1. Storing(p)' /\ \A q \in Procs : Writing(q) => Writing(q)'
      BY <1>1, <2>4 DEF OpensToken, Goes, At, Storing, Writing
    <3> QED
      BY <1>0, <2>4, <3>1 DEF OpensToken, SpentInv
  <2>5. CASE WritesToken(p)
    <3>1. /\ tokenFile' = proc[p].code
          /\ Goes(p, IF p = "cli" THEN "keep" ELSE "drop")
      BY <2>5 DEF WritesToken
    <3>2. Holds(tokenFile')
      BY <2>5, <3>1 DEF WritesToken, EnrolTyped, TokensHaveCodes, EnrollmentAssumption, Holds
    <3>3. \A q \in Procs : Writing(q) => Writing(q)'
      BY <1>1, <2>5, <3>1 DEF WritesToken, Goes, At, Writing
    <3> QED
      BY <1>0, <2>5, <3>2, <3>3 DEF WritesToken, SpentInv
  <2>6. CASE ConfigLeft(p)
    <3>1. \A q \in Procs : Storing(q) \/ Writing(q) => proc'[q] = proc[q]
      BY <1>1, <2>6 DEF ConfigLeft, Onward, Goes, Ends, At, Storing, Writing
    <3> QED
      BY <1>2, <2>6, <3>1 DEF ConfigLeft, Storing, Writing
  <2>7. CASE OpensConfig(p)
    <3>1. \A q \in Procs : Storing(q) \/ Writing(q) => proc'[q] = proc[q]
      BY <1>1, <2>7 DEF OpensConfig, Goes, Ends, At, Storing, Writing
    <3>2. CASE conf' = conf
      BY <1>2, <2>7, <3>1, <3>2 DEF OpensConfig, Storing, Writing
    <3>3. CASE Goes(p, IF At(p, "keep") THEN "keeping" ELSE "dropping")
      <4>1. Writing(p)'
        BY <1>1, <3>3 DEF Goes, Writing
      <4> QED
        BY <1>0, <2>7, <3>1, <4>1 DEF OpensConfig, SpentInv, Storing
    <3> QED
      BY <2>7, <3>2, <3>3 DEF OpensConfig
  <2>8. CASE WritesConfig(p)
    <3>1. conf'.whole /\ UNCHANGED <<tokenFile, unused>>
      BY <2>8 DEF WritesConfig
    <3>2. \A q \in Procs : Storing(q) => proc'[q] = proc[q]
      BY <1>1, <2>8 DEF WritesConfig, Onward, Goes, Ends, Storing
    <3> QED
      BY <1>0, <3>1, <3>2 DEF SpentInv, Storing
  <2> QED
    BY <1>7, <2>1, <2>2, <2>3, <2>4, <2>5, <2>6, <2>7, <2>8 DEF ProcSteps
<1> QED
  BY <1>3, <1>4, <1>5, <1>6, <1>7 DEF EnrolNext

(* A code is never spent for nothing: unless an answer was lost, a disk     *)
(* refused, a process died while it stored the token or a delete was asked  *)
(* for, whatever the service and the command do side by side, a token and a *)
(* config file that can be read are there as soon as neither is storing     *)
(* (src/bootstrap.js, src/cli.js, src/tokenStore.js).                       *)
THEOREM SpentCodesAreKept == EnrolSpec => []SpentIsKept
<1> DEFINE Inv == EnrolTyped /\ SpentInv
<1>1. EnrolInit => Inv
  <2>1. EnrolInit => SpentInv
    BY DEF EnrolInit, SpentInv
  <2> QED
    BY <2>1, EnrolTypesInit, EnrollmentAssumption
<1>2. Inv /\ [EnrolNext]_enrolVars => Inv'
  BY EnrolTypesStep, SpentStep, EnrollmentAssumption
<1>3. Inv => SpentIsKept
  BY DEF SpentIsKept, SpentInv, EnrolTyped, Occupied, Storing, Writing
<1> QED
  BY <1>1, <1>2, <1>3, PTL DEF EnrolSpec

-----------------------------------------------------------------------------
(* REST calls.                                                             *)

(* Before the first URL is probed nothing is asked.                        *)
ProbeIsFirst == fetch = "none" => told = {} /\ \A c \in Calls : rest[c].at = "none"

(* A connection is judged before anything is sent on it, and the token goes *)
(* out once.                                                               *)
JudgedFirst ==
  \A c \in Calls :
    /\ c \in told => rest[c].at \in {"sent", "answering", "mute", "over"}
    /\ c \in told \/ rest[c].at = "secured" => Accepts(c)

(* Who waits for its turn is in the chain, and whose turn it is is first.  *)
ChainKept ==
  /\ \A c \in Calls : rest[c].at = "queued" =>
       c \in Reads /\ \E k \in 1..Len(chain) : chain[k] = c
  /\ \A c \in Reads : Underway(c) => chain # <<>> /\ Head(chain) = c

(* The strengthening of NothingToStranger.                                  *)
RestInv == RestTypeOK /\ ProbeIsFirst /\ JudgedFirst /\ ChainKept

(* The states of a connection, and the connections.                         *)
ConnectionStates == {"none", "queued", "dial", "secured", "sent", "answering", "mute", "over"}
Connections == [at : ConnectionStates, over : {"none", "http", "https"}, peer : {"ours", "other"},
                status : {"none", "ok", "rejected", "failed"}]

(* A step that changes one call's connection and leaves the chain alone.   *)
LEMMA OneConnection ==
  ASSUME RestAssumption, RestInv, NEW c \in Calls, NEW r \in Connections,
         fetch # "none", rest' = [rest EXCEPT ![c] = r],
         UNCHANGED <<urls, fetch, active, chain>>,
         told' = told \/ (told' = told \cup {c} /\ r.at = "sent" /\ Accepts(c)),
         r.at # "queued", c \in told => r.at \in {"answering", "mute", "over"},
         c \in told \/ r.at \in {"secured", "sent"}
           => r.over = rest[c].over /\ r.peer = rest[c].peer,
         r.at = "secured" => Accepts(c),
         c \in Reads /\ r.at \in {"dial", "secured", "sent", "answering"}
           => chain # <<>> /\ Head(chain) = c
  PROVE  RestInv'
<1>0. rest \in [Calls -> Connections]
  BY DEF RestInv, RestTypeOK, Connections, ConnectionStates
<1>1. rest' \in [Calls -> Connections] /\ rest'[c] = r
      /\ \A d \in Calls \ {c} : rest'[d] = rest[d]
  BY <1>0
<1>2. RestTypeOK'
  <2>1. told' \subseteq Calls
    BY DEF RestInv, RestTypeOK
  <2> QED
    BY <1>1, <2>1 DEF RestInv, RestTypeOK, Connections, ConnectionStates
<1>3. ProbeIsFirst'
  BY DEF ProbeIsFirst
<1>4. ASSUME NEW d \in Calls
      PROVE  /\ d \in told' => rest'[d].at \in {"sent", "answering", "mute", "over"}
             /\ d \in told' \/ rest'[d].at = "secured" => Accepts(d)'
  <2>1. CASE d = c
    BY <1>1, <2>1 DEF RestInv, JudgedFirst, Accepts
  <2>2. CASE d # c
    BY <1>1, <2>2 DEF RestInv, JudgedFirst, Accepts
  <2> QED
    BY <2>1, <2>2
<1>5. ChainKept'
  BY <1>1 DEF RestInv, ChainKept, Underway
<1> QED
  BY <1>2, <1>3, <1>4, <1>5 DEF RestInv, JudgedFirst

(* The promise of a call settles; the next read gets its turn.             *)
LEMMA SettledCall ==
  ASSUME RestAssumption, RestInv, NEW c \in Calls, Underway(c),
         NEW s \in {"none", "ok", "rejected", "failed"}, Settles(c, s),
         UNCHANGED <<urls, fetch, active, told>>
  PROVE  RestInv'
<1>0. rest \in [Calls -> Connections]
  BY DEF RestInv, RestTypeOK, Connections, ConnectionStates
<1>1. /\ rest' \in [Calls -> Connections]
      /\ rest'[c].at = "over" /\ rest'[c].over = rest[c].over /\ rest'[c].peer = rest[c].peer
      /\ \A d \in Calls \ {c} : rest'[d] = rest[d]
  BY <1>0 DEF Settles, Connections, ConnectionStates
<1>2. fetch # "none"
  BY DEF RestInv, ProbeIsFirst, Underway
<1>3. chain \in Seq(Reads)
  BY DEF RestInv, RestTypeOK
<1>4. c \in Reads => chain # <<>> /\ Head(chain) = c
  BY DEF RestInv, ChainKept
<1>5. chain' \in Seq(Reads)
  BY <1>3, <1>4 DEF Settles
<1>6. RestTypeOK'
  BY <1>1, <1>5 DEF RestInv, RestTypeOK, Connections, ConnectionStates
<1>7. ProbeIsFirst'
  BY <1>2 DEF ProbeIsFirst
<1>8. ASSUME NEW d \in Calls
      PROVE  /\ d \in told' => rest'[d].at \in {"sent", "answering", "mute", "over"}
             /\ d \in told' \/ rest'[d].at = "secured" => Accepts(d)'
  <2>1. CASE d = c
    BY <1>1, <2>1 DEF RestInv, JudgedFirst, Accepts
  <2>2. CASE d # c
    BY <1>1, <2>2 DEF RestInv, JudgedFirst, Accepts
  <2> QED
    BY <2>1, <2>2
<1>9. ChainKept'
  <2>1. CASE c \notin Reads
    <3>1. chain' = chain
      BY <2>1 DEF Settles
    <3> QED
      BY <1>1, <2>1, <3>1 DEF RestInv, ChainKept, Underway
  <2>2. CASE c \in Reads
    <3>1. chain' = Tail(chain) /\ chain # <<>> /\ chain[1] = c
      BY <1>3, <1>4, <2>2 DEF Settles
    <3>2. ASSUME NEW d \in Calls, rest'[d].at = "queued"
          PROVE  d \in Reads /\ \E k \in 1..Len(chain') : chain'[k] = d
      <4>1. d # c /\ rest[d].at = "queued"
        BY <1>1, <3>2
      <4>2. d \in Reads /\ \E k \in 1..Len(chain) : chain[k] = d
        BY <4>1 DEF RestInv, ChainKept
      <4>3. PICK k \in 1..Len(chain) : chain[k] = d
        BY <4>2
      <4>4. k # 1
        BY <3>1, <4>1, <4>3
      <4>5. k - 1 \in 1..Len(chain') /\ chain'[k - 1] = d
        BY <1>3, <3>1, <4>3, <4>4
      <4> QED
        BY <4>2, <4>5
    <3>3. ASSUME NEW d \in Reads, Underway(d)'
          PROVE  FALSE
      <4>1. d \in Calls /\ d # c
        BY <1>1, <3>3 DEF Underway, RestAssumption
      <4>2. Underway(d)
        BY <1>1, <3>3, <4>1 DEF Underway
      <4>3. Head(chain) = d
        BY <4>2 DEF RestInv, ChainKept
      <4> QED
        BY <1>4, <2>2, <4>1, <4>3
    <3> QED
      BY <3>2, <3>3 DEF ChainKept
  <2> QED
    BY <2>1, <2>2
<1> QED
  BY <1>6, <1>7, <1>8, <1>9 DEF RestInv, JudgedFirst

(* A call that dials keeps the invariant.                                   *)
LEMMA DialledConnection ==
  ASSUME RestAssumption, RestInv, NEW c \in Calls, Dialling(c), fetch # "none",
         rest[c].at \in {"none", "queued"},
         c \in Reads => chain # <<>> /\ Head(chain) = c,
         UNCHANGED <<urls, fetch, active, chain, told>>
  PROVE  RestInv'
<1>1. PICK p \in {"ours", "other"} :
        rest' = [rest EXCEPT ![c] = [at |-> "dial", over |-> urls[active], peer |-> p,
                                     status |-> "none"]]
  BY DEF Dialling
<1> DEFINE r == [at |-> "dial", over |-> urls[active], peer |-> p, status |-> "none"]
<1>2. urls[active] \in {"http", "https"}
  BY DEF RestInv, RestTypeOK
<1>3. r \in Connections /\ r.at = "dial"
  BY <1>2 DEF Connections, ConnectionStates
<1>4. c \notin told
  BY DEF RestInv, JudgedFirst
<1> HIDE DEF r
<1> QED
  BY <1>1, <1>3, <1>4, OneConnection DEF r

(* A connection that goes on to its next stage.                            *)
LEMMA MovedConnection ==
  ASSUME RestAssumption, RestInv, NEW c \in Calls, Underway(c),
         NEW s \in {"secured", "sent", "answering", "mute"},
         NEW t \in {"none", "ok", "rejected", "failed"},
         \/ rest' = [rest EXCEPT ![c].at = s, ![c].status = t]
         \/ rest' = [rest EXCEPT ![c].at = s] /\ t = rest[c].status,
         UNCHANGED <<urls, fetch, active, chain>>,
         told' = told \/ (told' = told \cup {c} /\ s = "sent" /\ Accepts(c)),
         c \in told => s \in {"answering", "mute"},
         s = "secured" => Accepts(c)
  PROVE  RestInv'
<1> DEFINE r == [rest[c] EXCEPT !.at = s, !.status = t]
<1>1. /\ r \in Connections /\ r.at = s
      /\ r.over = rest[c].over /\ r.peer = rest[c].peer
      /\ rest' = [rest EXCEPT ![c] = r]
  <2>1. s \in ConnectionStates
    BY DEF ConnectionStates
  <2>2. /\ r \in Connections /\ r.at = s
        /\ r.over = rest[c].over /\ r.peer = rest[c].peer
        /\ [rest EXCEPT ![c].at = s, ![c].status = t] = [rest EXCEPT ![c] = r]
        /\ rest[c].status = t => [rest EXCEPT ![c].at = s] = [rest EXCEPT ![c] = r]
    <3>1. rest \in [Calls -> Connections] /\ rest[c] \in Connections
      BY DEF RestInv, RestTypeOK, Connections, ConnectionStates
    <3> QED
      BY <2>1, <3>1 DEF Connections
  <2> HIDE DEF r
  <2>3. CASE rest' = [rest EXCEPT ![c].at = s, ![c].status = t]
    BY <2>2, <2>3
  <2>4. CASE rest' = [rest EXCEPT ![c].at = s] /\ t = rest[c].status
    BY <2>2, <2>4
  <2> QED
    BY <2>2, <2>3, <2>4
<1>2. fetch # "none"
  BY DEF RestInv, ProbeIsFirst, Underway
<1>3. c \in Reads => chain # <<>> /\ Head(chain) = c
  BY DEF RestInv, ChainKept
<1> HIDE DEF r
<1>4. /\ told' = told \/ (told' = told \cup {c} /\ r.at = "sent" /\ Accepts(c))
      /\ r.at # "queued"
      /\ c \in told => r.at \in {"answering", "mute", "over"}
      /\ r.at = "secured" => Accepts(c)
  BY <1>1
<1> QED
  BY <1>1, <1>2, <1>3, <1>4, OneConnection

(* It holds at first.                                                       *)
LEMMA RestInvInit ==
  ASSUME RestAssumption, RestInit
  PROVE  RestInv
<1>1. rest \in [Calls -> Connections]
  BY DEF RestInit, NoConnection, Connections, ConnectionStates, RestAssumption
<1> QED
  BY <1>1 DEF RestInit, RestInv, RestTypeOK, ProbeIsFirst, JudgedFirst, ChainKept,
              Underway, RestAssumption, NoConnection, Connections,
              ConnectionStates

(* Every step keeps it.                                                     *)
LEMMA RestStep ==
  ASSUME RestAssumption, RestInv, [RestNext]_restVars
  PROVE  RestInv'
<1>0. rest \in [Calls -> Connections] /\ chain \in Seq(Reads)
  BY DEF RestInv, RestTypeOK, Connections, ConnectionStates
<1>1. CASE Probed
  <2>1. /\ UNCHANGED <<active, rest, chain, told>> /\ fetch' \in {"plain", "pinned"}
        /\ told = {} /\ \A c \in Calls : rest[c].at = "none"
    BY <1>1 DEF Probed, RestInv, ProbeIsFirst
  <2>2. PICK s \in {urls[1], "https"} : urls' = [urls EXCEPT ![1] = s]
    BY <1>1 DEF Probed
  <2>3. urls[1] \in {"http", "https"}
    BY DEF RestInv, RestTypeOK
  <2>4. urls' \in Seq({"http", "https"}) /\ DOMAIN urls' = DOMAIN urls
    BY <2>2, <2>3 DEF RestInv, RestTypeOK
  <2> QED
    BY <2>1, <2>4 DEF RestInv, RestTypeOK, ProbeIsFirst, JudgedFirst, ChainKept, Underway
<1>2. CASE Moves \/ UNCHANGED restVars
  BY <1>2 DEF Moves, restVars, RestInv, RestTypeOK, ProbeIsFirst, JudgedFirst, Accepts,
              ChainKept, Underway
<1>17. CASE Adopts
  <2>1. urls' \in Seq({"http", "https"}) /\ DOMAIN urls' = DOMAIN urls
    BY <1>17 DEF Adopts, RestInv, RestTypeOK
  <2> QED
    BY <1>17, <2>1 DEF Adopts, RestInv, RestTypeOK, ProbeIsFirst, JudgedFirst, Accepts,
                       ChainKept, Underway
<1>3. ASSUME NEW c \in Calls, Calling(c)
      PROVE  RestInv'
  BY <1>3, DialledConnection DEF Calling
<1>4. ASSUME NEW c \in Calls, AsksForConfig(c)
      PROVE  RestInv'
  <2>1. /\ rest' \in [Calls -> Connections]
        /\ rest'[c].at = "queued" /\ rest'[c].over = rest[c].over
        /\ rest'[c].peer = rest[c].peer
        /\ \A d \in Calls \ {c} : rest'[d] = rest[d]
    BY <1>0, <1>4 DEF AsksForConfig, Connections, ConnectionStates
  <2>2. /\ chain' = Append(chain, c) /\ c \in Reads /\ fetch # "none"
        /\ rest[c].at = "none" /\ UNCHANGED <<urls, fetch, active, told>>
    BY <1>4 DEF AsksForConfig
  <2>3. /\ chain' \in Seq(Reads) /\ Len(chain') = Len(chain) + 1
        /\ chain'[Len(chain')] = c
        /\ \A k \in 1..Len(chain) : chain'[k] = chain[k]
    BY <1>0, <2>2
  <2>4. RestTypeOK' /\ ProbeIsFirst'
    BY <2>1, <2>2, <2>3
       DEF RestInv, RestTypeOK, ProbeIsFirst, Connections, ConnectionStates
  <2>5. c \notin told
    BY <2>2 DEF RestInv, JudgedFirst
  <2>6. ASSUME NEW d \in Calls
        PROVE  /\ d \in told' => rest'[d].at \in {"sent", "answering", "mute", "over"}
               /\ d \in told' \/ rest'[d].at = "secured" => Accepts(d)'
    <3>1. CASE d = c
      BY <2>1, <2>2, <2>5, <3>1
    <3>2. CASE d # c
      BY <2>1, <2>2, <3>2 DEF RestInv, JudgedFirst, Accepts
    <3> QED
      BY <3>1, <3>2
  <2>7. ASSUME NEW d \in Calls, rest'[d].at = "queued"
        PROVE  d \in Reads /\ \E k \in 1..Len(chain') : chain'[k] = d
    <3>1. CASE d = c
      BY <1>0, <2>2, <2>3, <3>1
    <3>2. CASE d # c
      <4>1. d \in Reads /\ \E k \in 1..Len(chain) : chain[k] = d
        BY <2>1, <2>7, <3>2 DEF RestInv, ChainKept
      <4> QED
        BY <1>0, <2>3, <4>1
    <3> QED
      BY <3>1, <3>2
  <2>8. ASSUME NEW d \in Reads, Underway(d)'
        PROVE  chain' # <<>> /\ Head(chain') = d
    <3>1. d # c /\ d \in Calls
      BY <2>1, <2>8 DEF Underway, RestAssumption
    <3>2. chain # <<>> /\ Head(chain) = d
      BY <2>1, <2>8, <3>1 DEF RestInv, ChainKept, Underway
    <3> QED
      BY <1>0, <2>3, <3>2
  <2> QED
    BY <2>4, <2>6, <2>7, <2>8 DEF RestInv, JudgedFirst, ChainKept
<1>5. ASSUME NEW c \in Calls, TurnComes(c)
      PROVE  RestInv'
  <2>1. chain # <<>>
    BY <1>0, <1>5 DEF TurnComes, RestInv, ChainKept
  <2>2. fetch # "none"
    BY <1>5 DEF TurnComes, RestInv, ProbeIsFirst
  <2> QED
    BY <1>5, <2>1, <2>2, DialledConnection DEF TurnComes
<1>8. ASSUME NEW c \in Calls
      PROVE  rest[c].status \in {"none", "ok", "rejected", "failed"}
  BY <1>0 DEF Connections
<1>9. ASSUME NEW c \in Calls, Connects(c)
      PROVE  RestInv'
  <2>1. Underway(c) /\ c \notin told /\ UNCHANGED <<urls, fetch, active, told>>
    BY <1>9 DEF Connects, Underway, RestInv, JudgedFirst
  <2>2. CASE Accepts(c) /\ Onto(c, "secured")
    BY <1>8, <2>1, <2>2, MovedConnection DEF Onto
  <2>3. CASE Settles(c, "failed")
    BY <2>1, <2>3, SettledCall
  <2> QED
    BY <1>9, <2>2, <2>3 DEF Connects
<1>10. ASSUME NEW c \in Calls, Flushes(c)
       PROVE  RestInv'
  <2>1. /\ Underway(c) /\ c \notin told /\ Accepts(c) /\ Onto(c, "sent")
        /\ told' = told \cup {c} /\ UNCHANGED <<urls, fetch, active>>
    BY <1>10 DEF Flushes, Underway, RestInv, JudgedFirst
  <2> QED
    BY <1>8, <2>1, MovedConnection DEF Onto
<1>11. ASSUME NEW c \in Calls, AnswerBegins(c)
       PROVE  RestInv'
  <2>1. Underway(c) /\ UNCHANGED <<urls, fetch, active, chain, told>>
    BY <1>11 DEF AnswerBegins, Underway
  <2>2. PICK t \in {"ok", "rejected", "failed"} :
          rest' = [rest EXCEPT ![c].at = "answering", ![c].status = t]
    BY <1>11 DEF AnswerBegins
  <2> QED
    BY <2>1, <2>2, MovedConnection
<1>12. ASSUME NEW c \in Calls, AnswerEnds(c) \/ Breaks(c)
       PROVE  RestInv'
  <2>1. rest[c].status \in {"none", "ok", "rejected", "failed"}
    BY <1>0 DEF Connections
  <2>2. /\ Underway(c) /\ UNCHANGED <<urls, fetch, active, told>>
        /\ Settles(c, rest[c].status) \/ Settles(c, "failed")
    BY <1>12 DEF AnswerEnds, Breaks, Underway
  <2> QED
    BY <2>1, <2>2, SettledCall
<1>13. ASSUME NEW c \in Calls, CutShort(c)
       PROVE  RestInv'
  <2>1. Underway(c) /\ UNCHANGED <<urls, fetch, active, told>>
    BY <1>13 DEF CutShort, Underway
  <2>2. CASE Onto(c, "mute")
    BY <1>8, <2>1, <2>2, MovedConnection DEF Onto
  <2>3. CASE Settles(c, "failed")
    BY <2>1, <2>3, SettledCall
  <2> QED
    BY <1>13, <2>2, <2>3 DEF CutShort
<1> QED
  BY <1>1, <1>2, <1>3, <1>4, <1>5, <1>9, <1>10, <1>11, <1>12, <1>13, <1>17 DEF RestNext, CallStep

(* An agent that has a pin and, when its runtime is made, an https URL sends *)
(* its token over https to the server and to nobody else, on whichever of   *)
(* its URLs, however many http ones the channel rewrites under the calls in  *)
(* progress; and the reads of the configuration follow one another          *)
(* (src/httpsClient.js, src/apiClient.js, adoptUrl of src/agentClient.js,   *)
(* the configuration chain of src/runtime.js).  Where every URL was http    *)
(* it says nothing: see PinsCover.                                          *)
THEOREM TokenGoesToOurs == RestSpec => []NothingToStranger
<1>1. RestInit => RestInv
  BY RestInvInit, RestAssumption
<1>2. RestInv /\ [RestNext]_restVars => RestInv'
  BY RestStep, RestAssumption
<1>3. RestInv => NothingToStranger
  <2> SUFFICES ASSUME RestInv
               PROVE  NothingToStranger
    OBVIOUS
  <2>1. \A c \in told : c \in Calls /\ Accepts(c)
    BY DEF RestInv, RestTypeOK, JudgedFirst
  <2>2. \A c, d \in Reads : Underway(c) /\ Underway(d) => c = d
    BY DEF RestInv, ChainKept
  <2> QED
    BY <2>1, <2>2 DEF RestInv, NothingToStranger, OursOverHttps, Accepts
<1> QED
  BY <1>1, <1>2, <1>3, PTL DEF RestSpec
=============================================================================
