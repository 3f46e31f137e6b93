----------------------------- MODULE TrustAnchor -----------------------------
(***************************************************************************)
(* What an agent believes about its server: the pinned release key and the *)
(* optional command key, the record of what the vendor authorised, the     *)
(* latch "this server signs its commands" and the guard that remembers     *)
(* which signed commands were carried out (src/commandAuth.js,             *)
(* src/release/keyStore.js, src/license/trustProof.js, and authorizeCommand *)
(* and handleRekey of src/runtime.js).                                     *)
(*                                                                         *)
(* Four files outlive the process.  A handler writes them one after the    *)
(* other without awaiting, so only the end of the process can come between *)
(* two of them: `job` is the handler and `job.step` its next write.        *)
(*                                                                         *)
(* A command is a member of Commands and may arrive at any time and any    *)
(* number of times: the transport may repeat or delay it.  Cryptography is *)
(* abstract: a command has the key that signed it, a proof is genuine or   *)
(* not.  Not modelled: the wording of replies, the action log, what an     *)
(* accepted command goes on to do.                                         *)
(***************************************************************************)
EXTENDS Integers, FiniteSets

CONSTANTS
  Keys, NoKey,     (* usable Ed25519 public keys; none pinned, or no signature *)
  BakedKey,        (* what the installer put in the environment, or NoKey    *)
  Licences, NoLicence,
  AuthIds, NoId,       (* commandIds: the server gives each to one command       *)
  Commands,        (* the commands the server may ever have sent             *)
  NoCommand,
  Override,        (* BLUEEYE_REQUIRE_SIGNED_COMMANDS: "on", "off", "unset"  *)
  AllowUnsigned,   (* BLUEEYE_ALLOW_UNSIGNED_REKEY                           *)
  Managed,         (* the host has a systemd unit to keep in step            *)
  Skew,            (* MAX_SKEW_MS                                            *)
  Mishaps,         (* what may go wrong: "crash", "disk"                     *)
  MaxTime,         (* bound: the clock stops here                            *)
  MaxCarried       (* bound: a command let through so often comes no more    *)

Usable == Keys \cup {NoKey}
NoSeq  == -1       (* no sequence accepted yet                               *)
None   == -1       (* no expiresAt                                           *)

(* proper: the signed payload has purpose 'command', names this agent and   *)
(* carries readable dates.  A rekey has the key it offers (NoKey: not a     *)
(* usable one), its keyPurpose, and the vendor's proof if it carries one:   *)
(* genuine means that every check of verifyTrustProof passes which does not *)
(* depend on what this agent has accepted before.                           *)
Proofs == [sequence : Nat, licence : Licences, genuine : BOOLEAN]
NoProof == [sequence |-> 0, licence |-> NoLicence, genuine |-> FALSE]
CommandShape ==
  [rekey : BOOLEAN, signer : Usable, proper : BOOLEAN, id : AuthIds \cup {NoId},
   issued : Nat, expires : Int, offer : Usable,
   purpose : {"release", "command"}, proof : Proofs \cup {NoProof}]

ASSUME TrustAssumption ==
  /\ NoKey \notin Keys /\ BakedKey \in Usable
  /\ NoLicence \notin Licences /\ NoId \notin AuthIds
  /\ Commands \subseteq CommandShape /\ NoCommand \notin Commands
  /\ \A c, d \in Commands : c.id = d.id /\ c.id # NoId => c = d
  /\ Override \in {"on", "off", "unset"}
  /\ AllowUnsigned \in BOOLEAN /\ Managed \in BOOLEAN
  /\ Skew \in Nat /\ MaxTime \in Nat /\ MaxCarried \in Nat
  /\ Mishaps \subseteq {"crash", "disk"}

VARIABLES
  (* on disk *)
  anchor,      (* release-key.pem and command-key.pem, by purpose            *)
  unitKey,     (* BLUEEYE_RELEASE_PUBLIC_KEY of the unit and its drop-in     *)
  trust,       (* release-trust.json                                         *)
  replayFile,  (* command-replay.json: <<id, expiry>>                        *)
  (* in memory *)
  up,
  pinned,      (* pinnedKey and pinnedCommandKey, by purpose                 *)
  strict,      (* strictCommands                                             *)
  seen, loaded,  (* the replay guard                                         *)
  job,         (* the handler between two writes                             *)
  (* the world *)
  now,
  (* history *)
  carried,     (* how often each signed commandId was let through            *)
  since,       (* the sequence that authorised the key pinned, by purpose    *)
  lapses       (* what has gone wrong so far                                 *)

disk   == <<anchor, unitKey, trust, replayFile>>
memory == <<pinned, strict, seen, loaded>>
trustHistory == <<carried, since, lapses>>
trustVars == <<disk, up, memory, job, now, trustHistory>>

Purposes == {"release", "command"}
NoTrust  == [sequence |-> NoSeq, licence |-> NoLicence, rooted |-> FALSE,
             signed |-> FALSE]
NoJob     == [cmd |-> NoCommand, vendor |-> FALSE, step |-> "none"]

TrustInit ==
  /\ anchor = [p \in Purposes |-> NoKey]
  /\ unitKey = BakedKey
  /\ trust = NoTrust
  /\ replayFile = {}
  /\ up = FALSE
  /\ pinned = [p \in Purposes |-> NoKey]
  /\ strict = FALSE /\ seen = {} /\ loaded = FALSE
  /\ job = NoJob
  /\ now = 0
  /\ carried = [i \in AuthIds |-> 0]
  /\ since = [p \in Purposes |-> NoSeq]
  /\ lapses = {}

-----------------------------------------------------------------------------
(* Starting up: what each file is read as.                                  *)

(* resolveReleasePublicKey: the pinned file, then the environment.  The     *)
(* command key has no such second source.                                   *)
BootKeys ==
  [anchor EXCEPT !["release"] = IF @ # NoKey THEN @ ELSE unitKey]

(* requireSignedCommands                                                    *)
BootStrict == Override = "on" \/ (Override = "unset" /\ trust.signed)

TrustBoots ==
  /\ ~up
  /\ up' = TRUE
  /\ pinned' = BootKeys
  /\ strict' = BootStrict
  /\ UNCHANGED <<disk, seen, loaded, job, now, trustHistory>>

(* A write to the state directory may fail.                                 *)
WriteOutcomes == IF "disk" \in Mishaps THEN BOOLEAN ELSE {TRUE}

-----------------------------------------------------------------------------
(* The replay guard.                                                        *)

Live(ids, t) == {e \in ids : e[2] > t}

(* load and prune: read once, then drop what has expired.                   *)
Remembered == Live(IF loaded THEN seen ELSE replayFile, now)

Expiry(c) == c.issued + Skew

(* Mutant of the guard: nothing was ever loaded from the file.              *)
RemembersMemoryOnly(c) == c.id \notin {e[1] : e \in Live(seen, now)}

(* accept: TRUE the first time an id is seen.                               *)
Unseen(c) == c.id \notin {e[1] : e \in Remembered}

-----------------------------------------------------------------------------
(* verifyCommand.                                                           *)

CommandKey == IF pinned["command"] # NoKey THEN pinned["command"]
                                           ELSE pinned["release"]

Signed(c) == c.signer # NoKey

UnsignedAllowed(c) ==
  \/ c.rekey /\ AllowUnsigned
  \/ ~strict /\ ~(c.rekey /\ CommandKey # NoKey)

Fresh(c) ==
  /\ now - c.issued <= Skew /\ c.issued - now <= Skew
  /\ c.expires # None => now <= c.expires

(* All the checks before the replay guard is asked.                         *)
Genuine(c) ==
  /\ CommandKey # NoKey /\ c.signer = CommandKey
  /\ c.proper /\ Fresh(c) /\ c.id # NoId

Verified(c) == IF Signed(c) THEN Genuine(c) /\ Unseen(c) ELSE UnsignedAllowed(c)

(* What asking the guard does, whatever it answers: it is asked last.       *)
GuardAsked(c) ==
  IF ~Signed(c) \/ ~Genuine(c)
  THEN UNCHANGED <<seen, loaded, replayFile, carried, lapses>>
  ELSE /\ loaded' = TRUE
       /\ IF ~Unseen(c)
          THEN seen' = Remembered /\ UNCHANGED <<replayFile, carried, lapses>>
          ELSE /\ seen' = Remembered \cup {<<c.id, Expiry(c)>>}
               /\ carried' = [carried EXCEPT ![c.id] = @ + 1]
               /\ \E ok \in WriteOutcomes :
                    /\ replayFile' = IF ok THEN seen' ELSE replayFile
                    /\ lapses' = lapses
                         \cup (IF ok THEN {} ELSE {"forgot"})
                         \cup (IF now = Expiry(c) THEN {"boundary"} ELSE {})

(* The first signature that verified is latched before the command runs.    *)
AfterAuth(c) == IF Signed(c) /\ ~strict THEN "latch"
                ELSE IF c.rekey THEN "anchor" ELSE "none"

Refused == UNCHANGED <<anchor, unitKey, trust, pinned, strict, job, since>>

(* authorizeCommand, up to its first write after the guard.                 *)
Authorized(c) ==
  /\ GuardAsked(c)
  /\ IF Verified(c) /\ AfterAuth(c) # "none"
     THEN /\ job' = [cmd |-> c, vendor |-> FALSE, step |-> AfterAuth(c)]
          /\ UNCHANGED <<anchor, unitKey, trust, pinned, strict, since>>
     ELSE Refused

-----------------------------------------------------------------------------
(* handleRekey.                                                             *)

CarriesProof(c) == c.proof # NoProof

(* Mutant of ProofAccepted: an old authorisation is as good as a new one.   *)
ProofOfAnyAge(c) ==
  /\ c.proof.genuine /\ c.offer # NoKey
  /\ trust.licence \in {NoLicence, c.proof.licence}

(* verifyTrustProof, against what this host accepted before.                *)
ProofAccepted(c) ==
  /\ c.proof.genuine /\ c.offer # NoKey
  /\ trust.licence \in {NoLicence, c.proof.licence}
  /\ c.proof.sequence >= trust.sequence

(* What the trust state becomes when a vendor authorisation is recorded.    *)
RecordOf(c) == [sequence |-> c.proof.sequence, licence |-> c.proof.licence,
                rooted |-> TRUE, signed |-> trust.signed]

(* A command arrives: on the socket, or again from the poll, late or twice. *)
Arrives(c) ==
  /\ up /\ job = NoJob
  /\ c.id # NoId => carried[c.id] < MaxCarried
  /\ IF ~c.rekey THEN Authorized(c)
     ELSE IF CarriesProof(c)
     THEN IF ProofAccepted(c)
          THEN /\ job' = [cmd |-> c, vendor |-> TRUE, step |-> "anchor"]
               /\ UNCHANGED <<disk, memory, trustHistory>>
          ELSE UNCHANGED <<disk, memory, job, trustHistory>>
     ELSE IF trust.rooted
          THEN UNCHANGED <<disk, memory, job, trustHistory>>
          ELSE Authorized(c)
  /\ UNCHANGED <<up, now>>

Doing(step) == up /\ job.step = step

Then(step) == job' = IF step = "none" THEN NoJob ELSE [job EXCEPT !.step = step]

(* markCommandsSigned: memory follows the file, and only when this wrote it.*)
Latch ==
  /\ Doing("latch")
  /\ \E ok \in WriteOutcomes :
       IF ok /\ ~trust.signed
       THEN trust' = [trust EXCEPT !.signed = TRUE] /\ strict' = TRUE
       ELSE UNCHANGED <<trust, strict>>
  /\ Then(IF job.cmd.rekey THEN "anchor" ELSE "none")
  /\ UNCHANGED <<anchor, unitKey, replayFile, up, pinned, seen, loaded, now,
                 trustHistory>>

AfterAnchor == IF job.cmd.purpose = "release" THEN "unit"
               ELSE IF job.vendor THEN "record" ELSE "none"

(* validatePublicKey, the comparison with the key in use, writePinnedKey.   *)
PinsKey ==
  /\ Doing("anchor")
  /\ LET c == job.cmd
         p == c.purpose
     IN  IF c.offer = NoKey
         THEN Then("none") /\ UNCHANGED <<anchor, pinned, since>>
         ELSE IF pinned[p] = c.offer
         THEN /\ Then(IF job.vendor THEN "record" ELSE "none")
              /\ UNCHANGED <<anchor, pinned, since>>
         ELSE \E ok \in WriteOutcomes :
                IF ok
                THEN /\ anchor' = [anchor EXCEPT ![p] = c.offer]
                     /\ pinned' = [pinned EXCEPT ![p] = c.offer]
                     /\ since' = [since EXCEPT ![p] =
                                    IF job.vendor THEN c.proof.sequence ELSE NoSeq]
                     /\ Then(AfterAnchor)
                ELSE Then("none") /\ UNCHANGED <<anchor, pinned, since>>
  /\ UNCHANGED <<unitKey, trust, replayFile, up, strict, seen, loaded, now,
                 carried, lapses>>

(* syncSystemdDropIn: best effort, and only where there is a unit.          *)
SyncsUnit ==
  /\ Doing("unit")
  /\ \E ok \in WriteOutcomes :
       unitKey' = IF Managed /\ ok THEN job.cmd.offer ELSE unitKey
  /\ Then(IF job.vendor THEN "record" ELSE "none")
  /\ UNCHANGED <<anchor, trust, replayFile, up, memory, now, trustHistory>>

(* recordVendorTrust: a failure is not noticed.                             *)
Records ==
  /\ Doing("record")
  /\ \E ok \in WriteOutcomes :
       /\ trust' = IF ok THEN RecordOf(job.cmd) ELSE trust
       /\ lapses' = IF ok THEN lapses ELSE lapses \cup {"unrecorded"}
  /\ Then("none")
  /\ UNCHANGED <<anchor, unitKey, replayFile, up, memory, now, carried, since>>

-----------------------------------------------------------------------------
(* The process ends, perhaps in the middle of a handler.                    *)
TrustStops ==
  /\ up /\ "crash" \in Mishaps
  /\ up' = FALSE
  /\ pinned' = [p \in Purposes |-> NoKey]
  /\ strict' = FALSE /\ seen' = {} /\ loaded' = FALSE
  /\ job' = NoJob
  /\ lapses' = lapses \cup
       (IF job.vendor /\ job.step \in {"unit", "record"} THEN {"unrecorded"}
                                                         ELSE {})
  /\ UNCHANGED <<disk, now, carried, since>>

TrustTick ==
  /\ now < MaxTime /\ job = NoJob
  /\ now' = now + 1
  /\ UNCHANGED <<disk, up, memory, job, trustHistory>>

TrustNext ==
  \/ TrustBoots \/ TrustStops \/ TrustTick
  \/ \E c \in Commands : Arrives(c)
  \/ Latch \/ PinsKey \/ SyncsUnit \/ Records

TrustSpec == TrustInit /\ [][TrustNext]_trustVars

-----------------------------------------------------------------------------
TrustTypeOK ==
  /\ anchor \in [Purposes -> Usable] /\ pinned \in [Purposes -> Usable]
  /\ unitKey \in Usable
  /\ trust \in [sequence : Int, licence : Licences \cup {NoLicence},
                rooted : BOOLEAN, signed : BOOLEAN]
  /\ replayFile \subseteq AuthIds \X Int /\ seen \subseteq AuthIds \X Int
  /\ up \in BOOLEAN /\ strict \in BOOLEAN /\ loaded \in BOOLEAN
  /\ job \in [cmd : Commands \cup {NoCommand}, vendor : BOOLEAN,
              step : {"none", "latch", "anchor", "unit", "record"}]
  /\ now \in Nat
  /\ carried \in [AuthIds -> Nat] /\ since \in [Purposes -> Int]
  /\ lapses \subseteq {"forgot", "boundary", "unrecorded"}

(* A signed command is carried out once however often it is delivered, over *)
(* restarts too.  It takes a replay file that could not be written, or a    *)
(* delivery in the very instant in which the guard already forgets an id    *)
(* the freshness check still accepts (src/commandAuth.js:174 and 248), for  *)
(* a second time.                                                           *)
ActsOnce ==
  \A i \in AuthIds : carried[i] <= 1 \/ lapses \cap {"forgot", "boundary"} # {}

(* An anchor a vendor authorised is replaced only by one authorised as late *)
(* or later, over crashes, repeated and reordered proofs and either key:    *)
(* unless an authorisation was accepted and never reached the disk.         *)
NoRollback ==
  [][\A p \in Purposes : since'[p] >= since[p] \/ "unrecorded" \in lapses]_trustVars

(* Between handlers a restart would change nothing the agent decides by:    *)
(* the keys it would read are the keys it uses, it would insist on          *)
(* signatures if it does now, and every id it must still refuse is on file. *)
(* Two exceptions: an id whose write failed, and the override "off", which  *)
(* a latch in this process outvotes until the next start.                   *)
RestartForgetsNothing ==
  up /\ job = NoJob =>
    /\ pinned = BootKeys
    /\ strict /\ Override # "off" => BootStrict
    /\ loaded /\ "forgot" \notin lapses
         => Live(seen, now) \subseteq Live(replayFile, now)

(* What the agent has decided by, it goes on deciding by.                    *)
NothingForgotten == TrustTypeOK /\ ActsOnce /\ RestartForgetsNothing
=============================================================================
