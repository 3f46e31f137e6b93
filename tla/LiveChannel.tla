----------------------------- MODULE LiveChannel -----------------------------
(***************************************************************************)
(* What the rest of the agent sees of its live channel: it is down, open   *)
(* or halted for good; a dial may be refused with a 401; only the owner's  *)
(* decision or a terminal error halts it, and nothing revives it then.     *)
(***************************************************************************)
CONSTANT AuthRetry  (* a 401 is answered by a quiet retry, not by giving up *)

VARIABLES
  chan,     (* "down", "open" or "halted"                                    *)
  refused   (* the last answer to a dial was a 401                           *)

vars == <<chan, refused>>

Init == chan = "down" /\ refused = FALSE

Opened  == chan = "down" /\ chan' = "open" /\ refused' = FALSE
Dropped == chan = "open" /\ chan' = "down" /\ UNCHANGED refused
Refused == /\ chan = "down"
           /\ refused' = TRUE
           /\ chan' = IF AuthRetry THEN "down" ELSE "halted"
Halted  == chan # "halted" /\ chan' = "halted" /\ UNCHANGED refused

Next == Opened \/ Dropped \/ Refused \/ Halted

Spec == Init /\ [][Next]_vars

=============================================================================
