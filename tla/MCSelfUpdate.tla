---------------------------- MODULE MCSelfUpdate ----------------------------
(* How an agent changes its release, and how its process ends: instances of  *)
(* SelfUpdate (releases 1 and 2 work, 3 starts and dies, 4 does not even     *)
(* parse), of the offers that lead to an update (UpdateOffers) and of the    *)
(* process (ProcessEnd).  They share no state here, so a behaviour is of one *)
(* of them, and `part` says of which.                                        *)
EXTENDS SelfUpdate, UpdateOffers, ProcessEnd

Releases == 1..4
Loading  == 1..3
Working  == {1, 2}
AllGuarded == Guarded
Careful == {{}, Mishaps \ {"disk", "reinstall", "twice"}}
Redone  == {{"reinstall"}, {"twice"}}

Offer(v, a, w) == [version |-> v, auto |-> a, window |-> w]
MCOffers ==
  {Offer(2, TRUE, AnyTime), Offer(2, TRUE, <<1, 2>>), Offer(3, TRUE, <<2, 1>>),
   Offer(3, FALSE, AnyTime), Offer(Garbled, TRUE, AnyTime), Offer(NoVersion, TRUE, AnyTime)}

VARIABLE part

ProcessInit ==
  /\ part \in {"update", "offers", "end"}
  /\ part = "offers" \/ (offer = Offer(NoVersion, TRUE, AnyTime) /\ consent = FALSE)
  /\ part = "end" \/ command = "agent"
  /\ part = "update" \/ (mishaps = (CHOOSE w \in Worlds : TRUE) /\ supervisor = CHOOSE s \in Supervisors : TRUE)
  /\ Init /\ OffersInit /\ EndInit

ProcessNext ==
  /\ UNCHANGED part
  /\ \/ part = "update" /\ Next /\ UNCHANGED <<offerVars, endVars>>
     \/ part = "offers" /\ OffersNext /\ UNCHANGED <<vars, endVars>>
     \/ part = "end" /\ EndNext /\ UNCHANGED <<vars, offerVars>>

(* Where a behaviour is not of the offers or of the end, their fairness asks  *)
(* for nothing; that of an update, where the client goes on to connect,      *)
(* would.                                                                    *)
ProcessSpec ==
  /\ ProcessInit /\ [][ProcessNext]_<<part, vars, offerVars, endVars>>
  /\ part = "update" => Fairness
  /\ OffersFairness /\ EndFairness
=============================================================================
