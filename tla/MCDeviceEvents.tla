---------------------------- MODULE MCDeviceEvents ----------------------------
(* What other devices send the agent unasked: syslog lines and SNMP traps    *)
(* (DeviceEvents, two senders shouting at both receivers), interface counters *)
(* (CounterRotation) and flow records (FlowTemplates).  They share no state,  *)
(* so a behaviour is of one of the three, and `part` says of which.          *)
EXTENDS DeviceEvents, CounterRotation, FlowTemplates

CONSTANTS s1, s2, k1, x1, x2, l1, l2

TwoSenders == {s1, s2}
TwoSources == [e \in {x1, x2} |-> IF e = x1 THEN "0" ELSE "1"]

VARIABLE part

ReceivingInit ==
  /\ part \in {"events", "counters", "flows"}
  /\ vouched \in {{}, {s1}, TwoSenders}   \* which of the two makes no difference
  /\ Init /\ RotationInit /\ TemplatesInit
  /\ part = "flows" \/ layout = [x \in {x1, x2} |-> l1]
  /\ part = "events" \/ (enabled = Receivers /\ vouched = {})
ReceivingNext ==
  /\ UNCHANGED part
  /\ \/ part = "events" /\ Next /\ UNCHANGED <<rotationVars, templateVars>>
     \/ part = "counters" /\ RotationNext /\ UNCHANGED <<vars, templateVars>>
     \/ part = "flows" /\ TemplatesNext /\ UNCHANGED <<vars, rotationVars>>
ReceivingSpec ==
  /\ ReceivingInit
  /\ [][ReceivingNext]_<<part, vars, rotationVars, templateVars>>
  /\ Fairness /\ TemplatesFair
=============================================================================
