------------------------------- MODULE GicAbs -------------------------------
(***************************************************************************)
(* What the driver of the interrupt controller promises its clients: each  *)
(* interrupt has settings of its own.  A setting is a set of bits.         *)
(***************************************************************************)
EXTENDS Integers

CONSTANTS
  IRQS,    \* numbers of interrupts
  DEVICES, \* identifiers of devices
  PARAMS,  \* settings a client asks for: [priority, cpu, trigger]
  GROUPS   \* groups an interrupt can be in

VARIABLES priority, target, trigger, group, enabled, device

avars == <<priority, target, trigger, group, enabled, device>>

RegisterIrq(id, dev, p) ==
  /\ priority' = [priority EXCEPT ![id] = p.priority]
  /\ target'   = [target EXCEPT ![id] = p.cpu]
  /\ trigger'  = [trigger EXCEPT ![id] = p.trigger]
  /\ device'   = [device EXCEPT ![id] = dev]
  /\ UNCHANGED <<group, enabled>>

EnableIrq(id) ==
  /\ enabled' = enabled \cup {id}
  /\ UNCHANGED <<priority, target, trigger, group, device>>

SetGroup(id, g) ==
  /\ group' = [group EXCEPT ![id] = g]
  /\ UNCHANGED <<priority, target, trigger, enabled, device>>

Next ==
  \E id \in IRQS :
    \/ \E dev \in DEVICES, p \in PARAMS : RegisterIrq(id, dev, p)
    \/ EnableIrq(id)
    \/ \E g \in GROUPS : SetGroup(id, g)

\* Nothing is promised about the settings before the first call.
Spec == [][Next]_avars
=============================================================================
