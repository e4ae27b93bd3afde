------------------------------ MODULE BootGate ------------------------------
(***************************************************************************)
(* The two gates in front of a boot, composed: the arming contract, and    *)
(* the PCI Command transition that a boot makes once it is armed.  The     *)
(* caller, which the driver does not have yet, is external: before any     *)
(* hardware commit it asks for the arming (docs/ARCHITECTURE.md:47), and   *)
(* it does so and boots in one method of the user client, so that no       *)
(* other method changes the session meanwhile.                             *)
(***************************************************************************)
EXTENDS PciCommand, BootArm

CONSTANT HeldChanges  \* bound: changes of the session before a boot is begun

ASSUME HeldAssumption == HeldChanges \in Nat

VARIABLE begun  \* the caller is past the arming

gateVars == << vars, armVars, begun >>

GateInit == Init /\ ArmInit /\ begun = FALSE

\* The request that was just made is accepted, and the caller goes on.
BeginBoot ==
  /\ ~begun /\ begun' = TRUE
  /\ changes <= HeldChanges
  /\ \E r \in report : r.result.accepted
  /\ UNCHANGED << vars, armVars >>

GateNext ==
  \/ ~begun /\ ArmNext /\ UNCHANGED << vars, begun >>
  \/ BeginBoot
  \/ begun /\ Next /\ UNCHANGED << armVars, begun >>

GateSpec == GateInit /\ [][GateNext]_gateVars

=============================================================================
