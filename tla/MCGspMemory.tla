---------------------------- MODULE MCGspMemory ----------------------------
(***************************************************************************)
(* GspMemory for TLC.  A page has 8 units, a page of the Radix3 tree two   *)
(* entries and a page of the queue table eight.  The firmware sizes use    *)
(* one, two and four level-2 pages, end within a page, and need a second   *)
(* root; the queues have 2, 3 (a table that spills), 4 and 6 ring entries; *)
(* the registries take one, two and four elements, fill one exactly, and   *)
(* do not fit.  One input has images without an execution plan.            *)
(***************************************************************************)
EXTENDS GspMemory

Input(firmware, queuePages, registryBytes) ==
  [queueBytes |-> 8 * queuePages, registryBytes |-> registryBytes, plannable |-> TRUE,
   size |-> [k \in Sections |->
     CASE k = "GspFirmwareImage" -> firmware
       [] k = "GspFirmwareSignature" -> 8
       [] k = "GspBootloader" -> 20
       [] k = "FrtsFwsecImage" -> 16
       [] OTHER -> 7]]

MCInputs ==
  {Input(firmware, queuePages, registryBytes) :
     firmware \in {8, 16, 17, 24, 40, 64, 72}, queuePages \in {3, 4, 5, 7},
     registryBytes \in {3, 6, 7, 30, 31}}
  \cup {[Input(16, 5, 3) EXCEPT !.plannable = FALSE]}

=============================================================================
