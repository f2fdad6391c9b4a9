-------------------------- MODULE MCRiftExpedition --------------------------
(***************************************************************************)
(* Model checking of RiftExpedition.                                       *)
(***************************************************************************)
EXTENDS RiftExpedition, TLC

CONSTANTS alice, bob

(* Rounds of the first and the second encounter.                           *)
TwoThenOne == <<2, 1>>
Once == <<1, 1>>

(* Every repository call but the reads of telemetry; and those only.       *)
GameFailures == {"potion", "award", "unlock", "extract", "finish"}
TelemetryFailures == {"snapshot"}

=============================================================================
