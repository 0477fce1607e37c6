----------------------------- MODULE MCRegistry -----------------------------
(***************************************************************************)
(* Two callers, one capability and its revisions.                          *)
(***************************************************************************)
EXTENDS Registry

Manifest(owner, tier, approval) ==
    [owner |-> owner, service |-> TRUE, risk_tier |-> tier, approval |-> approval]

\* Two revisions that pass the gates, two that do not.
McManifests ==
    {Manifest(TRUE, "R1", FALSE), Manifest(TRUE, "R3", TRUE),
     Manifest(TRUE, "R3", FALSE), Manifest(FALSE, "R1", FALSE)}
=============================================================================
