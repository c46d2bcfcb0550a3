-------------------------- MODULE MCHealthChecks ----------------------------
(* Two tenants, two requests at once. *)
EXTENDS HealthChecks

CONSTANTS Acme, Bolt, m1, m2

MCTenants == {Acme, Bolt}
MCListing == <<Acme, Bolt>>
MCSweepers == {m1, m2}
=============================================================================
