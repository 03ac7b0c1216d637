------------------------------ MODULE DeployMC ------------------------------
(* Two control planes and one storage binding; two deploys with a login or   *)
(* logout beside them, or three logins and logouts.                          *)
EXTENDS Deploy, TLC

CONSTANTS d1, d2, c1, c2, c3, prod, dev, kv

DeployerSymmetry == Permutations({d1, d2})

\* The files from which one login or logout moves the deploys from one control
\* plane to the other: active dev with both tokens, and none active.
Deploys ==
  /\ \A p \in {c2, c3} : pc[p] = "done"
  /\ file \in {Saved([NoFile EXCEPT !.tokens = {prod}], dev),
               [NoFile EXCEPT !.tokens = {prod}]}

Clerks == \A p \in Deployer : at[p] = "done"

\* Once the lock of a directory was taken away, both deploys build in it and
\* UploadIsWhole asks no more of either; the other properties are about the
\* configuration and the credentials, which no directory has a part in.
UntilRobbed == robbed = {}

MCInit == DeployInit /\ (Deploys \/ Clerks)

MCSpec == MCInit /\ [][DeployNext]_deployVars

=============================================================================
