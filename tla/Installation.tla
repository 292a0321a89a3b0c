----------------------------- MODULE Installation -----------------------------
(***************************************************************************)
(* What a machine must not lose: the host identity that every start may    *)
(* migrate and the program set an update swaps.  The two touch different   *)
(* directories and may run at the same time.                               *)
(***************************************************************************)
EXTENDS IdentityMigration, UpdateSwap

\* An installation survives: neither a migration nor an update that stops
\* anywhere loses the identity or the program (identity.rs, swap.rs).
InstallSurvives == MigrationSafe /\ SwapTypeOK /\ AlwaysRestorable

=============================================================================
