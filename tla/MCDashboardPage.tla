--------------------------- MODULE MCDashboardPage ---------------------------
(* DashboardPage for TLC.                                                  *)
EXTENDS DashboardPage
=============================================================================
