----------------------------- MODULE CyberPages -----------------------------
(***************************************************************************)
(* The cyber pages side by side: the wizard that starts a scan and the     *)
(* console around its tabs share no state, and each fills in for the user  *)
(* what an earlier answer or an earlier visit gave it.                     *)
(***************************************************************************)
EXTENDS CyberWizard, CyberConsole

\* What the cyber pages show or fill in for an asset belongs to the asset and the visit on the
\* screen: the plan of the wizard's engines, a class the user picked, the target of the scans tab.
PagesFit == PlanFits /\ NoStalePrefill
=============================================================================
