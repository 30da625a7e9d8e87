---------------------------- MODULE MCHubSession ----------------------------
(***************************************************************************)
(* Instances of HubSession for TLC.                                        *)
(***************************************************************************)
EXTENDS HubSession, TLC

\* Every driver but pi resumes without a token through a continuity handoff.
AllContinuity == [driver \in Drivers |-> "continuity"]

\* A session AppCore did not start cannot be resumed without a token.
NoFallback == [driver \in Drivers |-> "none"]

Symmetry == Permutations(Runtimes) \cup Permutations(Ops)

=============================================================================
