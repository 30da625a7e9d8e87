-------------------------- MODULE SessionLifecycle --------------------------
(***************************************************************************)
(* The lifecycle vocabulary every part of Viby shares                      *)
(* (shared/src/sessionLifecycle.ts): the four durable states of a session, *)
(* what a state becomes when the session has no runtime, and the state the *)
(* user sees.                                                              *)
(***************************************************************************)

LifecycleStates == {"running", "open", "closed", "archived"}

\* A history session left the running section of the session list.
HistoryStates == {"closed", "archived"}

IsHistory(lifecycle) == lifecycle \in HistoryStates

\* Mutant: a detached session gets a state of its own.
ResolveInactiveDetached(lifecycle) ==
    IF lifecycle = "running" THEN "detached" ELSE lifecycle

\* resolveInactiveSessionLifecycleState: a session without a runtime is never
\* "running".
ResolveInactive(lifecycle) ==
    IF lifecycle = "running" THEN "open" ELSE lifecycle

\* getSessionLifecycleState: presence wins over the durable metadata.
VisibleLifecycle(active, lifecycle) ==
    IF active THEN "running" ELSE ResolveInactive(lifecycle)

=============================================================================
