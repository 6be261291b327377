----------------------------- MODULE MCLifecycle -----------------------------
(***************************************************************************)
(* Lifecycle, and what TLC checks of it besides its invariants.            *)
(***************************************************************************)
EXTENDS Lifecycle

\* "Ctrl-C or SIGTERM tears everything down" (README:51): once a handler has
\* seen a signal, or the device program has ended, the process ends (and by
\* ReadyMeansOwned not abruptly, once it was announced).
ForgeEnds == (caught \/ child = "ended") ~> Over

\* A preset device does not stop listening: what is typed is read, as long as
\* the forge is not told to stop (sim.rs:116-162).
PresetListens == (kind = "preset" /\ step \in {"run", "deliver"} /\ keys > 0)
                   ~> (keys = 0 \/ caught \/ step \in {"drop", "exited"})
=============================================================================
