---------------------------- MODULE MCLinkClaim ----------------------------
(***************************************************************************)
(* LinkClaim with a few processes, and what TLC checks of it.              *)
(***************************************************************************)
EXTENDS LinkClaim

\* A claim ends: reclaiming never goes round for ever (pty.rs:401-414).
ClaimEnds == \A p \in Procs : (pc[p] \in Claiming) ~> (pc[p] \notin Claiming)

\* "lets a later invocation reclaim a link whose owner died" (pty.rs:18-20): a
\* claim that meets a path whose link and sidecar were left by a dead holder
\* gets that path, unless it is killed or link or sidecar cannot be made.  Left
\* out is the case the code loses: a former holder of the path, still between
\* the two removals of its Drop, deletes the dead one's sidecar.
DeadHoldersPathReclaimed ==
  \A p, q \in Procs, x \in Paths :
    (/\ pc[p] = "symlink" /\ at[p] = x
     /\ pc[q] = "dead" /\ link[x] = q /\ sidecar[x] = q /\ written[x]
     /\ \A r \in Procs : ~(pc[r] = "drop" /\ at[r] = x))
      ~> (pc[p] \in {"dead", "refused"} \/ (pc[p] = "held" /\ at[p] = x)
            \/ pc[p] \in {"drop", "exited"})
=============================================================================
