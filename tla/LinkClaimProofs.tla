-------------------------- MODULE LinkClaimProofs --------------------------
(***************************************************************************)
(* What TLAPS proves of LinkClaim, for any processes, paths and owners.    *)
(***************************************************************************)
EXTENDS LinkClaim, TLAPS

-----------------------------------------------------------------------------
(* The invariant behind the live link, and behind what is left behind.     *)

\* Claims do not overlap.
Serial == \A p, q \in Procs : pc[p] \in Claiming /\ pc[q] \in Claiming => p = q

\* The sidecar of a live holder names it or nobody: a former holder's Drop may
\* have deleted it.
SidecarOfHolder == \A p \in Procs : pc[p] \in {"write", "held"} => sidecar[at[p]] \in {p, Nobody}

\* Whoever read a pid off the path of a live holder read that holder's.
SeenIsHolder == \A p, q \in Procs :
  pc[p] = "probe" /\ pc[q] = "held" /\ at[p] = at[q] => seen[p] = q

\* What is about to be removed belongs to no live holder.
ReclaimsTheDead == \A p, q \in Procs :
  pc[p] \in {"unlink", "unpid"} /\ pc[q] = "held" => at[p] # at[q]

KeptInv == Serial /\ LiveLinkKept /\ SidecarOfHolder /\ SeenIsHolder /\ ReclaimsTheDead

\* A link leads to a process that is dead or holds that very path; a sidecar
\* was made by one that is dead, refused or holds that very path.
Traces == \A p \in Procs, x \in Paths :
  /\ link[x] = p => pc[p] = "dead" \/ (at[p] = x /\ pc[p] \in {"create", "write", "held"})
  /\ sidecar[x] = p => pc[p] \in {"dead", "refused"}
                         \/ (at[p] = x /\ pc[p] \in {"write", "held", "drop"})

-----------------------------------------------------------------------------
(* Types.                                                                  *)

LEMMA TypeInit == Init => TypeOK
BY LinkAssumption DEF Init, TypeOK, States, Claiming, Paths

\* Every step of a claim, a Drop or a crash keeps the types.
LEMMA TypeStep == TypeOK /\ [Next]_vars => TypeOK'
<1>. SUFFICES ASSUME TypeOK, [Next]_vars PROVE TypeOK'
  OBVIOUS
<1>. USE LinkAssumption DEF TypeOK, States, Claiming, Paths
<1>1. ASSUME NEW p \in Procs, Start(p) PROVE TypeOK'
  BY <1>1 DEF Start, Goes
<1>2. ASSUME NEW p \in Procs, Symlink(p) PROVE TypeOK'
  <2>1. CASE link' = [link EXCEPT ![at[p]] = p] /\ Goes(p, "create")
    BY <1>2, <2>1 DEF Symlink, Goes
  <2>2. CASE Goes(p, "read") /\ UNCHANGED link
    BY <1>2, <2>2 DEF Symlink, Goes
  <2>3. CASE Goes(p, "refused") /\ UNCHANGED link
    BY <1>2, <2>3 DEF Symlink, Goes
  <2>. QED BY <1>2, <2>1, <2>2, <2>3 DEF Symlink
<1>3. ASSUME NEW p \in Procs, ReadSidecar(p) PROVE TypeOK'
  BY <1>3 DEF ReadSidecar, Goes, Busy
<1>4. ASSUME NEW p \in Procs, Probe(p) PROVE TypeOK'
  <2>1. CASE Alive(seen[p]) /\ at[p] < NPaths
    <3>1. at[p] + 1 \in Paths
      BY <2>1
    <3>2. pc' = [pc EXCEPT ![p] = "symlink"] /\ at' = [at EXCEPT ![p] = at[p] + 1]
      BY <1>4, <2>1 DEF Probe, Goes, Busy
    <3>3. UNCHANGED <<seen, link, sidecar, written, crashes>>
      BY <1>4 DEF Probe
    <3>. QED BY <3>1, <3>2, <3>3
  <2>2. CASE Alive(seen[p]) /\ ~(at[p] < NPaths)
    BY <1>4, <2>2 DEF Probe, Goes, Busy
  <2>3. CASE ~Alive(seen[p])
    BY <1>4, <2>3 DEF Probe, Goes
  <2>. QED BY <2>1, <2>2, <2>3
<1>5. ASSUME NEW p \in Procs, RemoveStaleLink(p) PROVE TypeOK'
  BY <1>5 DEF RemoveStaleLink, Goes, RemoveLink, MayTouch
<1>6. ASSUME NEW p \in Procs, RemoveStaleSidecar(p) PROVE TypeOK'
  BY <1>6 DEF RemoveStaleSidecar, Goes, RemoveSidecar, MayTouch
<1>7. ASSUME NEW p \in Procs, CreateSidecar(p) PROVE TypeOK'
  BY <1>7 DEF CreateSidecar, Goes
<1>8. ASSUME NEW p \in Procs, WriteSidecar(p) PROVE TypeOK'
  <2>1. CASE /\ sidecar' = [sidecar EXCEPT ![at[p]] = p]
             /\ written' = [written EXCEPT ![at[p]] = TRUE]
    BY <1>8, <2>1 DEF WriteSidecar, Goes
  <2>2. CASE UNCHANGED <<sidecar, written>>
    BY <1>8, <2>2 DEF WriteSidecar, Goes
  <2>. QED BY <1>8, <2>1, <2>2 DEF WriteSidecar
<1>9. ASSUME NEW p \in Procs, WriteFails(p) PROVE TypeOK'
  BY <1>9 DEF WriteFails, Goes, RemoveLink, MayTouch
<1>10. ASSUME NEW p \in Procs, DropLink(p) PROVE TypeOK'
  BY <1>10 DEF DropLink, Goes, RemoveLink, MayTouch
<1>11. ASSUME NEW p \in Procs, DropSidecar(p) PROVE TypeOK'
  BY <1>11 DEF DropSidecar, Goes, RemoveSidecar, MayTouch
<1>12. ASSUME NEW p \in Procs, Crash(p) PROVE TypeOK'
  BY <1>12 DEF Crash, Goes
<1>13. CASE UNCHANGED vars
  BY <1>13 DEF vars
<1>. QED BY <1>1, <1>2, <1>3, <1>4, <1>5, <1>6, <1>7, <1>8, <1>9, <1>10, <1>11, <1>12, <1>13 DEF Next, Claims

\* Whoever claims, reclaims, gives up or is killed, a process is on one of its
\* candidate paths and probes only pids it has read (pty.rs:306-414).
THEOREM TypeCorrect == Spec => []TypeOK
BY TypeInit, TypeStep, PTL DEF Spec

-----------------------------------------------------------------------------
(* What is left behind.                                                    *)

LEMMA TracesStep == TypeOK /\ Traces /\ [Next]_vars => Traces'
<1>. SUFFICES ASSUME TypeOK, Traces, [Next]_vars PROVE Traces'
  OBVIOUS
<1>. USE LinkAssumption DEF TypeOK, Traces, Claiming, Alive
<1>1. ASSUME NEW p \in Procs, Start(p) PROVE Traces'
  BY <1>1 DEF Start, Goes
<1>2. ASSUME NEW p \in Procs, Symlink(p) PROVE Traces'
  BY <1>2 DEF Symlink, Goes
<1>3. ASSUME NEW p \in Procs, ReadSidecar(p) PROVE Traces'
  BY <1>3 DEF ReadSidecar, Goes, Busy
<1>4. ASSUME NEW p \in Procs, Probe(p) PROVE Traces'
  BY <1>4 DEF Probe, Goes, Busy
<1>5. ASSUME NEW p \in Procs, RemoveStaleLink(p) PROVE Traces'
  BY <1>5 DEF RemoveStaleLink, Goes, RemoveLink, MayTouch
<1>6. ASSUME NEW p \in Procs, RemoveStaleSidecar(p) PROVE Traces'
  BY <1>6 DEF RemoveStaleSidecar, Goes, RemoveSidecar, MayTouch
<1>7. ASSUME NEW p \in Procs, CreateSidecar(p) PROVE Traces'
  BY <1>7 DEF CreateSidecar, Goes
<1>8. ASSUME NEW p \in Procs, WriteSidecar(p) PROVE Traces'
  BY <1>8 DEF WriteSidecar, Goes
<1>9. ASSUME NEW p \in Procs, WriteFails(p) PROVE Traces'
  BY <1>9 DEF WriteFails, Goes, RemoveLink, MayTouch
<1>10. ASSUME NEW p \in Procs, DropLink(p) PROVE Traces'
  BY <1>10 DEF DropLink, Goes, RemoveLink, MayTouch
<1>11. ASSUME NEW p \in Procs, DropSidecar(p) PROVE Traces'
  BY <1>11 DEF DropSidecar, Goes, RemoveSidecar, MayTouch
<1>12. ASSUME NEW p \in Procs, Crash(p) PROVE Traces'
  BY <1>12 DEF Crash, Goes
<1>13. CASE UNCHANGED vars
  BY <1>13 DEF vars
<1>. QED BY <1>1, <1>2, <1>3, <1>4, <1>5, <1>6, <1>7, <1>8, <1>9, <1>10, <1>11, <1>12, <1>13 DEF Next, Claims

\* Under any interleaving of any number of forges, one whose Drop has run left
\* neither link nor sidecar, and one that was refused left no link (rule 4,
\* pty.rs:18-20, 333-350).
THEOREM CleanExit == Spec => []NothingLeftBehind
<1>1. Init => Traces
  BY LinkAssumption DEF Init, Traces
<1>2. TypeOK /\ Traces => NothingLeftBehind
  BY DEF TypeOK, Traces, NothingLeftBehind
<1>. QED BY <1>1, <1>2, TracesStep, TypeCorrect, PTL DEF Spec

-----------------------------------------------------------------------------
(* The live link.                                                          *)

LEMMA KeptStep == ASSUME ~Overlap
                  PROVE  TypeOK /\ KeptInv /\ [Next]_vars => KeptInv'
<1>. SUFFICES ASSUME TypeOK, KeptInv, [Next]_vars PROVE KeptInv'
  OBVIOUS
<1>. USE LinkAssumption DEF TypeOK, KeptInv, Serial, LiveLinkKept, SidecarOfHolder,
                            SeenIsHolder, ReclaimsTheDead, Claiming, Alive
<1>1. ASSUME NEW p \in Procs, Start(p) PROVE KeptInv'
  BY <1>1 DEF Start, Goes
<1>2. ASSUME NEW p \in Procs, Symlink(p) PROVE KeptInv'
  BY <1>2 DEF Symlink, Goes
<1>3. ASSUME NEW p \in Procs, ReadSidecar(p) PROVE KeptInv'
  BY <1>3 DEF ReadSidecar, Goes, Busy
<1>4. ASSUME NEW p \in Procs, Probe(p) PROVE KeptInv'
  BY <1>4 DEF Probe, Goes, Busy
<1>5. ASSUME NEW p \in Procs, RemoveStaleLink(p) PROVE KeptInv'
  BY <1>5 DEF RemoveStaleLink, Goes, RemoveLink, MayTouch
<1>6. ASSUME NEW p \in Procs, RemoveStaleSidecar(p) PROVE KeptInv'
  BY <1>6 DEF RemoveStaleSidecar, Goes, RemoveSidecar, MayTouch
<1>7. ASSUME NEW p \in Procs, CreateSidecar(p) PROVE KeptInv'
  BY <1>7 DEF CreateSidecar, Goes
<1>8. ASSUME NEW p \in Procs, WriteSidecar(p) PROVE KeptInv'
  BY <1>8 DEF WriteSidecar, Goes
<1>9. ASSUME NEW p \in Procs, WriteFails(p) PROVE KeptInv'
  BY <1>9 DEF WriteFails, Goes, RemoveLink, MayTouch
<1>10. ASSUME NEW p \in Procs, DropLink(p) PROVE KeptInv'
  BY <1>10 DEF DropLink, Goes, RemoveLink, MayTouch
<1>11. ASSUME NEW p \in Procs, DropSidecar(p) PROVE KeptInv'
  BY <1>11 DEF DropSidecar, Goes, RemoveSidecar, MayTouch
<1>12. ASSUME NEW p \in Procs, Crash(p) PROVE KeptInv'
  BY <1>12 DEF Crash, Goes
<1>13. CASE UNCHANGED vars
  BY <1>13 DEF vars
<1>. QED BY <1>1, <1>2, <1>3, <1>4, <1>5, <1>6, <1>7, <1>8, <1>9, <1>10, <1>11, <1>12, <1>13 DEF Next, Claims

\* When no two forges are claiming at once, a forge that holds its path keeps
\* it: whatever others reclaim, drop, or leave by dying, the symlink leads to
\* the holder's port (pty.rs:384-414).
THEOREM LinkKept == ASSUME ~Overlap PROVE Spec => []LiveLinkKept
<1>1. Init => KeptInv
  BY LinkAssumption DEF Init, KeptInv, Serial, LiveLinkKept, SidecarOfHolder,
     SeenIsHolder, ReclaimsTheDead, Claiming
<1>2. KeptInv => LiveLinkKept
  BY DEF KeptInv
<1>3. TypeOK /\ KeptInv /\ [Next]_vars => KeptInv'
  BY KeptStep
<1>. QED BY <1>1, <1>2, <1>3, TypeCorrect, PTL DEF Spec
=============================================================================
