----------------------------- MODULE LinkClaim -----------------------------
(***************************************************************************)
(* How forges in separate processes claim, reclaim and give up the stable  *)
(* symlinks and their .pid sidecars (src/src/forge/pty.rs, Link), one file- *)
(* system call or liveness probe per step: between two of them any other   *)
(* process may run, exit or be killed.  A process claims the first of the  *)
(* Paths nobody else holds; --link PATH is the case of a single path.      *)
(***************************************************************************)
EXTENDS Integers, FiniteSets

CONSTANTS Procs,       \* the processes, also standing for their pids
          NPaths,      \* candidate paths, 9999 in the code
          Nobody,      \* no file
          Others,      \* the processes another user runs: in a sticky
                       \* directory like /tmp, nobody removes or rewrites
                       \* the other user's files
          Overlap,     \* TRUE when claims may be under way at the same time
          MaxCrashes   \* bound: processes killed without running Drop

ASSUME LinkAssumption == /\ NPaths \in Nat \ {0}
                         /\ Nobody \notin Procs
                         /\ Others \subseteq Procs
                         /\ Overlap \in BOOLEAN
                         /\ MaxCrashes \in Nat

Paths == 1..NPaths

VARIABLES
  pc,      \* what each process does next
  at,      \* the path it is claiming or holds
  seen,    \* the pid it read from that path's sidecar
  link,    \* link[x]: whose port the symlink at x points to
  sidecar, \* sidecar[x]: who made the file x.pid ...
  written, \* ... and whether its pid is in it yet
  crashes

vars == <<pc, at, seen, link, sidecar, written, crashes>>

Claiming == {"symlink", "read", "probe", "unlink", "unpid", "create", "write"}
Alive(p) == pc[p] \in Claiming \cup {"held", "drop"}

Init == /\ pc = [p \in Procs |-> "off"]
        /\ at = [p \in Procs |-> 1]
        /\ seen = [p \in Procs |-> Nobody]
        /\ link = [x \in Paths |-> Nobody]
        /\ sidecar = [x \in Paths |-> Nobody]
        /\ written = [x \in Paths |-> FALSE]
        /\ crashes = 0

Goes(p, where) == pc' = [pc EXCEPT ![p] = where]

\* Whether p may remove or rewrite a file of q's.
MayTouch(p, q) == q = Nobody \/ (p \in Others <=> q \in Others)

\* remove_file of p's path: a failure is ignored.
RemoveLink(p) == link' = IF MayTouch(p, link[at[p]])
                         THEN [link EXCEPT ![at[p]] = Nobody] ELSE link
RemoveSidecar(p) == sidecar' = IF MayTouch(p, sidecar[at[p]])
                               THEN [sidecar EXCEPT ![at[p]] = Nobody] ELSE sidecar

-----------------------------------------------------------------------------
(* Link::claim and what it calls.                                          *)

Start(p) == /\ pc[p] = "off"
            /\ Overlap \/ \A q \in Procs : pc[q] \notin Claiming
            /\ Goes(p, "symlink")
            /\ UNCHANGED <<at, seen, link, sidecar, written, crashes>>

\* The claim fails at once where no link can be made: no such directory, no room.
Symlink(p) == /\ pc[p] = "symlink"
              /\ \/ /\ link[at[p]] = Nobody
                    /\ link' = [link EXCEPT ![at[p]] = p]
                    /\ Goes(p, "create")
                 \/ /\ link[at[p]] # Nobody
                    /\ Goes(p, "read")
                    /\ UNCHANGED link
                 \/ /\ link[at[p]] = Nobody
                    /\ Goes(p, "refused")
                    /\ UNCHANGED link
              /\ UNCHANGED <<at, seen, sidecar, written, crashes>>

\* Mutant of Busy: one candidate too many.
BusyPastEnd(p) == IF at[p] <= NPaths
                  THEN Goes(p, "symlink") /\ at' = [at EXCEPT ![p] = @ + 1]
                  ELSE Goes(p, "refused") /\ UNCHANGED at

\* This path is busy: on to the next candidate, or give up.
Busy(p) == IF at[p] < NPaths
           THEN Goes(p, "symlink") /\ at' = [at EXCEPT ![p] = @ + 1]
           ELSE Goes(p, "refused") /\ UNCHANGED at

\* Mutant of ReadSidecar: a path without a readable sidecar counts as free.
ReadSidecarTrusting(p) ==
  /\ pc[p] = "read"
  /\ IF sidecar[at[p]] \in Procs /\ written[at[p]]
     THEN Goes(p, "probe") /\ seen' = [seen EXCEPT ![p] = sidecar[at[p]]]
     ELSE Goes(p, "unlink") /\ UNCHANGED seen
  /\ UNCHANGED <<at, link, sidecar, written, crashes>>

\* reclaim_if_stale reads the sidecar; one that is missing or names no pid
\* counts as a live holder.
ReadSidecar(p) == /\ pc[p] = "read"
                  /\ \/ /\ sidecar[at[p]] \in Procs /\ written[at[p]]
                        /\ seen' = [seen EXCEPT ![p] = sidecar[at[p]]]
                        /\ Goes(p, "probe")
                        /\ UNCHANGED at
                     \/ /\ sidecar[at[p]] = Nobody \/ ~written[at[p]]
                        /\ Busy(p)
                        /\ UNCHANGED seen
                  /\ UNCHANGED <<link, sidecar, written, crashes>>

\* Mutant of Probe: a stale path is tried again without being cleared.
ProbeRetries(p) ==
  /\ pc[p] = "probe"
  /\ IF Alive(seen[p]) THEN Busy(p) ELSE Goes(p, "symlink") /\ UNCHANGED at
  /\ UNCHANGED <<seen, link, sidecar, written, crashes>>

\* kill(pid, 0).
Probe(p) == /\ pc[p] = "probe"
            /\ IF Alive(seen[p]) THEN Busy(p)
                                 ELSE Goes(p, "unlink") /\ UNCHANGED at
            /\ UNCHANGED <<seen, link, sidecar, written, crashes>>

\* Mutant of RemoveStaleLink: the sidecar is taken for the whole claim.
RemoveStaleLinkNot(p) == /\ pc[p] = "unlink"
                         /\ Goes(p, "unpid")
                         /\ UNCHANGED <<at, seen, link, sidecar, written, crashes>>

RemoveStaleLink(p) == /\ pc[p] = "unlink"
                      /\ RemoveLink(p)
                      /\ Goes(p, "unpid")
                      /\ UNCHANGED <<at, seen, sidecar, written, crashes>>

RemoveStaleSidecar(p) == /\ pc[p] = "unpid"
                         /\ RemoveSidecar(p)
                         /\ Goes(p, "symlink")
                         /\ UNCHANGED <<at, seen, link, written, crashes>>

\* fs::write creates or truncates the sidecar, then fills it.
CreateSidecar(p) == /\ pc[p] = "create"
                    /\ MayTouch(p, sidecar[at[p]])
                    /\ sidecar' = [sidecar EXCEPT ![at[p]] = p]
                    /\ written' = [written EXCEPT ![at[p]] = FALSE]
                    /\ Goes(p, "write")
                    /\ UNCHANGED <<at, seen, link, crashes>>

\* What it writes reaches x.pid unless that file was removed meanwhile; then
\* it reaches a file without a name, or the one made since if that is the same.
WriteSidecar(p) == /\ pc[p] = "write"
                   /\ \/ /\ sidecar[at[p]] # Nobody
                         /\ sidecar' = [sidecar EXCEPT ![at[p]] = p]
                         /\ written' = [written EXCEPT ![at[p]] = TRUE]
                      \/ /\ sidecar[at[p]] # p
                         /\ UNCHANGED <<sidecar, written>>
                   /\ Goes(p, "held")
                   /\ UNCHANGED <<at, seen, link, crashes>>

\* Mutant of WriteFails: the link is forgotten.
WriteFailsKeepsLink(p) == /\ pc[p] \in {"create", "write"}
                          /\ Goes(p, "refused")
                          /\ UNCHANGED <<at, seen, link, sidecar, written, crashes>>

\* The sidecar cannot be written: the link goes, the claim fails.
WriteFails(p) == /\ pc[p] \in {"create", "write"}
                 /\ RemoveLink(p)
                 /\ Goes(p, "refused")
                 /\ UNCHANGED <<at, seen, sidecar, written, crashes>>

-----------------------------------------------------------------------------
(* The end of a process.                                                   *)

\* Drop for Link: first the link, then the sidecar.
DropLink(p) == /\ pc[p] = "held"
               /\ RemoveLink(p)
               /\ Goes(p, "drop")
               /\ UNCHANGED <<at, seen, sidecar, written, crashes>>

DropSidecar(p) == /\ pc[p] = "drop"
                  /\ RemoveSidecar(p)
                  /\ Goes(p, "exited")
                  /\ UNCHANGED <<at, seen, link, written, crashes>>

\* SIGKILL, power loss, or a signal before the handlers are installed.
Crash(p) == /\ Alive(p)
            /\ crashes < MaxCrashes
            /\ crashes' = crashes + 1
            /\ Goes(p, "dead")
            /\ UNCHANGED <<at, seen, link, sidecar, written>>

-----------------------------------------------------------------------------
Claims(p) == \/ Symlink(p) \/ ReadSidecar(p) \/ Probe(p)
             \/ RemoveStaleLink(p) \/ RemoveStaleSidecar(p)
             \/ CreateSidecar(p) \/ WriteSidecar(p) \/ WriteFails(p)

Next == \E p \in Procs : \/ Start(p) \/ Claims(p)
                         \/ DropLink(p) \/ DropSidecar(p) \/ Crash(p)

Spec == Init /\ [][Next]_vars

\* A process that is scheduled gets on with its claim and its Drop; nobody
\* promises that it starts, stops or is killed.
LiveSpec == Spec /\ \A p \in Procs : WF_vars(Claims(p)) /\ WF_vars(DropSidecar(p))

-----------------------------------------------------------------------------
States == Claiming \cup {"off", "held", "drop", "exited", "refused", "dead"}

TypeOK == /\ pc \in [Procs -> States]
          /\ at \in [Procs -> Paths]
          /\ seen \in [Procs -> Procs \cup {Nobody}]
          /\ \A p \in Procs : pc[p] \in {"probe", "unlink", "unpid"} => seen[p] \in Procs
          /\ link \in [Paths -> Procs \cup {Nobody}]
          /\ sidecar \in [Paths -> Procs \cup {Nobody}]
          /\ written \in [Paths -> BOOLEAN]
          /\ crashes \in Nat

\* "Never removes a link without first proving its holder is dead"
\* (pty.rs:397-400): as long as a forge holds its path, the symlink there leads
\* to its port.
LiveLinkKept == \A p \in Procs : pc[p] \in {"create", "write", "held"} => link[at[p]] = p

\* A forge that went through Drop leaves neither its link nor its pid behind
\* (rule 4, pty.rs:18-20), and one that was refused leaves no link.
NothingLeftBehind ==
  \A p \in Procs, x \in Paths :
    /\ pc[p] = "exited" => link[x] # p /\ sidecar[x] # p
    /\ pc[p] = "refused" => link[x] # p
=============================================================================
