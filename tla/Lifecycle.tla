----------------------------- MODULE Lifecycle -----------------------------
(***************************************************************************)
(* One ttyforge process from its first check to its exit status: setup,    *)
(* signal handlers, the readiness line, the loop of each forge, teardown    *)
(* (src/src/main.rs and the `run` of pair.rs, sim.rs, bridge.rs, mux.rs).   *)
(* The bytes a preset device handles inside its loop are counted; what the  *)
(* other forges' tasks carry does not touch their loop.  Signals, the child *)
(* program and the consumer are the environment.                           *)
(***************************************************************************)
EXTENDS Integers, FiniteSets

CONSTANTS Kinds,      \* forges explored, out of AllKinds
          NPorts,     \* --link arguments of a mux
          BaudZero,   \* whether --baud-sim 0 may be asked for
          Attentive,  \* TRUE when the consumer keeps draining its port
          PtyBuf,     \* bytes a kernel buffer of the port holds
          ReadMax,    \* most bytes of one read, 4096 in the code
          MaxReply,   \* most bytes a device answers to one read
          MaxTyped,   \* bound: bytes the consumer types
          MaxSignals, \* bound: SIGTERMs and SIGINTs
          Statuses,   \* exit statuses the device program may end with
          Crashed     \* ended by a signal: it has no status

AllKinds == {"pair", "preset", "exec", "bridge", "mux"}

ASSUME LifecycleAssumption ==
  /\ Kinds \subseteq AllKinds
  /\ NPorts \in Nat \ {0} /\ PtyBuf \in Nat \ {0} /\ ReadMax \in Nat \ {0}
  /\ MaxReply \in Nat /\ MaxTyped \in Nat /\ MaxSignals \in Nat
  /\ BaudZero \in BOOLEAN /\ Attentive \in BOOLEAN
  /\ Statuses \subseteq 0..255 /\ Crashed \notin Int

VARIABLES
  kind,     \* which forge this is
  zero,     \* --baud-sim 0 was given
  step,     \* where it is, see Steps
  ports,    \* ptys created
  links,    \* symlinks, each with its sidecar, it has on disk
  handlers, \* signals whose handler is installed
  caught,   \* a handler has seen its signal
  said,     \* ports announced on stdout
  child,    \* the device program: "none", "running", "ended", "killed"
  status,   \* what it ended with
  result,   \* what `run` returns: "ok", "child", "setup" or "error", "panic"
  exit,     \* the forge's exit status
  keys, out, todo, \* preset: bytes to read, bytes the consumer has to read,
                   \* bytes of an answer still to write
  typed, signals   \* counted against the bounds

setup  == <<ports, links, handlers, said>>
device == <<child, status>>
data   == <<keys, out, todo, typed>>
vars   == <<kind, zero, step, setup, caught, device, result, exit, data, signals>>

Steps == {"check", "open", "ports", "bind", "term", "int", "announce", "start",
          "deliver", "run", "drop", "exited", "killed"}
Signals == {"TERM", "INT"}
Over == step \in {"exited", "killed"}

\* How many ports this forge publishes.
Need == CASE kind = "pair" -> 2 [] kind = "mux" -> NPorts [] OTHER -> 1
Least(m, n) == IF m < n THEN m ELSE n

Init == /\ kind \in Kinds /\ zero \in {FALSE, BaudZero}
        /\ step = "check" /\ ports = 0 /\ links = 0 /\ handlers = {}
        /\ caught = FALSE /\ said = 0
        /\ child = "none" /\ status = 0 /\ result = "none" /\ exit = 0
        /\ keys = 0 /\ out = 0 /\ todo = 0 /\ typed = 0 /\ signals = 0

Goes(there) == step' = there /\ UNCHANGED result
Returns(what) == step' = "drop" /\ result' = what

-----------------------------------------------------------------------------
(* Setup, in the order of the code.  An early return drops what exists.    *)

Check == /\ step = "check"
         /\ Goes(IF kind = "mux" THEN "open" ELSE "ports")
         /\ UNCHANGED <<kind, zero, setup, caught, device, exit, data, signals>>

\* Arguments that make no sense: only the bridge tags this as a setup failure.
CheckFails == /\ step = "check" /\ kind # "preset"
              /\ Returns(IF kind = "bridge" THEN "setup" ELSE "error")
              /\ UNCHANGED <<kind, zero, setup, caught, device, exit, data, signals>>

OpenDevice == /\ step = "open"
              /\ Goes("ports")
              /\ UNCHANGED <<kind, zero, setup, caught, device, exit, data, signals>>

\* pair creates both ports before it claims a path, mux goes port by port.
CreatePort == /\ step = "ports" /\ ports < Need
              /\ ports = links \/ kind = "pair"
              /\ links = 0 \/ kind = "mux"
              /\ ports' = ports + 1
              /\ UNCHANGED <<kind, zero, step, links, handlers, caught, said, device,
                             result, exit, data, signals>>

\* Mutant of ClaimPath: the path is claimed ahead of its port.
ClaimPathAhead == /\ step = "ports" /\ links < Need
                  /\ links' = links + 1
                  /\ Goes(IF links + 1 < Need THEN "ports"
                          ELSE IF kind = "bridge" THEN "bind" ELSE "term")
                  /\ UNCHANGED <<kind, zero, ports, handlers, caught, said, device,
                                 exit, data, signals>>

ClaimPath == /\ step = "ports" /\ links < ports
             /\ kind = "pair" => ports = Need
             /\ links' = links + 1
             /\ Goes(IF links + 1 < Need THEN "ports"
                     ELSE IF kind = "bridge" THEN "bind" ELSE "term")
             /\ UNCHANGED <<kind, zero, ports, handlers, caught, said, device, exit,
                            data, signals>>

Bind == /\ step = "bind"
        /\ Goes("term")
        /\ UNCHANGED <<kind, zero, setup, caught, device, exit, data, signals>>

\* Mutant of SetupFails: the process exits there and then.
SetupFailsAbruptly == /\ step \in {"open", "ports", "bind"}
                      /\ step' = "exited" /\ result' = "setup" /\ exit' = 3
                      /\ UNCHANGED <<kind, zero, setup, caught, device, data, signals>>

\* No such device, no pty, a busy path, a taken TCP port.
SetupFails == /\ step \in {"open", "ports", "bind"}
              /\ Returns("setup")
              /\ UNCHANGED <<kind, zero, setup, caught, device, exit, data, signals>>

\* Mutant of InstallTerm: the handlers are left for the loop to install.
InstallTermLazily == /\ step = "term"
                     /\ Goes("announce")
                     /\ UNCHANGED <<kind, zero, setup, caught, device, exit, data,
                                    signals>>

InstallTerm == /\ step = "term"
               /\ handlers' = handlers \cup {"TERM"}
               /\ Goes("int")
               /\ UNCHANGED <<kind, zero, ports, links, caught, said, device, exit,
                              data, signals>>

InstallInt == /\ step = "int"
              /\ handlers' = handlers \cup {"INT"}
              /\ Goes("announce")
              /\ UNCHANGED <<kind, zero, ports, links, caught, said, device, exit,
                             data, signals>>

\* One line per port, or one object for all of them.
Announce == /\ step = "announce" /\ said < Need
            /\ said' \in {said + 1, Need}
            /\ Goes(IF said' = Need THEN "start" ELSE "announce")
            /\ UNCHANGED <<kind, zero, ports, links, handlers, caught, device, exit,
                           data, signals>>

\* A handler cannot be installed, or stdout is closed.
LateSetupFails == /\ step \in {"term", "int", "announce"}
                  /\ Returns("error")
                  /\ UNCHANGED <<kind, zero, setup, caught, device, exit, data, signals>>

-----------------------------------------------------------------------------
(* The loops.                                                              *)

\* The wire of a preset, an exec, a pair or a mux is built here; a bridge
\* builds one per session.  A preset first delivers its greeting.
Start == /\ step = "start"
         /\ zero => kind = "bridge"
         /\ todo' \in (IF kind = "preset" THEN 0..MaxReply ELSE {0})
         /\ child' = IF kind = "exec" THEN "running" ELSE "none"
         /\ Goes(IF todo' > 0 THEN "deliver" ELSE "run")
         /\ UNCHANGED <<kind, zero, setup, caught, status, exit, keys, out, typed,
                        signals>>

\* Wire::new divides by the baud rate.
StartPanics == /\ step = "start" /\ zero /\ kind # "bridge"
               /\ Returns("panic")
               /\ UNCHANGED <<kind, zero, setup, caught, device, exit, data, signals>>

\* There is no such device program: tagged as setup, after the announcement.
SpawnFails == /\ step = "start" /\ kind = "exec" /\ ~zero
              /\ Returns("setup")
              /\ UNCHANGED <<kind, zero, setup, caught, device, exit, data, signals>>

\* The task that serves the peers died; here, of that wire.
BridgeTaskFails == /\ step = "run" /\ kind = "bridge" /\ zero
                   /\ Returns("error")
                   /\ UNCHANGED <<kind, zero, setup, caught, device, exit, data, signals>>

\* The device answers within the loop's own turn: until the answer is written
\* nothing else of the loop is polled.
PresetReads == /\ step = "run" /\ kind = "preset" /\ keys > 0
               /\ keys' = keys - Least(keys, ReadMax)
               /\ todo' \in 0..MaxReply
               /\ Goes(IF todo' > 0 THEN "deliver" ELSE "run")
               /\ UNCHANGED <<kind, zero, setup, caught, device, exit, out, typed, signals>>

\* Mutant of DeliverWrites: an answer goes into the buffer whole or not at all.
DeliverWritesWhole == /\ step = "deliver" /\ out + todo <= PtyBuf
                      /\ out' = out + todo /\ todo' = 0
                      /\ Goes("run")
                      /\ UNCHANGED <<kind, zero, setup, caught, device, exit, keys,
                                     typed, signals>>

DeliverWrites == /\ step = "deliver" /\ out < PtyBuf
                 /\ LET n == Least(todo, PtyBuf - out)
                    IN  out' = out + n /\ todo' = todo - n
                 /\ Goes(IF todo' > 0 THEN "deliver" ELSE "run")
                 /\ UNCHANGED <<kind, zero, setup, caught, device, exit, keys, typed,
                                signals>>

DeliverFails == /\ step = "deliver"
                /\ Returns("error")
                /\ UNCHANGED <<kind, zero, setup, caught, device, exit, data, signals>>

\* Mutant of Shutdown: the device program is left to end first.
ShutdownAfterChild == /\ step = "run" /\ caught /\ child # "running"
                      /\ Returns("ok")
                      /\ UNCHANGED <<kind, zero, setup, caught, device, exit, data,
                                     signals>>

Shutdown == /\ step = "run" /\ caught
            /\ Returns("ok")
            /\ UNCHANGED <<kind, zero, setup, caught, device, exit, data, signals>>

\* child.wait has its status.
ChildReaped == /\ step = "run" /\ child = "ended"
               /\ Returns(IF status = 0 THEN "ok" ELSE "child")
               /\ UNCHANGED <<kind, zero, setup, caught, device, exit, data, signals>>

-----------------------------------------------------------------------------
(* Teardown: what `run` owns is dropped, then `main` turns its result into  *)
(* an exit status.                                                         *)

\* kill_on_drop.
DropChild == /\ step = "drop" /\ child = "running"
             /\ child' = "killed"
             /\ UNCHANGED <<kind, zero, step, setup, caught, status, result, exit,
                            data, signals>>

DropLink == /\ step = "drop" /\ child # "running" /\ links > 0
            /\ links' = links - 1
            /\ UNCHANGED <<kind, zero, step, ports, handlers, caught, said, device,
                           result, exit, data, signals>>

\* Mutant of Code: the device program's status is an error like any other.
CodeForgetsChild == CASE result = "ok" -> 0 [] result = "setup" -> 3
                      [] result = "panic" -> 101 [] OTHER -> 2

\* A device program ended by a signal has no code: -1, clamped to 0.
Code == CASE result = "ok"    -> 0
          [] result = "child" -> IF status = Crashed THEN 0 ELSE status
          [] result = "setup" -> 3
          [] result = "panic" -> 101
          [] OTHER            -> 2

Exit == /\ step = "drop" /\ child # "running" /\ links = 0
        /\ exit' = Code
        /\ step' = "exited"
        /\ UNCHANGED <<kind, zero, setup, caught, device, result, data, signals>>

-----------------------------------------------------------------------------
(* The environment.                                                        *)

\* Without its handler a signal ends the process on the spot.
Signal(s) == /\ ~Over /\ signals < MaxSignals
             /\ signals' = signals + 1
             /\ IF s \in handlers THEN caught' = TRUE /\ UNCHANGED step
                                  ELSE step' = "killed" /\ UNCHANGED caught
             /\ UNCHANGED <<kind, zero, setup, device, result, exit, data>>

ChildEnds == /\ ~Over /\ child = "running"
             /\ child' = "ended" /\ status' \in Statuses \cup {Crashed}
             /\ UNCHANGED <<kind, zero, step, setup, caught, result, exit, data, signals>>

ConsumerTypes == /\ kind = "preset" /\ said > 0 /\ ~Over
                 /\ typed < MaxTyped /\ keys < PtyBuf
                 /\ typed' = typed + 1 /\ keys' = keys + 1
                 /\ UNCHANGED <<kind, zero, step, setup, caught, device, result, exit,
                                out, todo, signals>>

ConsumerReads == /\ out > 0
                 /\ out' = 0
                 /\ UNCHANGED <<kind, zero, step, setup, caught, device, result, exit,
                                keys, todo, typed, signals>>

-----------------------------------------------------------------------------
Fails == \/ CheckFails \/ SetupFails \/ LateSetupFails \/ SpawnFails
         \/ BridgeTaskFails \/ DeliverFails

Proceeds == \/ Check \/ OpenDevice \/ CreatePort \/ ClaimPath \/ Bind
            \/ InstallTerm \/ InstallInt \/ Announce \/ Start \/ StartPanics
            \/ PresetReads \/ DeliverWrites \/ Shutdown \/ ChildReaped
            \/ DropChild \/ DropLink \/ Exit

Next == \/ Proceeds \/ Fails
        \/ \E s \in Signals : Signal(s)
        \/ ChildEnds \/ ConsumerTypes \/ ConsumerReads

Spec == Init /\ [][Next]_vars

\* The process is scheduled, and the consumer reads when Attentive.  Nobody
\* promises that a signal comes, that the device program ends, or that anything
\* fails.
LiveSpec == /\ Spec /\ WF_vars(Proceeds)
            /\ Attentive => WF_vars(ConsumerReads)

-----------------------------------------------------------------------------
TypeOK == /\ kind \in Kinds /\ zero \in BOOLEAN /\ step \in Steps
          /\ ports \in 0..Need /\ links \in 0..ports /\ said \in 0..Need
          /\ handlers \in SUBSET Signals /\ caught \in BOOLEAN
          /\ child \in {"none", "running", "ended", "killed"}
          /\ status \in Statuses \cup {0, Crashed}
          /\ result \in {"none", "ok", "child", "setup", "error", "panic"}
          /\ exit \in 0..255
          /\ keys \in 0..PtyBuf /\ out \in 0..PtyBuf /\ todo \in 0..MaxReply
          /\ typed \in Nat /\ signals \in Nat

\* "The readiness line is a promise: the port exists and the forge owns its own
\* lifecycle from here" (signals.rs:1-12): once any of it is out, every port has
\* its path until teardown, and no signal kills the process.
ReadyMeansOwned == said > 0 => /\ step # "killed"
                               /\ step \notin {"drop", "exited"} => links = Need

\* However a forge returns from whatever step, its paths are gone when it exits
\* and so is the program it ran (rule 4, pty.rs:18-20; kill_on_drop).
CleanExit == step = "exited" => links = 0 /\ child # "running"

\* What holds of exit statuses (main.rs:191-208, tests/sim.rs:115), whatever is
\* caught, fails or ends in whatever order: a program that ended with a status
\* gives it to the forge, or was overtaken by a signal to the forge; a forge that
\* nobody told to stop and whose program did not end does not exit 0; one that
\* had only some of its ports exits 3.
ExitStatusTells ==
  step = "exited" =>
    /\ child = "ended" /\ status # Crashed => exit = status \/ (caught /\ exit = 0)
    /\ child # "ended" /\ exit = 0 => caught
    /\ 0 < ports /\ ports < Need => exit = 3

-----------------------------------------------------------------------------
(* "Exit codes: 0 clean, 1 usage, 2 runtime, 3 setup failed before the port *)
(* existed - so a script that got a readiness line knows the port was real" *)
(* (README:51-53), which the code does not keep, part by part.              *)

\* 3 comes before any readiness line (also main.rs:192).  False of a device program
\* that cannot be started (SpawnFails, sim.rs:193), true of every forge that runs
\* none.  A 3 that is the program's own does not count.
ThreeMeansNoPort == step = "exited" /\ exit = 3 /\ child # "ended" => said = 0

\* 0 is a forge that was told to stop or whose program ended well.  False of a
\* program ended by a signal (Code, sim.rs:266), true of every forge that runs none.
ZeroMeansClean == step = "exited" /\ exit = 0 => caught \/ (child = "ended" /\ status = 0)

\* A forge that does not pass a program's status on has none but the listed ones.
\* False of --baud-sim 0 (StartPanics, wire.rs:104), which exits 101.
OnlyListedCodes == step = "exited" /\ child # "ended" => exit \in {0, 2, 3}

\* The list of exit codes, as a whole.
ExitCodesAsListed == ThreeMeansNoPort /\ ZeroMeansClean /\ OnlyListedCodes
=============================================================================
