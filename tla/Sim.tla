-------------------------------- MODULE Sim --------------------------------
(***************************************************************************)
(* The two backends of `ttyforge sim` once announced (src/src/forge/sim.rs):*)
(* preset_loop, which feeds a device and writes its answers within its own  *)
(* turn, and exec_loop with its two tasks, one for each end of the child's  *)
(* standard streams.  The consumer, the child and the kernel's buffers are  *)
(* the environment; signals and teardown are in Lifecycle, noise is off.    *)
(***************************************************************************)
EXTENDS Console

CONSTANTS Scripts,   \* what consumers type and at what: [kind, keys, ...]
          Attentive, \* TRUE when the consumer keeps reading
          MaxWritten \* bytes the child writes

\* What can be typed: any byte, but not the texts that only answers are made of.
Key == STRING \ {"CRLF", "RUB", "$ ", "=> "}

ASSUME ScriptsAssumption ==
  \A s \in Scripts : s.kind \in Kinds \cup {"exec"} /\ s.keys \in Seq(Key)

VARIABLES
  script,          \* the one being played; typed, how far
  typed,
  loop,            \* "select", "dead" (panic or failed write), "done"
  keys, pty,       \* the port's kernel buffers, from and to the consumer
  heard,           \* history: what the consumer has read
  incells, outcells, \* cells on their way in and out, of loop or tasks
  device,          \* the preset's
  toChild, fromChild, \* "none", "running", "ended", and fromChild "failed"
  child,           \* "none", "running", "exited"
  takes, gives,    \* whether the child's stdin and stdout are open at its end
  stdin, stdout,   \* the pipes
  childgot, wrote  \* history: what the child read; how much it wrote

port  == <<script, typed, keys, pty, heard>>
tasks == <<toChild, fromChild>>
kid   == <<child, takes, gives, stdin, stdout, childgot, wrote>>
vars  == <<port, loop, incells, outcells, device, tasks, kid>>

Preset == script.kind \in Kinds
Exec   == script.kind = "exec"

Init == /\ script \in Scripts /\ typed = 0
        /\ loop = "select" /\ keys = << >> /\ pty = << >> /\ heard = << >>
        /\ incells = << >>
        /\ device = NewDevice(IF Preset THEN script.kind ELSE "echo")
        /\ outcells = Cells(Prompt(device.kind))   \* the greeting
        /\ toChild = (IF Exec THEN "running" ELSE "none")
        /\ fromChild = toChild /\ child = toChild
        /\ takes = Exec /\ gives = Exec
        /\ stdin = << >> /\ stdout = << >> /\ childgot = << >> /\ wrote = 0

-----------------------------------------------------------------------------
(* Presets: one read, cell by cell, each answered before the next.         *)

PresetReads == /\ Preset /\ loop = "select"
               /\ incells = << >> /\ outcells = << >> /\ keys # << >>
               /\ incells' = Cells(ReadOf(keys)) /\ keys' = LeftBy(keys)
               /\ UNCHANGED <<script, typed, pty, heard, loop, outcells, device, tasks,
                              kid>>

PresetFeeds ==
  /\ Preset /\ loop = "select" /\ incells # << >> /\ outcells = << >>
  /\ LET fed == Feed(device, Head(incells)) IN
       /\ device' = fed.device
       /\ loop' = IF fed.device.dead THEN "dead" ELSE loop
       /\ outcells' = IF fed.device.dead THEN << >> ELSE Cells(fed.out)
  /\ incells' = Tail(incells)
  /\ UNCHANGED <<port, tasks, kid>>

\* deliver, in the preset's loop or in the task that reads the child.
Delivers == /\ loop = "select" /\ outcells # << >> /\ Room(pty) > 0
            /\ pty' = Filled(pty, Head(outcells))
            /\ outcells' = CellsLeft(outcells, pty)
            /\ UNCHANGED <<script, typed, keys, heard, loop, incells, device, tasks, kid>>

PresetFails == /\ Preset /\ loop = "select" /\ outcells # << >>
               /\ loop' = "dead" /\ outcells' = << >>
               /\ UNCHANGED <<port, incells, device, tasks, kid>>

-----------------------------------------------------------------------------
(* Exec: port to stdin.                                                    *)

ToChildReads == /\ Exec /\ loop = "select" /\ toChild = "running"
                /\ incells = << >> /\ keys # << >>
                /\ incells' = Cells(ReadOf(keys)) /\ keys' = LeftBy(keys)
                /\ UNCHANGED <<script, typed, pty, heard, loop, outcells, device, tasks,
                               kid>>

\* Mutant of ToChildWrites: a pipe is taken to have room for a whole cell.
ToChildWritesAll == /\ Exec /\ loop = "select" /\ toChild = "running" /\ takes
                    /\ incells # << >> /\ Room(stdin) > 0
                    /\ stdin' = stdin \o Head(incells) /\ incells' = Tail(incells)
                    /\ UNCHANGED <<port, loop, outcells, device, tasks, child, takes,
                                   gives, stdout, childgot, wrote>>

ToChildWrites == /\ Exec /\ loop = "select" /\ toChild = "running" /\ takes
                 /\ incells # << >> /\ Room(stdin) > 0
                 /\ stdin' = Filled(stdin, Head(incells))
                 /\ incells' = CellsLeft(incells, stdin)
                 /\ UNCHANGED <<port, loop, outcells, device, tasks, child, takes, gives,
                                stdout, childgot, wrote>>

\* The child has closed its end.  The task is over and its pipe is dropped;
\* nobody reads the port from here on.
ToChildEnds == /\ Exec /\ loop = "select" /\ toChild = "running" /\ ~takes
               /\ incells # << >>
               /\ toChild' = "ended" /\ incells' = << >>
               /\ UNCHANGED <<port, loop, outcells, device, fromChild, kid>>

-----------------------------------------------------------------------------
(* Exec: stdout to port, and the wait for the child.                       *)

\* Mutant of FromChildReads: it waits until what was typed has been written.
FromChildReadsInTurn == /\ Exec /\ loop = "select" /\ fromChild = "running"
                        /\ outcells = << >> /\ stdout # << >> /\ incells = << >>
                        /\ outcells' = Cells(ReadOf(stdout)) /\ stdout' = LeftBy(stdout)
                        /\ UNCHANGED <<port, loop, incells, device, tasks, child, takes,
                                       gives, stdin, childgot, wrote>>

FromChildReads == /\ Exec /\ loop = "select" /\ fromChild = "running"
                  /\ outcells = << >> /\ stdout # << >>
                  /\ outcells' = Cells(ReadOf(stdout)) /\ stdout' = LeftBy(stdout)
                  /\ UNCHANGED <<port, loop, incells, device, tasks, child, takes, gives,
                                 stdin, childgot, wrote>>

FromChildEnds == /\ Exec /\ loop = "select" /\ fromChild = "running" /\ ~gives
                 /\ outcells = << >> /\ stdout = << >>
                 /\ fromChild' = "ended"
                 /\ UNCHANGED <<port, loop, incells, outcells, device, toChild, kid>>

\* A failed write to the port ends the task and drops its end of the pipe.
FromChildFails == /\ Exec /\ loop = "select" /\ fromChild = "running"
                  /\ outcells # << >>
                  /\ fromChild' = "failed" /\ outcells' = << >> /\ stdout' = << >>
                  /\ UNCHANGED <<port, loop, incells, device, toChild, child, takes, gives,
                                 stdin, childgot, wrote>>

\* wait() returns: both tasks are aborted, whatever they still hold.
ChildReaped == /\ Exec /\ loop = "select" /\ child = "exited"
               /\ loop' = "done" /\ toChild' = "none" /\ fromChild' = "none"
               /\ incells' = << >> /\ outcells' = << >>
               /\ stdin' = << >> /\ stdout' = << >>
               /\ UNCHANGED <<port, device, child, takes, gives, childgot, wrote>>

-----------------------------------------------------------------------------
(* The consumer and the child.                                             *)

ConsumerTypes == /\ loop = "select" /\ typed < Len(script.keys) /\ Room(keys) > 0
                 /\ typed' = typed + 1
                 /\ keys' = Append(keys, script.keys[typed + 1])
                 /\ UNCHANGED <<script, pty, heard, loop, incells, outcells, device,
                                tasks, kid>>

ConsumerReads == /\ pty # << >>
                 /\ heard' = heard \o pty /\ pty' = << >>
                 /\ UNCHANGED <<script, typed, keys, loop, incells, outcells, device,
                                tasks, kid>>

ChildReads == /\ child = "running" /\ takes /\ stdin # << >>
              /\ childgot' = Append(childgot, Head(stdin)) /\ stdin' = Tail(stdin)
              /\ UNCHANGED <<port, loop, incells, outcells, device, tasks, child, takes,
                             gives, stdout, wrote>>

ChildWrites == /\ child = "running" /\ gives /\ wrote < MaxWritten
               /\ fromChild = "running" /\ Room(stdout) > 0
               /\ wrote' = wrote + 1 /\ stdout' = Append(stdout, wrote + 1)
               /\ UNCHANGED <<port, loop, incells, outcells, device, tasks, child, takes,
                              gives, stdin, childgot>>

ChildCloses == /\ child = "running"
               /\ \/ takes /\ takes' = FALSE /\ UNCHANGED gives
                  \/ gives /\ gives' = FALSE /\ UNCHANGED takes
               /\ UNCHANGED <<port, loop, incells, outcells, device, tasks, child, stdin,
                              stdout, childgot, wrote>>

ChildExits == /\ child = "running"
              /\ child' = "exited" /\ takes' = FALSE /\ gives' = FALSE
              /\ UNCHANGED <<port, loop, incells, outcells, device, tasks, stdin, stdout,
                             childgot, wrote>>

-----------------------------------------------------------------------------
PresetLoop == PresetReads \/ PresetFeeds
ToChild    == ToChildReads \/ ToChildWrites \/ ToChildEnds
FromChild  == FromChildReads \/ FromChildEnds

Next == \/ PresetLoop \/ PresetFails \/ Delivers
        \/ ToChild \/ FromChild \/ FromChildFails \/ ChildReaped
        \/ ConsumerTypes \/ ConsumerReads
        \/ ChildReads \/ ChildWrites \/ ChildCloses \/ ChildExits

Spec == Init /\ [][Next]_vars

\* Woken tasks are polled; what this module has to say of a preset needs no
\* fairness (that it keeps listening is Lifecycle's).  The child and the typist do
\* as they like; the consumer reads when Attentive.
Fairness == /\ WF_vars(Delivers) /\ WF_vars(ToChild) /\ WF_vars(FromChild)
            /\ WF_vars(ChildReaped)
            /\ Attentive => WF_vars(ConsumerReads)

LiveSpec == Spec /\ Fairness
=============================================================================
