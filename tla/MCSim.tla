------------------------------- MODULE MCSim -------------------------------
(***************************************************************************)
(* Scripts typed at each preset device and at a child program, and what    *)
(* TLC checks of sim.                                                      *)
(***************************************************************************)
EXTENDS Sim

Typing(kind, what) == [kind |-> kind, keys |-> what]

\* serial-tether's wrapper: a marker that the echo of the line does not hold,
\* then the status of the user's command.  tells is that status.
Wrapped(kind, cmd, tells) ==
  [kind |-> kind, tells |-> tells,
   keys |-> cmd \o <<";", "echo", " ", "\"", "B", "\"", "\"", "G", "$", "?", "\"", "CR">>]

\* Every way of editing four keys long.
Edited == {Typing("at", what) : what \in [1..4 -> {"a", "CR", "LF", "BS"}]}
Programs == {Typing("exec", <<"a", "b", "c", "d", "e">>)}

Played == Edited \cup Programs \cup
  {Typing("echo", <<"a", "CR", "FF">>),
   Typing("at", <<"A", "T", "CR", "LF", "LF", "x", "CR">>),
   Typing("at", <<"LF", "BS", "t", "BS", "BS", "a", "T", "LF">>),
   Typing("at", <<"A", "ETX", "FF", "T", "CR", "A", "T", "CR">>),
   Wrapped("posix", <<"false">>, "1"),
   Wrapped("posix", <<"false", "BS", "true">>, "0"),
   Wrapped("posix", <<"echo", " ", "'", ";", "false", "'">>, "0"),
   Wrapped("posix", <<"true", ";", "\"", "x", " ", "y", "\"">>, "127"),
   Wrapped("posix", <<"$", "x", " ", "false", ";", " ">>, "1"),
   Wrapped("uboot", <<"setenv", " ", "x", " ", "false", ";", "$", "x">>, "1"),
   Wrapped("uboot", <<"printenv", " ", "y", " ", "bootdelay">>, "1"),
   Wrapped("uboot", <<"setenv", " ", "bootdelay", ";", "printenv", " ", "\"", "$", " ", "\"">>, "1"),
   Wrapped("uboot", <<"version", ";", "printenv", ";", "setenv">>, "0")}

Sent   == heard \o pty
Output == Sent \o Bytes(outcells)

TypeOK ==
  /\ script \in Scripts /\ typed \in 0..Len(script.keys)
  /\ loop \in {"select", "dead", "done"}
  /\ Len(keys) <= PtyBuf /\ Len(pty) <= PtyBuf
  /\ Len(stdin) <= PtyBuf /\ Len(stdout) <= PtyBuf
  /\ toChild \in {"none", "running", "ended"}
  /\ fromChild \in {"none", "running", "ended", "failed"}
  /\ child \in {"none", "running", "exited"}
  /\ Preset => stdin = << >> /\ stdout = << >> /\ child = "none"
  /\ device.dead => loop = "dead"

\* However reads and cells cut what is typed (sim.rs:139-145), the consumer gets
\* what the device would answer to all of it at once, from the greeting on.
TypedSoFar == SubSeq(script.keys, 1, typed)
Transcript == Feed(NewDevice(script.kind), TypedSoFar)
PresetTranscript ==
  Preset /\ loop = "select" =>
    Output \o Feed(device, Bytes(incells) \o keys).out
      = Prompt(script.kind) \o Transcript.out

\* "Its stdin is what the port receives, its stdout is what the port sends"
\* (README.md): while both tasks run, each stream is whole and in order.
ExecStreams ==
  Exec /\ loop = "select" =>
    /\ toChild = "running" =>
         childgot \o stdin \o Bytes(incells) \o keys = TypedSoFar
    /\ fromChild = "running" =>
         Output \o stdout = [i \in 1..wrote |-> i]

PortStreams == PresetTranscript /\ ExecStreams

\* What a terminal shows after the last prompt or line end, "RUB" taking a column
\* (one too many shows as damage).
ShowChar(shown, c) ==
  CASE c \in {"CRLF", "$ ", "=> "} -> << >>
    [] c = "RUB" -> IF shown = << >> THEN <<"damage">> ELSE Front(shown)
    [] OTHER -> Append(shown, c)

\* "echo typed characters back, ... backspace rubs out" (sim.rs:294-296): what is
\* on the screen is what the next line end will execute.
ScreenShowsLine ==
  script.kind \in {"at", "posix", "uboot"} /\ loop = "select" =>
    FoldLeft(ShowChar, << >>, Output) = device.line

\* "the `$?` in serial-tether's trailing echo sees the status of the user command
\* that ran just before it" (sim.rs:405-407), and only the answer holds the marker,
\* so the tool that waits for it is not misled by the echo.
Marks == {i \in 1..(Len(Output) - 2) : Output[i] = "B" /\ Output[i + 1] = "G"}
MarkerTellsStatus ==
  script.kind \in Shells /\ loop = "select" =>
    /\ \A i \in Marks : Output[i + 2] = script.tells
    /\ Cardinality(Marks) = IF device.was_cr THEN 1 ELSE 0

\* The two directions of a child are tasks of their own (sim.rs:198-243): what it
\* wrote reaches an attentive consumer even if it never reads what was typed.
ChildHeard ==
  \A n \in 1..MaxWritten :
    (wrote >= n) ~> (Len(heard) >= n \/ child = "exited" \/ fromChild = "failed")

\* "its stdout is what the port sends" (README.md), also of a program that ends.
StdoutIsSent ==
  \A n \in 1..MaxWritten :
    (wrote >= n) ~> (Len(Sent) >= n \/ fromChild = "failed")
=============================================================================
