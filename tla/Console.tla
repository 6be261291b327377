------------------------------ MODULE Console ------------------------------
(***************************************************************************)
(* The preset devices of `ttyforge sim` (src/src/forge/sim.rs): bytes in,   *)
(* bytes out.  The line discipline is kept byte by byte, what the shells do *)
(* with a line character by character.  A string is one character, except   *)
(* that a run of letters may be one and that "CRLF", "RUB" (rub out one     *)
(* column), a prompt or a fixed text of an answer is one.  "FF" is a byte   *)
(* that is not UTF-8.  A listing of all variables is a single text.         *)
(***************************************************************************)
EXTENDS WireCells, TLC

Special == {" ", "'", "\"", ";", "$", "?", "FF"}
Alphanumeric(c) == c \notin Special

Kinds  == {"echo", "at", "posix", "uboot"}
Shells == {"posix", "uboot"}

BootDelay == <<"bootdelay">>
Digits(n) == ToString(n)

\* A fresh device.  Of u-boot's variables one stands for all.
NewDevice(kind) ==
  [kind |-> kind, line |-> << >>, was_cr |-> FALSE, dead |-> FALSE, status |-> 0,
   env |-> [n \in IF kind = "uboot" THEN {BootDelay} ELSE {} |-> <<"2">>]]

Prompt(kind) == CASE kind = "posix" -> <<"$ ">>
                  [] kind = "uboot" -> <<"=> ">>
                  [] OTHER -> << >>

-----------------------------------------------------------------------------
(* Splitting and expanding.                                                *)

SplitStart == [cmds |-> << >>, cur |-> << >>, in_s |-> FALSE, in_d |-> FALSE]

SplitChar(s, c) ==
  IF c = ";" /\ ~s.in_s /\ ~s.in_d
  THEN [s EXCEPT !.cmds = Append(@, s.cur), !.cur = << >>]
  ELSE [s EXCEPT !.cur = Append(@, c),
                 !.in_s = IF c = "'" /\ ~s.in_d THEN ~@ ELSE @,
                 !.in_d = IF c = "\"" /\ ~s.in_s THEN ~@ ELSE @]

NotBlank(cmds) == Kept(cmds, {cmd \in ToSet(cmds) : ToSet(cmd) \ {" "} # {}})

\* Mutant of SplitCommands: a semicolon ends a command inside single quotes too.
SplitCommandsAtAny(line) ==
  LET Char(s, c) == SplitChar([s EXCEPT !.in_s = FALSE], c)
      end == FoldLeft(Char, SplitStart, line)
  IN  NotBlank(Append(end.cmds, end.cur))

\* The commands of a line, quotes and all; blank ones are dropped.
SplitCommands(line) ==
  LET end == FoldLeft(SplitChar, SplitStart, line)
  IN  NotBlank(Append(end.cmds, end.cur))

\* x: the words so far, the word being read and whether there is one, the kind
\* of quotes it is in, and what has been read of a variable's name.
Push(x, s) == [x EXCEPT !.cur = @ \o s, !.has = @ \/ s # << >>, !.dollar = "no"]

\* The next character is not part of a name: a dollar that waits is expanded.
Settled(x, env) ==
  CASE x.dollar = "start" -> Push(x, <<"$">>)
    [] x.dollar = "name"  -> Push(x, IF x.name \in DOMAIN env THEN env[x.name] ELSE << >>)
    [] OTHER -> x

EndWord(x) == IF x.has THEN [x EXCEPT !.words = Append(@, x.cur), !.cur = << >>,
                                      !.has = FALSE]
                       ELSE x
Quoted(x, mode) == [x EXCEPT !.mode = mode, !.has = TRUE]
Dollar(x) == [x EXCEPT !.dollar = "start", !.name = << >>]

ExpandChar(x, c, env, status) ==
  LET y == Settled(x, env) IN
  CASE x.dollar = "start" /\ c = "?" -> Push(x, <<Digits(status)>>)
    [] x.dollar # "no" /\ Alphanumeric(c) -> [x EXCEPT !.dollar = "name",
                                                       !.name = Append(@, c)]
    [] OTHER ->
       CASE y.mode = "single" -> IF c = "'" THEN [y EXCEPT !.mode = "bare"] ELSE Push(y, <<c>>)
         [] y.mode = "double" /\ c = "\"" -> [y EXCEPT !.mode = "bare"]
         [] y.mode = "bare" /\ c = "'"  -> Quoted(y, "single")
         [] y.mode = "bare" /\ c = "\"" -> Quoted(y, "double")
         [] y.mode = "bare" /\ c = " "  -> EndWord(y)
         [] OTHER -> IF c = "$" THEN Dollar(y) ELSE Push(y, <<c>>)

ExpandStart == [words |-> << >>, cur |-> << >>, has |-> FALSE, mode |-> "bare",
                dollar |-> "no", name |-> << >>]

ExpandWords(cmd, env, status) ==
  LET Char(x, c) == ExpandChar(x, c, env, status)
  IN  EndWord(Settled(FoldLeft(Char, ExpandStart, cmd), env)).words

-----------------------------------------------------------------------------
(* What a line does.                                                       *)

\* A step's result: the device after it and all that was answered so far.
Answered(d, out) == [d EXCEPT !.out = @ \o out]
Status(d, s) == [d EXCEPT !.device.status = s]
Spaced(words) == FlattenSeq([i \in DOMAIN words |->
                               IF i = 1 THEN words[i] ELSE <<" ">> \o words[i]])

PrintVar(d, name) ==
  LET env == d.device.env
  IN  IF name \in DOMAIN env
      THEN Answered(d, name \o <<"=">> \o env[name] \o <<"CRLF">>)
      ELSE Status(Answered(d, <<"not defined: ">> \o name \o <<"CRLF">>), 1)

PrintEnv(d, names) ==
  IF names = << >> THEN Status(Answered(d, <<"environment", "CRLF">>), 0)
                   ELSE FoldLeft(PrintVar, Status(d, 0), names)

SetEnv(d, args) ==
  LET env == d.device.env
      to  == CASE args = << >>   -> env
               [] Len(args) = 1  -> [n \in DOMAIN env \ {args[1]} |-> env[n]]
               [] OTHER          -> [n \in DOMAIN env \cup {args[1]} |->
                              IF n = args[1] THEN Spaced(Tail(args)) ELSE env[n]]
  IN  Status([d EXCEPT !.device.env = to], 0)

\* run_one: words are expanded now, with the status the last command left.
RunOne(d, cmd) ==
  LET words == ExpandWords(cmd, d.device.env, d.device.status)
      uboot == d.device.kind = "uboot"
      args  == Tail(words)
  IN  CASE words = << >> -> d
        [] words # << >> ->
           CASE words[1] = <<"echo">>  -> Status(Answered(d, Spaced(args) \o <<"CRLF">>), 0)
             [] words[1] = <<"true">>  -> Status(d, 0)
             [] words[1] = <<"false">> -> Status(d, 1)
             [] words[1] = <<"printenv">> /\ uboot -> PrintEnv(d, args)
             [] words[1] = <<"setenv">> /\ uboot   -> SetEnv(d, args)
             [] words[1] = <<"version">> /\ uboot  -> Status(Answered(d, <<"U-Boot", "CRLF">>), 0)
             [] OTHER -> Status(Answered(d, <<"unknown: ">> \o words[1] \o <<"CRLF">>),
                                IF uboot THEN 1 ELSE 127)

Trimmed(line) == LET ink == {i \in DOMAIN line : line[i] # " "}
                 IN  IF ink = {} THEN << >> ELSE SubSeq(line, Min(ink), Max(ink))

\* The modem looks at the first two bytes; if they are not whole characters (a
\* byte that is not UTF-8 is shown as a longer one), the slice panics.
AtLine(d, line) ==
  LET t == Trimmed(line) IN
  CASE t = << >> -> d
    [] t # << >> /\ (\E i \in DOMAIN t \cap 1..2 : t[i] = "FF") -> [d EXCEPT !.device.dead = TRUE]
    [] OTHER -> Answered(d, IF Len(t) >= 2 /\ t[1] \in {"A", "a"} /\ t[2] \in {"T", "t"}
                            THEN <<"OK", "CRLF">> ELSE <<"ERROR", "CRLF">>)

OnLine(d, line) == IF d.device.kind = "at" THEN AtLine(d, line)
                   ELSE FoldLeft(RunOne, d, SplitCommands(line))

-----------------------------------------------------------------------------
(* The line discipline.                                                    *)

EnterLine(d, b) ==
  LET run == OnLine(Answered([d EXCEPT !.device.line = << >>], <<"CRLF">>), d.device.line)
  IN  [Answered(run, Prompt(d.device.kind)) EXCEPT !.device.was_cr = (b = "CR")]

\* Mutant of RubOut: the column is rubbed out even when the line is empty.
RubOutAlways(d) == Answered([d EXCEPT !.device.line =
                               IF @ = << >> THEN @ ELSE Front(@)], <<"RUB">>)

RubOut(d) == IF d.device.line = << >> THEN d
             ELSE Answered([d EXCEPT !.device.line = Front(@)], <<"RUB">>)

Abandon(d) == Answered([d EXCEPT !.device.line = << >>],
                       <<"^C", "CRLF">> \o Prompt(d.device.kind))

FeedByte(d, b) ==
  LET e == [d EXCEPT !.device.was_cr = FALSE] IN
  CASE d.device.kind = "echo" -> Answered(d, <<b>>)
    [] d.device.kind # "echo" /\ d.device.dead -> d
    [] d.device.kind # "echo" /\ ~d.device.dead ->
       CASE b = "LF" /\ d.device.was_cr -> e
         [] b = "CR" \/ (b = "LF" /\ ~d.device.was_cr) -> EnterLine(e, b)
         [] b = "BS"  -> RubOut(e)
         [] b = "ETX" -> Abandon(e)
         [] OTHER -> Answered([e EXCEPT !.device.line = Append(@, b)], <<b>>)

\* Mutant of Feed: a CR at the end of the last input is forgotten.
FeedForgetsCr(device, input) ==
  FoldLeft(FeedByte, [device |-> [device EXCEPT !.was_cr = FALSE], out |-> << >>], input)

Feed(device, input) == FoldLeft(FeedByte, [device |-> device, out |-> << >>], input)
=============================================================================
