# A verification of ttyforge in TLA+

`ttyforge` forges virtual serial ports: ptys published under stable symlinks,
with something behind them. `pair` puts a second pty there, `sim` a simulated
device (a preset or a program of the user's), `bridge` a TCP peer, `mux` one
real serial device shared by several tools. Each forge is one foreground
process with one thread: tokio tasks interleave at their `await`s, and the
consumers, the kernel's buffers, peers, devices and signals run beside them.

This directory holds TLA+ modules translated from the Rust source, TLC
configurations that check them on small instances, and proofs that TLAPS
checks for every value of the constants. `src/` below means the repository.

## The system

| Component | State it keeps | Operations | Talks to |
|---|---|---|---|
| pty core (`pty.rs`, `VirtualPort`) | master, kept slave fd | create, read, write_all, reassert raw termios | every forge; the consumer through the kernel |
| published links (`pty.rs`, `Link`) | symlink and `.pid` sidecar on disk | claim, reclaim a dead holder's path, Drop | other ttyforge processes, through the file system |
| signals (`signals.rs`) | two handlers | install, recv | every forge's select loop |
| status (`status.rs`) | none | announce | stdout |
| main (`main.rs`) | none | dispatch, exit status | all forges |
| wire (`wire.rs`) | pacing cursor, RNG | plan, deliver, deliver_to, pump | every byte path |
| pair (`pair.rs`) | two ports | two pumps, watchdog | wire |
| sim presets (`sim.rs`) | the device's line and variables | preset loop, feed | wire |
| sim exec (`sim.rs`) | the child and two stdio tasks | spawn, to_child, from_child, wait | wire, the child |
| bridge (`bridge.rs`) | one session at a time | drain, next peer, session | wire, TCP |
| RFC2217 (`bridge.rs`, `rfc2217.rs`) | telnet decoder, last settings sent | decode, negotiate, poll settings | TCP |
| serial (`serial.rs`) | the device's fd | open, read, write_all | mux |
| mux (`mux.rs`) | broadcast buffer, mpsc queue | device reader and writer, two tasks per consumer | wire, serial |

What makes each correct, and what is hard about it:

- **mux**: every consumer gets the device's stream in order, whole but for the
  reads it was told it lost; a stalled consumer delays nobody; everything typed
  reaches the device in each writer's order. Hard: four kinds of task, two
  bounded buffers, short writes, failures between two cells of one chunk.
- **bridge**: one reader of the port at any time, whether drain or session; no
  byte in two sessions; the bridge always gets to the next peer. Hard: tasks
  aborted at any await, peers that half-close or vanish mid-write.
- **links**: a live holder keeps its path, a dead one's is reclaimed, nothing is
  left behind. Hard: several processes, one system call at a time, killed
  anywhere.
- **lifecycle**: a readiness line is a promise; any way out cleans up; exit
  statuses tell what happened. Hard: signals and failures at every step, and a loop
  that may be busy when they come.
- **wire, pair**: no byte sooner than the line can carry it, however idle the
  line was; each way goes on whatever the other does. Hard: instants that are
  planned ahead, pumps polled late, noise and failed writes in between.
- **RFC2217**: messages reach the peer whole, data reaches the port exact,
  settings reach each peer, and before the bytes typed after them; negotiation
  ends. Hard: two tasks that write behind one lock, a settings poll, reads cut
  anywhere, peers that come and go with settings half told.
- **sim presets**: what is answered does not depend on how input is cut; the
  screen shows the line that will be executed; the status a tool asks for is
  that of its command. Hard: state carried over cuts (CR LF, quotes, names).
- **sim exec**: the child's two streams are whole and do not wait for each
  other. Hard: three independent ends (stdin, stdout, the process).

The hazards behind these are listed one by one, with their lines, in
`PROJECT.json`.

## The modules

| Module | Models | Checked by | Proofs |
|---|---|---|---|
| `WireCells` | cells of a chunk, reads and short writes of kernel buffers (`wire.rs`, `pty.rs`) | through Mux, Bridge, Rfc2217, Sim, Pair | `WireCellsProofs` |
| `FanOut` | abstract: what mux promises of the device's stream | through Mux | |
| `Mux` | every task of `mux.rs` once announced | `MCMux` | `MuxProofs` |
| `Bridge` | `bridge_loop`, `drain_while_down`, `run_session`, `Peers::next` | `MCBridge` | `BridgeProofs` |
| `Telnet` | the RFC2217 decoder, negotiation, escaping, settings as commands (`rfc2217.rs`) | through Rfc2217 | `Rfc2217Proofs` |
| `Rfc2217` | `bridge_loop` and `run_session` with `--rfc2217`: offers, settings poll, both tasks, the lock | `MCRfc2217` | `Rfc2217Proofs` |
| `Console` | the preset devices: echo, line editing, modem, both shells (`sim.rs`) | through Sim | `SimProofs` |
| `Sim` | `preset_loop` and `exec_loop` with its two tasks once announced | `MCSim` | `SimProofs` |
| `Pair` | the two pumps of `pair.rs`, each with its wire: cursor, latency, jitter, noise | `MCPair` | `PairProofs` |
| `LinkClaim` | `Link::claim`, `try_claim_link`, `reclaim_if_stale`, `Drop` | `MCLinkClaim` | `LinkClaimProofs` |
| `Lifecycle` | `main` and the five `run` functions around their loops | `MCLifecycle` | `LifecycleProofs` |

An action is the code from one await (or one system call that another process
can see around) to the next. `PROJECT.json`, "map", gives the lines of each.

**Mux.** `Spawn` is the stretch of `run` that creates channels and tasks with no
await, so all receivers subscribe before the device is read. `DeviceReader`
publishes a read in `window`, the ring of the tokio broadcast channel; `cursor`
is a receiver's position and `Oldest` the first read retained. `Receive` and
`Lagged` are the two results of `rx.recv()`; `PortWrite` is one `write(2)` of
`deliver`. `FromConsumer` and `SendCell` are `from_consumer`'s read and its
awaited `send`, one cell at a time; `DeviceWriter` and `DeviceWrite` the drain
into the device. `stream`, `got`, `told`, `spilt`, `cut` are history. A read or
write error is either given up by the code (then a fault action) or retried
without effect (then not a step).

**Bridge.** `loop` is where `bridge_loop` stands: in `peers.next`, joining the
aborted drain, or in a session. A dial always waits, so its drain runs; an
accept may be ready at its first poll, before the drain has run. `up` and
`down` are the two session tasks; either one's end aborts the other.
The consumer's bytes carry the session they were typed in.

**Rfc2217, Telnet.** `Decode` folds `DecodeByte` over a read; the decoder's
state (`telnet`) is carried from read to read, and where in a subnegotiation it
is but not what it holds, which the code only logs. An octet of the connection
stands for its message and how many octets of it are to come, so a spliced
message is visible. `UpReads`, `UpSyncs`, `UpLocks`, `UpWrites` are the arm of
`select!` that read the port: the read, `sync_settings` (which runs without an
await behind the read, so `DownReads` may not come in between), the lock and
the writes behind it, one short write at a time; `PollTick` is the ticker's arm,
a step only when it finds something to relay. `DownReads` decodes; the replies go
out behind the same lock and then the data goes to the port. The peer acts too:
`PeerSays` is what it says of its own accord (from RFC 1143, it asks again only
when the last word has settled), and it answers every command about the options
in `Acknowledged`. A peer is dialled, and `DrainReads` stands for the drain:
`Bridge` has both in detail. `pristine` is the port's configuration when the loop
first runs, from which every session diffs. The port has its path before that, so
a consumer may set it first: then `pristine` is that setting and no peer is told of
it, against the comment at `bridge.rs:146-148` (run `rfc2217_early`). `FarEnd(before)`
is the far end's line if it stood at `before`: `ChangesArrive` and
`TypedAfterSettings` take `pristine`, what the code diffs from, and
`EverythingTold` the freshly forged port, what the comment promises; where nobody
sets the port that early the two are the same. That `port.termios()` returns
nothing (`bridge.rs:150`, `392-394`) is left out: the forge keeps the slave open.

**Sim, Console.** `Feed` folds `FeedByte` over the bytes of one cell: echo, line
editing, CR and LF, Ctrl-C, and on a line's end the modem's answer or the shell's
commands, split, expanded and run with the status of the one before. A text of an
answer is one token. `PresetFeeds` answers one cell before the next is fed, as
the loop does; a panic of the modem on a character that is not ASCII
(`sim.rs:358`) leaves the loop "dead". Of exec, `ToChild*` and `FromChild*` are
the steps of the two tasks, `ChildReaped` the `wait` that aborts both. The child
reads, writes, closes either stream and ends as it likes.

**Pair.** An instant is kept as how far away it is, so `Tick` moves everything
and the past is forgotten beyond `Horizon`. `PumpReads` is a read with
`Wire::plan`: it gives every cell its due time and moves `cursor`, the line's
time. `PumpWrites` is one `write(2)` of the head cell once due, `PumpFails` the
write error that drops the plan. Noise may eat any of the bytes read.

**LinkClaim.** Each action is one system call or the `kill(pid, 0)` probe.
`fs::write` is two, create and fill, and a crash may fall between them. `Others`
are processes of another user, whose files in a sticky directory nobody else
removes. `Overlap` says whether two claims may be under way at once.

**Lifecycle.** `step` follows the order of the code: checks, device, ports and
paths, TCP bind, the two handlers, the announcement, the loop, the drops. An
early return goes to `drop` with its tag, as `?` does. Only the preset loop can
be busy (`deliver`) when a signal comes; the others' loops only select.

## The runs

| Run | Shows |
|---|---|
| `mux` | order, wholeness, announced loss, no stall, service of attentive consumers, refinement of FanOut |
| `bridge` | one reader, no replay, peers heard in turn, dropped peers noticed, writers never stuck, next peer served |
| `link` | live links kept, dead ones reclaimed, clean exits, claims end |
| `link_race` (violation) | two claims at once: a live link is removed |
| `lifecycle` | readiness, cleanup, a program's status passed on, signals, a preset that keeps listening |
| `lifecycle_sigterm` (violation) | a preset stuck on its answer ignores SIGTERM |
| `lifecycle_exit` (violation) | the README's list of exit codes: a program that cannot be started exits 3 after the readiness line |
| `rfc2217` | whole messages, exact data, settings before the bytes after them, every change since the loop looked told to every peer, negotiation that ends |
| `rfc2217_early` (violation) | what a consumer set before the loop first looked is told to no peer |
| `sim` | transcripts that no cut changes, the screen and the line agree, the marker carries the status, the child is heard while its stdin is stuck |
| `sim_tail` (violation) | what a program wrote just before it ended is dropped |
| `pair` | no byte early, bytes in order and complete but for noise and failed writes |

Each violation run checks one sentence of the documentation, quoted in
`PROJECT.json` "findings". The passing runs check what does hold, and where a
property has to leave such a case out its comment says so.

More configurations show where the code falls short of its documentation, each by
the violation of one property; they are run by hand, `tlc -config <cfg> <module>`:

| Configuration | Fails | Shows |
|---|---|---|
| `MCLifecycleCrash.cfg` (`MCLifecycle`) | `ZeroMeansClean` | the second part of `lifecycle_exit`: a program killed by a signal, exit 0 (`sim.rs:266`), against README:52 |
| `MCLifecyclePanic.cfg` (`MCLifecycle`) | `OnlyListedCodes` | its third: `--baud-sim 0`, exit 101 after the readiness line (`wire.rs:104`) |
| `MCMuxThrottled.cfg` (`MCMux`) | `WritesArriveWhole` | with `--baud-sim` a write is cut by another consumer's cell (`mux.rs:210`), against `tests/mux.rs:176-178` |
| `MCBridgeStale.cfg` (`MCBridge`) | `NoStaleKeys` | a peer that waited is greeted with its predecessor's backlog: accept is ready before the drain was polled (`bridge.rs:157`), against `bridge.rs:411-413` |
| `MCBridgeDeaf.cfg` (`MCBridge`) | `DroppedPeerNoticed` | with a consumer that stops reading, the task blocked on the port does not see the peer close (`bridge.rs:217`), against `bridge.rs:18-21` |
| `MCLinkSpin.cfg` (`MCLinkClaim`) | `ClaimEnds` | a stale link of another user: `remove_file`'s result is ignored and the claim retries for ever (`pty.rs:388`), against `pty.rs:407` |

Bounds. `mux`: two consumers, one of which never reads, a ring of two reads, a
queue of one chunk, buffers of two bytes, up to four bytes received or two
writes of two bytes each within a joint traffic bound, one fault: the ring
laps, the queue fills, writes are short, and both directions are busy together.
`bridge`: two connections, three bytes in all, cells of one byte, so a session
ends with bytes read and not written; two peers are enough for every
cross-session property, which all speak of a pair. `link`: three processes, two
paths, two crashes: a holder, a claimer and a former holder at one path.
`lifecycle`: all forges, three mux ports, two signals, an answer longer than
the port's buffer. `rfc2217`: two peers, two settings one of which may be taken
back, two bytes typed (0xFF, which is escaped into two octets) and two sayings,
three of all these together; buffers of two and reads of one or two bytes, so
every message and every escape is cut somewhere: two peers are what
relaying to a late one needs, and a setting, a byte and a saying what any two
tasks can be busy with at once. `sim`: every edit of four keys (a letter, CR, LF,
backspace) and scripts for each thing a shell or the modem does, typed through
buffers of three and cells of two bytes, so each script is cut in every place; a
child that gets five bytes and writes three, more than one buffer. `pair`:
two ticks of line time per byte, a latency of one, jitter of nought or one, three
bytes a side and four in all, one stalled side; `Horizon` 7 is the line time of
three bytes and the latency. Bytes are numbered where order and loss have to be
visible without contents. Noise is on in `pair` only, where it eats bytes.

Deadlock checking is off in every run: what the environment does is bounded and
a forge with nothing to do waits, or the processes have ended.

## Fairness

- Tasks: weak fairness per task. tokio polls every woken task.
- `SendCell`: strong fairness. The mpsc channel's permits are handed out in the
  order they were asked for, so a sender cannot be overtaken for ever.
- A process: weak fairness of its own steps, not of failures. No fairness for
  signals, crashes, peers, typing, or the start of another process.
- Consumers: weak fairness of reading only for those said to be attentive.
- RFC2217: weak fairness of the loop, of each session task (the ticker ticks)
  and of a peer's reading while it is there. A peer that stops reading while it
  waits to write can deadlock with the task that owes it a reply; the code has
  no answer to that and the model leaves such peers out. Nobody promises a peer,
  a reading consumer, or that anything is said.
- Exec: weak fairness of the two tasks, of `deliver` and of `wait`; none of the
  child. Pair: weak fairness of time and of each pump, a task of its own.
- `select!` picks at random among what is ready; with bounded typing the loop
  comes back to a moment when only the signal is.

## The proofs

All theorems hold for any set of consumers, peers or processes and all bounds; the
only assumptions are the named `ASSUME`s of the modules: sizes are at least
one, an "absent" value is not a process, `SayingsAssumption` of `Rfc2217`, and
`ScriptsAssumption` of `Sim` (what is typed are bytes, not texts of answers). Five
theorems have hypotheses of their own, given below, without which what they state is
false: `LinkKept`, `DocumentedWithoutProgram`, `LineRateKept`, `WritesWhole` and
`MarkerHeard`.

Many of these properties say that streams are whole, and streams are made of
chunks and cells of any number, so they rest on induction over data. The
library's induction theorems take an operator, which the provers here cannot
instantiate; `WireCellsProofs` therefore states induction with sets (`NatSet`: a
set of naturals that holds 0 and successors is `Nat`; `SeqSet`: likewise for
sequences and `Append`), and a proof defines the set of cases that hold.

- `WireCellsProofs`: a read splits a buffer, a write splits what is to be
  written, and cells hold only bytes of their chunk (`CellsType`). `FlatConcat`:
  flattening distributes over concatenation, for the library's `FlattenSeq`, a
  recursive function. `CellsWhole`: the cells of a chunk one after the other are
  the chunk. `CellsWritten`, `CellsTaken`: a short write moves what it took to
  the buffer and nothing else, so bytes delivered, waiting and planned stay
  the same stream. Also `Kept`, the elements of a sequence that are in a set.
- `MuxProofs`. `TypeCorrect`: types and capacities (`Bounded`). `Retention`:
  the ring holds exactly the newest `Least(tail, Backlog)` reads of the stream
  and no cursor is past the end; it is inductive together with the types.
  `FanOutKept`: Mux implements `FanOut` with `cursor` as the consumer's place.
  `Retained` is what that needs: a receive from the ring is then a receive
  from the stream, and `Lagged` skips exactly what left the ring.
  `NothingLostSilently` carries `Accounted` over. The streams: `OneReader`
  (`DeviceStreamIntact`: published and unread is what the device sent);
  `CopiesWhole` (`CopyInOrder`), whose invariant `CopyInv` has what is
  heard, in the port and planned make up the reads handed over but for the bytes
  spilt by failed writes; `TypedKept`
  (`TypedInOrder`), where `TypedInv` keeps each consumer's bytes apart in the
  queue they share, since that is all that interleaving leaves of the order.
  `WritesWhole` (`WritesArriveWhole`) adds that a consumer's write is not mixed with
  another's, where a read takes all a port holds and no baud cuts it into cells; that
  is the code without `--baud-sim`, and with it it is false (`MCMuxThrottled.cfg`).
  `WholeInv` says so of the whole way (`Pipe`: device, buffer, writer's hands, queue),
  of each consumer's chunk and of its port; a read takes whole writes since it
  empties the port.
- `LinkClaimProofs`. `CleanExit` follows from `Traces`: wherever a process's
  name is on disk, the process is dead or holds that path. `LinkKept` assumes
  that claims do not overlap, without which it is false (`link_race`). Its
  invariant: one claimer; a holder's sidecar names it or nobody; a claimer
  probing a held path has read the holder's pid; nothing about to be removed
  is held. `LiveLinkKept` alone is not inductive: a claimer already past its
  probe could remove any link.
- `LifecycleProofs`. `ReadinessIsAPromise` follows from `Owned`, which says
  from which step on both handlers and all paths are there. `ExitsClean` is
  inductive as it stands. `TypeCorrect` rules out a path claimed before its port.
  `ExitStatusTold` (`ExitStatusTells`) needs `ResultTold`: which way out a step
  stands on is fixed when it is taken, before the drops that delay it; and
  `HalfwayTold`: with only some of its ports a forge has one way out. Of what the
  README says of 0 and 3, `DocumentedWithoutProgram` proves what is true: it holds of
  every forge that runs no device program (its hypothesis), and only of those
  (`lifecycle_exit`).
- `BridgeProofs`. `Turns` says who may read the port: the drain only while a
  dial is under way, a session's task only in its session, so never both; it is
  part of `TypeCorrect`. `UpInv` says where the bytes typed are (sent to peer k,
  in the hands of its task, in the port) and that these are pieces of one run,
  in the order of the sessions: from it `NothingMissing` (`NoHoles`) and
  `NothingReplayed` (`NoReplay`). `DownInv` is the same of the other way,
  for `PeersHeardInTurn`.
- `PairProofs`. `LineRateKept`: for every byte time, latency, jitter, cell and
  buffer size a byte reaches the far port only when the line has had time for it
  and all read before it, and the latency has passed. It assumes
  only `Reach`: the `Horizon` beyond which ages are not told apart is
  no shorter than the line time of all that may be typed. `LineRate` speaks of a
  write; its invariant `TimingInv` says of every byte in a planned cell that its
  age and the time the cell has still to wait make up that line time (`Ripe`),
  and, for what will be planned next, the same of the moment the line is free
  (`LineSpent`); `Numbered` ties the n-th byte typed to its age. A tick keeps
  both because `cursor` never falls below now for those who plan from it: the
  line that banks its idle time is the mutant of `LineFree`. Noise is covered by
  `ThinnedCut`: what it leaves of a plan is cut from the plan (`CutFrom`), each byte
  due when it was, and so is what a short write leaves.
  `OrderKept` (`NothingOvertakes`) needs no `Reach`: `FlowInv` is the property
  itself with types and with "only bytes that were typed are lost". Noise is
  `ThinnedBytes` (thinning a plan cell by cell is thinning its bytes),
  `KeptThinner` (what is eaten in the middle of a stream in which nothing comes twice
  leaves both ends as they were) and, for failed writes, its special case `KeptLess`.
- `Rfc2217Proofs`. `CutsUnnoticed`: decoding two reads one after the other gives
  the data, the state and the answers that decoding them as one gives, for any octets
  and any cut. `EscapeTransparent`: data escaped is found exactly, and draws no answer.
  `AnswersAlternate`: whatever bytes come, the answers about an option the client knows
  alternate, from the opposite of what was agreed to what is agreed in the end. All
  three are inductions over the bytes, on what one byte adds (`ByteAdds`,
  `ByteAnswers`). `PortGets`
  (`PortGetsData`) follows with `StillDecodes` (what is still to be decoded,
  from the decoder's state, is the data still owed to the port), given
  `SayingsAssumption`: a peer says whole commands, so a decoder that reads data
  before a saying reads data after it. That is met by escaped data, commands,
  subnegotiations and any of these in a row (`SayingsAreTelnet`).
  `WholeMessages` (`MessagesWhole`) needs `WorkWhole` and `StreamWhole`: a task that holds the lock writes the rest
  of the message it began, the other writes nothing meanwhile (`Turns`), and a
  message begins only where one ended. `TypedAfter` (`TypedAfterSettings`)
  rests on `KeysSince` (no byte in the port is older than the settings last
  synced when it was read), `FarFollows` (what the peer's line will be set to
  once it has read all that is on its way is what was relayed last, had it stood as
  the loop first found the port) and
  `HeardAfter` (so for each byte it has read); the latter two are `FollowsAlways`.
- `SimProofs`. A preset's code is loops over bytes, characters, commands and
  words, in the model folds; `FoldSteps` (by `SeqSet`, from the definition of the
  library's fold) gives each of them its one step. `FeedSplits`: input to a preset
  may be cut anywhere. Its argument is that what was answered before makes no
  difference to what is answered next (`Same`, or `Alike` while the line may
  differ), for every operator from `FeedByte` down to `PrintVar`. `StreamsWhole`
  (`PortStreams`): for presets by `Answering`, which says that the device, fed with
  what waits in cells and port, ends as one fed with all that was typed (`Agree`),
  and is a property that typing, reading, feeding and short writes keep; for exec
  `ExecStreams` is inductive as it stands. `ScreenIsLine` (`ScreenShowsLine`): each
  byte changes screen and line alike (`FeedByteShows`), since a rubbed-out column
  always was a character of the line and every answer ends with a prompt or a line
  end. All need `Typed`, the types with the kinds of device each backend has.
  `StatusTold`: a line typed at a waiting shell with the marker after it is answered
  as it is without, and then with the status it would have left. A plain line is run
  once, by its CR (`LineRuns`); the marker adds the commands `echo` and `echo $?` to
  those the line is split into, since its quotes are closed, and splitting, running
  and printing are folds that go on where they were. `MarkerHeard`
  (`MarkerTellsStatus`) carries that to what is heard at the port, by `Agree` of
  `Answering`: what was answered so far is what a start of the typed line
  answers, and only the whole line holds the marker's letter in an answer. It is about
  scripts that are `Marked`: a plain shell command with closed quotes, the marker
  after it, the letter of the marker neither in the command nor in its answer.
  That is every wrapped script of `MCSim` but one, which rubs out a letter. Both
  theorems assume that the texts the marker is made of are keys (`Markers \cup
  {";", "CR"} \subseteq Key`): true by definition, but no prover here shows that a
  literal is a string.

Every safety property of the passing runs is stated by a theorem. Model-checked only
is liveness under fairness, which is out of this prover's reach, as is `ENABLED`, so
nothing is proved about steps that must be possible. `MarkerHeard` leaves out the one
script above, and `LinkKept` the overlapping claims of `link_race`.

## Not modelled, and the plan

Planned, in this order:

1. `Termios`: what the watchdog of `pty.rs` restores, in raw and RFC2217 mode.
2. Throughput of `pump`: latency is paid once per read, since the next read waits
   for the last due instant, so a wire with latency carries less than its rate.
   `LineRate` bounds from below only.

Left out for good: argument parsing, messages and JSON layout, the RNG behind
line noise and its seed (any byte may be eaten; that a byte may be flipped has no
effect on what is checked), the parsers of durations and probabilities, the
tables of baud constants, individual openpty and tcsetattr calls, the contents of
subnegotiations, build files and scripts. Settings refused once are not relayed
again in that session even if the peer changes its mind in a later read, as in
the code; an unknown option is refused each time, so a peer that answers
refusals would make `NegotiationEnds` false and is left out by `Acknowledged`. Pids are never reused in LinkClaim, and a TCP
peer that vanishes without a trace is not a step of Bridge: the code sets no
keepalive, so an idle session with such a peer never ends.
