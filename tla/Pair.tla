-------------------------------- MODULE Pair --------------------------------
(***************************************************************************)
(* `ttyforge pair` once announced (src/src/forge/pair.rs): two ports and,   *)
(* each way, a pump through a wire with a line rate, a latency and a jitter *)
(* (src/src/forge/wire.rs).  Time is counted from now: an instant is how    *)
(* long it is until then, so it changes with every tick, and the past is    *)
(* forgotten beyond Horizon, which no property looks past.  A pump may be   *)
(* polled late.  Noise may eat bytes; a corrupted byte is the same byte here. *)
(***************************************************************************)
EXTENDS WireCells

CONSTANTS ByteTime,   \* line time of a byte; 0 when no baud is simulated
          Latency,
          Jitters,    \* what a jitter sample may be
          Noisy,      \* TRUE when noise may eat bytes
          Attentive,  \* sides whose consumer keeps reading
          Horizon, MaxTyped, MaxTraffic  \* bounds

ASSUME PairAssumption == /\ ByteTime \in Nat /\ Latency \in Nat /\ Noisy \in BOOLEAN
                         /\ Jitters \subseteq Nat /\ Jitters # {}
                         /\ Horizon \in Nat /\ MaxTyped \in Nat

Sides == {"a", "b"}
Other(s) == IF s = "a" THEN "b" ELSE "a"

\* The bytes of a plan, cell by cell.
DataOf(plan) == [i \in DOMAIN plan |-> plan[i].data]

Latest(a, b) == IF a < b THEN b ELSE a

VARIABLES
  keys, pty,   \* each port's kernel buffers, from and to its consumer
  cells,       \* cells[s]: what the pump that reads port s has still to write,
               \* each with the time until it is due
  cursor,      \* cursor[s]: time until that line has sent all it was given
  age,         \* history: how long ago each byte was read from port s
  typed,       \* bytes typed at s so far; the n-th is the number n
  heard, lost  \* history: what s's consumer read; what noise ate and failed writes dropped

vars == <<keys, pty, cells, cursor, age, typed, heard, lost>>

Init == /\ keys = [s \in Sides |-> << >>] /\ pty = [s \in Sides |-> << >>]
        /\ cells = [s \in Sides |-> << >>] /\ cursor = [s \in Sides |-> 0]
        /\ age = [s \in Sides |-> << >>] /\ typed = [s \in Sides |-> 0]
        /\ heard = [s \in Sides |-> << >>] /\ lost = [s \in Sides |-> {}]

\* Everything is a tick nearer, or longer ago.
Tick == /\ cursor' = [s \in Sides |-> Latest(cursor[s] - 1, -Horizon)]
        /\ cells'  = [s \in Sides |->
             [i \in DOMAIN cells[s] |-> [cells[s][i] EXCEPT !.due = Latest(@ - 1, 0)]]]
        /\ age'    = [s \in Sides |->
             [n \in DOMAIN age[s] |-> Least(age[s][n] + 1, Horizon)]]
        /\ UNCHANGED <<keys, pty, typed, heard, lost>>

-----------------------------------------------------------------------------
\* Wire::plan.  A cell is due when the line has sent the chunk up to its end, and
\* the latency after that.
Planned(from, chunk, jitter) ==
  LET cut == Cells(chunk)
  IN  [i \in DOMAIN cut |->
         [data |-> cut[i],
          due  |-> from + ByteTime * Least(i * CellBytes, Len(chunk)) + Latency + jitter]]

\* What noise leaves of a plan: eaten bytes keep their line time, and a cell that is
\* eaten whole is left out.
Thinned(plan, eaten) ==
  LET thin(c) == [c EXCEPT !.data = Kept(@, ToSet(@) \ eaten)]
      left == [i \in DOMAIN plan |-> thin(plan[i])]
  IN  Kept(left, {c \in ToSet(left) : c.data # << >>})

\* Mutant of LineFree: an idle line has saved up the time it was idle.
LineFreeBefore(s) == cursor[s]

\* An idle line banks no credit.
LineFree(s) == Latest(cursor[s], 0)

\* A read and what it plans.
Takes(s) ==
  /\ keys[s] # << >>
  /\ LET chunk == ReadOf(keys[s]) IN
       /\ \E jitter \in Jitters :
            LET plan == Planned(LineFree(s), chunk, jitter) IN
              \/ /\ cells' = [cells EXCEPT ![s] = plan]
                 /\ UNCHANGED lost
              \/ /\ Noisy
                 /\ \E eaten \in SUBSET ToSet(chunk) :
                      /\ cells' = [cells EXCEPT ![s] = Thinned(plan, eaten)]
                      /\ lost' = [lost EXCEPT ![s] = @ \cup eaten]
       /\ cursor' = [cursor EXCEPT ![s] = LineFree(s) + ByteTime * Len(chunk)]
       /\ age' = [age EXCEPT ![s] = @ \o [i \in DOMAIN chunk |-> 0]]
  /\ keys' = [keys EXCEPT ![s] = LeftBy(@)]
  /\ UNCHANGED <<pty, typed, heard>>

\* Mutants of PumpReads: one pump at a time has something on its way; a pump reads
\* while what it planned is still being written, and plans anew.
PumpReadsInTurn(s) == cells[s] = << >> /\ cells[Other(s)] = << >> /\ Takes(s)
PumpReadsOn(s) == Takes(s)

\* The pump reads again when all it planned is written.
PumpReads(s) == cells[s] = << >> /\ Takes(s)

Due(s) == cells[s] # << >> /\ Head(cells[s]).due = 0

\* One write of the head cell, once due; the rest of it follows at once.
PumpWrites(s) ==
  /\ Due(s) /\ Room(pty[Other(s)]) > 0
  /\ LET data == Head(cells[s]).data
         rest == Unwritten(data, pty[Other(s)])
     IN  /\ pty' = [pty EXCEPT ![Other(s)] = Filled(@, data)]
         /\ cells' = [cells EXCEPT ![s] =
              (IF rest = << >> THEN << >> ELSE <<[data |-> rest, due |-> 0]>>) \o Tail(@)]
  /\ UNCHANGED <<keys, cursor, age, typed, heard, lost>>

\* A failed write drops what was planned; the line time stays spent.
PumpFails(s) ==
  /\ Due(s)
  /\ lost' = [lost EXCEPT ![s] = @ \cup
                ToSet(Bytes(DataOf(cells[s])))]
  /\ cells' = [cells EXCEPT ![s] = << >>]
  /\ UNCHANGED <<keys, pty, cursor, age, typed, heard>>

-----------------------------------------------------------------------------
ConsumerTypes(s) ==
  /\ typed[s] < MaxTyped /\ typed["a"] + typed["b"] < MaxTraffic /\ Room(keys[s]) > 0
  /\ typed' = [typed EXCEPT ![s] = @ + 1]
  /\ keys' = [keys EXCEPT ![s] = Append(@, typed[s] + 1)]
  /\ UNCHANGED <<pty, cells, cursor, age, heard, lost>>

ConsumerReads(s) ==
  /\ pty[s] # << >>
  /\ heard' = [heard EXCEPT ![s] = @ \o pty[s]]
  /\ pty' = [pty EXCEPT ![s] = << >>]
  /\ UNCHANGED <<keys, cells, cursor, age, typed, lost>>

Pump(s) == PumpReads(s) \/ PumpWrites(s)

Next == \/ Tick
        \/ \E s \in Sides : \/ Pump(s) \/ PumpFails(s)
                            \/ ConsumerTypes(s) \/ ConsumerReads(s)

Spec == Init /\ [][Next]_vars

\* Time passes and each pump, a task of its own, is polled; consumers read only
\* on the attentive sides.
Fairness == /\ WF_vars(Tick)
            /\ \A s \in Sides : WF_vars(Pump(s))
            /\ \A s \in Attentive : WF_vars(ConsumerReads(s))

LiveSpec == Spec /\ Fairness

-----------------------------------------------------------------------------
\* "Backpressure, not reordering: ... nothing overtakes anything" (wire.rs:29-30): what
\* was heard at one end, has arrived there, is planned and waits to be read at the other
\* is what was typed at that one, in order and once each, without what noise ate and
\* failed writes dropped.
NothingOvertakes ==
  \A s \in Sides :
    heard[Other(s)] \o pty[Other(s)] \o Bytes(DataOf(cells[s])) \o keys[s]
      = Kept([n \in 1..typed[s] |-> n], (1..typed[s]) \ lost[s])

\* "A byte takes 10/baud seconds of line time", "an idle line doesn't bank
\* throughput" (wire.rs:22-26): a byte reaches the far port only when, since any
\* earlier byte was read, the line has had time for all from that one to this one,
\* eaten ones included ("noise-eaten bytes still crossed the wire", wire.rs:134), and the
\* latency has passed.
LineRate ==
  [][\A s \in Sides :
       \A n \in ToSet(pty'[Other(s)]) \ ToSet(pty[Other(s)]) :
         \A i \in 1..n : age[s][i] >= (n - i + 1) * ByteTime + Latency]_vars
=============================================================================
