------------------------------- MODULE Bridge -------------------------------
(***************************************************************************)
(* `ttyforge bridge` over a raw TCP stream (src/src/forge/bridge.rs): the   *)
(* loop that serves one peer after another while the port stays up, the    *)
(* task that empties the port while no peer is there, and the two tasks of *)
(* a session, one per direction.  All run on one thread and interleave at  *)
(* their awaits.  The consumer, the peers and the kernel's buffers are the *)
(* environment.  A failed connect or accept is retried and changes nothing *)
(* here, so it is not a step.                                              *)
(***************************************************************************)
EXTENDS WireCells

CONSTANTS Modes,      \* endpoints explored: "listen", "dial"
          Attentive,  \* TRUE when the consumer keeps draining its port
          MaxPeers, MaxTyped, MaxSent, MaxTraffic, MaxFaults  \* bounds:
                      \* connections, bytes typed, bytes one peer sends, all
                      \* bytes together, failed port writes

ASSUME BridgeAssumption == /\ Modes \subseteq {"listen", "dial"}
                           /\ Attentive \in BOOLEAN
                           /\ MaxPeers \in Nat \ {0}

Peers == 1..MaxPeers   \* peer k is the k-th connection, so also session k

VARIABLES
  mode,            \* which kind of endpoint this bridge has
  loop,            \* bridge_loop: "next" (in peers.next), "joining" the
                   \* aborted drain, "session"
  drain,           \* drain_while_down: "none", "spawned", "running", "aborted"
  session,         \* sessions started so far
  conn,            \* conn[k]: "absent", "queued", "served" or "over"
  life,            \* what the peer's end is: "open", "half" closed, "gone"
  inbox, outbox,   \* a connection's kernel buffers, from and to the peer
  up, upcells,     \* port-to-peer task and the cells it still has to write
  down, downcells, \* peer-to-port task and the cells it still has to write
  keys, pty,       \* the port's kernel buffers, from and to the consumer
  faults,
  typed, sent,     \* history: bytes typed, bytes each peer has sent,
  heard, served    \* what the consumer read, what each peer read

wire  == <<up, upcells, down, downcells>>
peers == <<conn, life, inbox, outbox, sent, served>>
port  == <<keys, pty, typed, heard>>
vars  == <<mode, loop, drain, session, wire, peers, port, faults>>

Traffic == typed + FoldFunction(+, 0, sent)
Byte(from, n) == [from |-> from, n |-> n]

Init == /\ mode \in Modes
        /\ loop = "next" /\ drain = "spawned" /\ session = 0
        /\ conn = [k \in Peers |-> "absent"] /\ life = [k \in Peers |-> "open"]
        /\ inbox = [k \in Peers |-> << >>] /\ outbox = [k \in Peers |-> << >>]
        /\ up = "none" /\ upcells = << >>
        /\ down = "none" /\ downcells = << >>
        /\ keys = << >> /\ pty = << >>
        /\ faults = 0 /\ typed = 0 /\ sent = [k \in Peers |-> 0]
        /\ heard = << >> /\ served = [k \in Peers |-> << >>]

-----------------------------------------------------------------------------
(* The loop: drain, next peer, session, again.                             *)

DrainStarts == /\ drain = "spawned"
               /\ drain' = "running"
               /\ UNCHANGED <<mode, loop, session, wire, peers, port, faults>>

\* Mutant of DrainReads: the drain stops after one read.
DrainReadsOnce == /\ drain = "running"
                  /\ keys # << >>
                  /\ keys' = LeftBy(keys)
                  /\ drain' = "none"
                  /\ UNCHANGED <<mode, loop, session, wire, peers, pty, typed,
                                 heard, faults>>

\* What is typed while no peer is there goes nowhere.
DrainReads == /\ drain = "running"
              /\ keys # << >>
              /\ keys' = << >>
              /\ UNCHANGED <<mode, loop, drain, session, wire, peers, pty, typed,
                             heard, faults>>

\* Mutant of NextPeer: only a peer that is still there is taken.
NextPeerAlive(k) == /\ loop = "next"
                    /\ conn[k] = "queued" /\ \A j \in 1..(k - 1) : conn[j] = "over"
                    /\ life[k] = "open"
                    /\ mode = "dial" => drain = "running"
                    /\ conn' = [conn EXCEPT ![k] = "served"]
                    /\ drain' = "aborted" /\ loop' = "joining"
                    /\ UNCHANGED <<mode, session, wire, life, inbox, outbox, sent,
                                   served, port, faults>>

\* peers.next returns.  An accept may be ready the first time it is polled, so
\* before the drain has run at all; a connect always waits, and the drain runs.
NextPeer(k) == /\ loop = "next"
               /\ conn[k] = "queued" /\ \A j \in 1..(k - 1) : conn[j] = "over"
               /\ mode = "dial" => drain = "running"
               /\ conn' = [conn EXCEPT ![k] = "served"]
               /\ drain' = "aborted" /\ loop' = "joining"
               /\ UNCHANGED <<mode, session, wire, life, inbox, outbox, sent,
                              served, port, faults>>

\* Mutant of StartSession: the drain is left running beside the session.
StartSessionBesideDrain == /\ loop = "joining"
                           /\ drain' = "running" /\ loop' = "session"
                           /\ session' = session + 1
                           /\ up' = "running" /\ down' = "running"
                           /\ UNCHANGED <<mode, upcells, downcells, peers, port,
                                          faults>>

\* drain.await has returned: nobody else reads the port, the session may.
StartSession == /\ loop = "joining"
                /\ drain' = "none" /\ loop' = "session"
                /\ session' = session + 1
                /\ up' = "running" /\ down' = "running"
                /\ UNCHANGED <<mode, upcells, downcells, peers, port, faults>>

\* Either direction ended: the other is aborted and joined, the socket closed,
\* and a new drain spawned.  What either still had to write is gone.
EndSession == /\ loop = "session"
              /\ up = "ended" \/ down = "ended"
              /\ up' = "none" /\ upcells' = << >>
              /\ down' = "none" /\ downcells' = << >>
              /\ conn' = [conn EXCEPT ![session] = "over"]
              /\ loop' = "next" /\ drain' = "spawned"
              /\ UNCHANGED <<mode, session, life, inbox, outbox, sent, served,
                             port, faults>>

-----------------------------------------------------------------------------
(* Port to peer.                                                           *)

\* Mutant of UpReads: what is read stays in the port's buffer.
UpReadsPeek == /\ up = "running" /\ upcells = << >>
               /\ keys # << >>
               /\ upcells' = Cells(ReadOf(keys))
               /\ UNCHANGED <<mode, loop, drain, session, up, down, downcells,
                              peers, port, faults>>

UpReads == /\ up = "running" /\ upcells = << >>
           /\ keys # << >>
           /\ upcells' = Cells(ReadOf(keys))
           /\ keys' = LeftBy(keys)
           /\ UNCHANGED <<mode, loop, drain, session, up, down, downcells, peers,
                          pty, typed, heard, faults>>

\* The kernel may still take bytes for a peer that is gone.
UpWrites == /\ up = "running" /\ upcells # << >>
            /\ Room(outbox[session]) > 0
            /\ outbox' = [outbox EXCEPT ![session] = Filled(@, Head(upcells))]
            /\ upcells' = CellsLeft(upcells, outbox[session])
            /\ UNCHANGED <<mode, loop, drain, session, up, down, downcells, conn,
                           life, inbox, sent, served, port, faults>>

UpFails == /\ up = "running" /\ upcells # << >>
           /\ life[session] = "gone"
           /\ up' = "ended" /\ upcells' = << >>
           /\ UNCHANGED <<mode, loop, drain, session, down, downcells, peers,
                          port, faults>>

-----------------------------------------------------------------------------
(* Peer to port.                                                           *)

DownReads == /\ down = "running" /\ downcells = << >>
             /\ inbox[session] # << >>
             /\ downcells' = Cells(ReadOf(inbox[session]))
             /\ inbox' = [inbox EXCEPT ![session] = LeftBy(@)]
             /\ UNCHANGED <<mode, loop, drain, session, up, upcells, down, conn,
                            life, outbox, sent, served, port, faults>>

\* Mutant of DownEnds: only a reset connection ends the session.
DownEndsOnReset == /\ down = "running" /\ downcells = << >>
                   /\ life[session] = "gone"
                   /\ down' = "ended"
                   /\ UNCHANGED <<mode, loop, drain, session, up, upcells,
                                  downcells, peers, port, faults>>

\* The end of the peer's stream, or the reset of a connection that is gone.
DownEnds == /\ down = "running" /\ downcells = << >>
            /\ \/ inbox[session] = << >> /\ life[session] # "open"
               \/ life[session] = "gone"
            /\ down' = "ended"
            /\ UNCHANGED <<mode, loop, drain, session, up, upcells, downcells,
                           peers, port, faults>>

DownWrites == /\ down = "running" /\ downcells # << >>
              /\ Room(pty) > 0
              /\ pty' = Filled(pty, Head(downcells))
              /\ downcells' = CellsLeft(downcells, pty)
              /\ UNCHANGED <<mode, loop, drain, session, up, upcells, down, peers,
                             keys, typed, heard, faults>>

\* Mutant of DownFails: the rest of the chunk is dropped, the session goes on.
DownFailsOn == /\ down = "running" /\ downcells # << >>
               /\ faults < MaxFaults
               /\ faults' = faults + 1
               /\ downcells' = << >>
               /\ UNCHANGED <<mode, loop, drain, session, up, upcells, down, peers,
                              port>>

DownFails == /\ down = "running" /\ downcells # << >>
             /\ faults < MaxFaults
             /\ faults' = faults + 1
             /\ down' = "ended" /\ downcells' = << >>
             /\ UNCHANGED <<mode, loop, drain, session, up, upcells, peers, port>>

-----------------------------------------------------------------------------
(* The consumer and the peers.                                             *)

ConsumerTypes == /\ typed < MaxTyped /\ Traffic < MaxTraffic
                 /\ Room(keys) > 0
                 /\ typed' = typed + 1
                 /\ keys' = Append(keys, Byte(IF loop = "session" THEN session ELSE 0,
                                              typed + 1))
                 /\ UNCHANGED <<mode, loop, drain, session, wire, peers, pty,
                                heard, faults>>

ConsumerReads == /\ pty # << >>
                 /\ heard' = heard \o pty
                 /\ pty' = << >>
                 /\ UNCHANGED <<mode, loop, drain, session, wire, peers, keys,
                                typed, faults>>

\* A peer's connection waits in the listen queue; for a dialling bridge, the
\* far end would now answer.
PeerConnects(k) == /\ conn[k] = "absent"
                   /\ \A j \in 1..(k - 1) : conn[j] # "absent"
                   /\ conn' = [conn EXCEPT ![k] = "queued"]
                   /\ UNCHANGED <<mode, loop, drain, session, wire, life, inbox,
                                  outbox, sent, served, port, faults>>

Connected(k) == conn[k] = "served" \/ (conn[k] = "queued" /\ mode = "listen")

PeerSends(k) == /\ Connected(k) /\ life[k] = "open"
                /\ sent[k] < MaxSent /\ Traffic < MaxTraffic
                /\ Room(inbox[k]) > 0
                /\ sent' = [sent EXCEPT ![k] = @ + 1]
                /\ inbox' = [inbox EXCEPT ![k] = Append(@, Byte(k, sent[k] + 1))]
                /\ UNCHANGED <<mode, loop, drain, session, wire, conn, life,
                               outbox, served, port, faults>>

PeerReads(k) == /\ life[k] # "gone" /\ outbox[k] # << >>
                /\ served' = [served EXCEPT ![k] = @ \o outbox[k]]
                /\ outbox' = [outbox EXCEPT ![k] = << >>]
                /\ UNCHANGED <<mode, loop, drain, session, wire, conn, life,
                               inbox, sent, port, faults>>

PeerLeaves(k) == /\ Connected(k) /\ life[k] # "gone"
                 /\ \E how \in {"half", "gone"} \ {life[k]} :
                      life' = [life EXCEPT ![k] = how]
                 /\ UNCHANGED <<mode, loop, drain, session, wire, conn, inbox,
                                outbox, sent, served, port, faults>>

-----------------------------------------------------------------------------
Drain == DrainStarts \/ DrainReads
Up    == UpReads \/ UpWrites \/ UpFails
Down  == DownReads \/ DownEnds \/ DownWrites

Next == \/ Drain \/ StartSession \/ EndSession
        \/ Up \/ Down \/ DownFails
        \/ ConsumerTypes \/ ConsumerReads
        \/ \E k \in Peers : \/ NextPeer(k)
                            \/ PeerConnects(k) \/ PeerSends(k)
                            \/ PeerReads(k) \/ PeerLeaves(k)

Spec == Init /\ [][Next]_vars

\* Woken tasks are polled.  Nobody promises that a peer connects, sends, reads
\* or leaves, nor that the consumer types; it reads when Attentive.
Fairness == /\ WF_vars(Drain) /\ WF_vars(StartSession) /\ WF_vars(EndSession)
            /\ WF_vars(\E k \in Peers : NextPeer(k))
            /\ WF_vars(Up) /\ WF_vars(Down)
            /\ Attentive => WF_vars(ConsumerReads)

LiveSpec == Spec /\ Fairness

-----------------------------------------------------------------------------
PortByte == [from : 0..MaxPeers, n : Nat]

TypeOK ==
  /\ mode \in Modes
  /\ loop \in {"next", "joining", "session"}
  /\ drain \in {"none", "spawned", "running", "aborted"}
  /\ session \in 0..MaxPeers
  /\ conn \in [Peers -> {"absent", "queued", "served", "over"}]
  /\ life \in [Peers -> {"open", "half", "gone"}]
  /\ up \in {"none", "running", "ended"} /\ down \in {"none", "running", "ended"}
  /\ loop = "session" <=> drain = "none"   \* one reader of the port, always
  /\ loop = "session" <=> up # "none" /\ down # "none"
  /\ inbox \in [Peers -> Seq(PortByte)] /\ outbox \in [Peers -> Seq(PortByte)]
  /\ \A k \in Peers : Len(inbox[k]) <= PtyBuf /\ Len(outbox[k]) <= PtyBuf
  /\ keys \in Seq(PortByte) /\ Len(keys) <= PtyBuf
  /\ pty \in Seq(PortByte) /\ Len(pty) <= PtyBuf
  /\ upcells \in Seq(Seq(PortByte)) /\ downcells \in Seq(Seq(PortByte))
  /\ faults \in Nat /\ typed \in Nat /\ sent \in [Peers -> Nat]
  /\ heard \in Seq(PortByte) /\ served \in [Peers -> Seq(PortByte)]
=============================================================================
