------------------------------ MODULE Rfc2217 ------------------------------
(***************************************************************************)
(* `ttyforge bridge --rfc2217` (src/src/forge/bridge.rs): the loop over     *)
(* peers and, of a session, the task that reads the port and polls its      *)
(* settings and the task that decodes what the peer sends.  Both write to   *)
(* the peer, a whole message at a time behind one lock.  Module Bridge has  *)
(* the drain and the waiting peers in detail; here a peer is dialled and    *)
(* the drain empties the port.  The runtime has one thread.                 *)
(***************************************************************************)
EXTENDS WireCells, Telnet

CONSTANTS Nothing,     \* a value that is no setting
          Factory,     \* the termios of a freshly forged port
          Termioses,   \* the termios values a consumer sets
          KeyBytes,    \* bytes a consumer types
          Sayings,     \* what a peer says of its own accord: byte strings
          Acknowledged,\* options for which the peer answers every command
          MaxPeers, MaxChosen, MaxTyped, MaxSaid, MaxTraffic

Octet     == 0..255
Termios   == [speed : Nat, csize : Nat, parenb : BOOLEAN, parodd : BOOLEAN,
              cstopb : BOOLEAN, crtscts : BOOLEAN, ixon : BOOLEAN, ixoff : BOOLEAN]

ASSUME RfcAssumption == /\ MaxPeers \in Nat \ {0}
                        /\ Nothing \notin Nat /\ KeyBytes \subseteq Octet
                        /\ Factory \in Termios /\ Termioses \subseteq Termios

\* A peer says whole commands and data: a decoder that was reading data when a
\* saying began is reading data when it ends, having found what was meant.
ASSUME SayingsAssumption ==
  \A s \in Sayings :
    /\ s.bytes \in Seq(Octet) /\ s.data \in Seq(Octet)
    /\ \A cmd \in Verbs, agreed \in [Slots -> BOOLEAN] :
         LET said == Decode([state |-> "Data", cmd |-> cmd, agreed |-> agreed], s.bytes)
         IN  said.data = s.data /\ said.telnet.state = "Data"

NoOctet == [msg |-> [is |-> "none"], left |-> 0]

VARIABLES
  loop,            \* "spawned", "next" (dialling), "offer", "session"
  session,         \* connections so far
  chosen,          \* the port's termios, now and before: what was set, in order
  pristine, last,  \* settings as the loop found them; those last relayed
  telnet, com_ok,  \* the decoder; whether settings are still relayed
  lock,            \* who holds the writer: "free", "up", "down"
  up,              \* port-to-peer: "none", "select", "sync", "work", "ended"
  upread, upwork,  \* the cells read, then what is to be written under each lock
  down,            \* peer-to-port: "none", "running", "ended"
  reply, downcells,\* what it still has to answer, then to write
  keys, pty,       \* the port's kernel buffers, from and to the consumer
  inbox, outbox,   \* the connection's, from and to the peer
  life,            \* the peer: "open", "half" closed, "gone"
  typed, said,     \* how much was typed and said
  meant, delivered,\* history, of this session: data said, data written to the port
  heard, told      \* the last octet the peer has read, the settings it was told

port    == <<chosen, keys, pty, typed>>
upTask  == <<up, upread, upwork, last>>
downTask == <<down, reply, downcells, telnet, com_ok, delivered>>
peer    == <<life, heard, told, said, meant>>
loops   == <<loop, session, pristine>>
vars    == <<loops, port, upTask, downTask, lock, inbox, outbox, peer>>

Traffic == typed + said + Len(chosen) - 1
Config  == FromTermios(chosen[Len(chosen)])

\* An octet stands for its message and how many octets of that still follow.  A
\* data byte has the octets of its escaped form, other messages one or two.
Size(m) == CASE m.is = "data"  -> Len(Escape(<<m.byte>>))
             [] m.is = "offer" -> 1
             [] OTHER          -> 2
Octets(m)  == [i \in 1..Size(m) |-> [msg |-> m, left |-> Size(m) - i]]
Framed(ms) == FlattenSeq([i \in DOMAIN ms |-> Octets(ms[i])])

Reply(r) == [is |-> "reply", verb |-> r[1], opt |-> r[2]]

Init == /\ loop = "spawned" /\ session = 0
        /\ chosen = <<Factory>> /\ pristine = Nothing /\ last = Nothing
        /\ telnet = New /\ com_ok = TRUE /\ lock = "free"
        /\ up = "none" /\ upread = << >> /\ upwork = << >>
        /\ down = "none" /\ reply = << >> /\ downcells = << >>
        /\ keys = << >> /\ pty = << >> /\ inbox = << >> /\ outbox = << >>
        /\ life = "gone" /\ typed = 0 /\ said = 0
        /\ meant = << >> /\ delivered = << >>
        /\ heard = NoOctet /\ told = [f \in ToSet(Fields) |-> Nothing]

-----------------------------------------------------------------------------
(* The loop over peers.                                                    *)

TakePristine == /\ loop = "spawned"
                /\ loop' = "next" /\ pristine' = Config
                /\ UNCHANGED <<session, port, upTask, downTask, lock, inbox,
                               outbox, peer>>

DrainReads == /\ loop = "next" /\ keys # << >>
              /\ keys' = << >>
              /\ UNCHANGED <<loops, chosen, pty, typed, upTask, downTask, lock,
                             inbox, outbox, peer>>

\* peers.next has a connection, with empty buffers and a peer that knows nothing.
Connect == /\ loop = "next" /\ session < MaxPeers
           /\ loop' = "offer" /\ session' = session + 1
           /\ inbox' = << >> /\ outbox' = << >>
           /\ life' = "open" /\ meant' = << >> /\ delivered' = << >>
           /\ heard' = NoOctet /\ told' = [f \in ToSet(Fields) |-> Nothing]
           /\ telnet' = New /\ com_ok' = TRUE
           /\ UNCHANGED <<pristine, port, upTask, down, reply, downcells, lock,
                          said>>

\* Mutant of Offer: settings are compared with those the last peer was told.
OfferKeepsLast ==
  /\ loop = "offer"
  /\ outbox' = Octets([is |-> "offer"])
  /\ loop' = "session" /\ up' = "select" /\ down' = "running"
  /\ last' = IF last = Nothing THEN pristine ELSE last
  /\ UNCHANGED <<session, pristine, port, upread, upwork, reply, downcells, telnet,
                 com_ok, delivered, lock, inbox, peer>>

\* The offers go out before either task exists.
Offer == /\ loop = "offer"
         /\ outbox' = Octets([is |-> "offer"])
         /\ loop' = "session" /\ up' = "select" /\ down' = "running"
         /\ last' = pristine
         /\ UNCHANGED <<session, pristine, port, upread, upwork, reply, downcells,
                        telnet, com_ok, delivered, lock, inbox, peer>>

OfferFails == /\ loop = "offer" /\ life = "gone"
              /\ loop' = "next"
              /\ UNCHANGED <<session, pristine, port, upTask, downTask, lock, inbox,
                             outbox, peer>>

\* Either task has ended; the other is aborted wherever it is.
EndSession == /\ loop = "session" /\ (up = "ended" \/ down = "ended")
              /\ loop' = "next" /\ lock' = "free"
              /\ up' = "none" /\ upread' = << >> /\ upwork' = << >>
              /\ down' = "none" /\ reply' = << >> /\ downcells' = << >>
              /\ life' = "gone" /\ inbox' = << >> /\ outbox' = << >>
              /\ UNCHANGED <<session, pristine, port, last, telnet, com_ok, delivered,
                             heard, told, said, meant>>

-----------------------------------------------------------------------------
(* Port to peer, and the settings poll.                                    *)

UpReads == /\ up = "select" /\ keys # << >>
           /\ upread' = Cells(ReadOf(keys)) /\ keys' = LeftBy(keys)
           /\ up' = "sync"
           /\ UNCHANGED <<loops, chosen, pty, typed, upwork, last, downTask, lock,
                          inbox, outbox, peer>>

\* sync_settings: the commands for what changed, under one lock; then it
\* counts as relayed.  Reading the termios of a slave the forge itself keeps open
\* does not fail, so the None of port.termios (bridge.rs:150, 392) does not come.
Relayed == IF com_ok /\ Config # last THEN <<Framed(CommandsTo(last, Config))>> ELSE << >>
Latest  == IF com_ok THEN Config ELSE last

\* Mutant of UpSyncs: the read's cells are sent, settings wait for the poll.
UpSyncsNot == /\ up = "sync"
              /\ upwork' = [i \in DOMAIN upread |-> Framed(upread[i])]
              /\ upread' = << >> /\ up' = "work"
              /\ UNCHANGED <<loops, port, last, downTask, lock, inbox, outbox, peer>>

\* Only the consumer acts between the read and this: no await is in between.
UpSyncs == /\ up = "sync"
           /\ upwork' = Relayed \o [i \in DOMAIN upread |-> Framed(upread[i])]
           /\ last' = Latest
           /\ upread' = << >> /\ up' = "work"
           /\ UNCHANGED <<loops, port, downTask, lock, inbox, outbox, peer>>

\* A tick with nothing to relay changes nothing, so it is not a step.
PollTick == /\ up = "select" /\ com_ok /\ Config # last
            /\ upwork' = Relayed /\ last' = Latest /\ up' = "work"
            /\ UNCHANGED <<loops, port, upread, downTask, lock, inbox, outbox, peer>>

UpLocks == /\ up = "work" /\ lock = "free"
           /\ lock' = "up"
           /\ UNCHANGED <<loops, port, upTask, downTask, inbox, outbox, peer>>

\* As much of the message as there is room for; the lock goes with the last of it.
UpWrites ==
  /\ up = "work" /\ lock = "up" /\ Room(outbox) > 0
  /\ outbox' = Filled(outbox, Head(upwork))
  /\ upwork' = CellsLeft(upwork, outbox)
  /\ lock' = IF Unwritten(Head(upwork), outbox) = << >> THEN "free" ELSE "up"
  /\ up' = IF upwork' = << >> THEN "select" ELSE "work"
  /\ UNCHANGED <<loops, port, upread, last, downTask, inbox, peer>>

\* Mutant of UpFails: the task ends with the lock in its hands.
UpFailsLocked == /\ up = "work" /\ lock = "up" /\ life = "gone"
                 /\ up' = "ended" /\ upwork' = << >>
                 /\ UNCHANGED <<loops, port, upread, last, downTask, lock, inbox,
                                outbox, peer>>

UpFails == /\ up = "work" /\ lock = "up" /\ life = "gone"
           /\ up' = "ended" /\ upwork' = << >> /\ lock' = "free"
           /\ UNCHANGED <<loops, port, upread, last, downTask, inbox, outbox, peer>>

-----------------------------------------------------------------------------
(* Peer to port.                                                           *)

Idle == down = "running" /\ reply = << >> /\ downcells = << >>

\* A read ends anywhere in what was said.
DownReads ==
  /\ Idle /\ up # "sync"
  /\ \E n \in 1..Least(ReadMax, Len(inbox)) :
       LET decoded == Decode(telnet, SubSeq(inbox, 1, n)) IN
         /\ inbox' = SubSeq(inbox, n + 1, Len(inbox))
         /\ telnet' = decoded.telnet
         /\ reply' = Framed([i \in DOMAIN decoded.reply |-> Reply(decoded.reply[i])])
         /\ downcells' = Cells(decoded.data)
         /\ com_ok' = (com_ok /\ ComPortOk(decoded.telnet))
  /\ UNCHANGED <<loops, port, upTask, down, delivered, lock, outbox, peer>>

\* Mutant of DownLocks: the replies go out beside whatever else is being written.
DownLocksNot == /\ down = "running" /\ reply # << >> /\ lock # "down"
                /\ lock' = "down"
                /\ UNCHANGED <<loops, port, upTask, downTask, inbox, outbox, peer>>

DownLocks == /\ down = "running" /\ reply # << >> /\ lock = "free"
             /\ lock' = "down"
             /\ UNCHANGED <<loops, port, upTask, downTask, inbox, outbox, peer>>

DownReplies ==
  /\ down = "running" /\ lock = "down" /\ Room(outbox) > 0
  /\ outbox' = Filled(outbox, reply)
  /\ reply' = Unwritten(reply, outbox)
  /\ lock' = IF reply' = << >> THEN "free" ELSE "down"
  /\ UNCHANGED <<loops, port, upTask, down, downcells, telnet, com_ok, delivered,
                 inbox, peer>>

DownReplyFails == /\ down = "running" /\ lock = "down" /\ life = "gone"
                  /\ down' = "ended" /\ reply' = << >> /\ downcells' = << >>
                  /\ lock' = "free"
                  /\ UNCHANGED <<loops, port, upTask, telnet, com_ok, delivered, inbox,
                                 outbox, peer>>

\* The data of the read goes to the port after the replies it drew.
DownWrites == /\ down = "running" /\ reply = << >> /\ downcells # << >>
              /\ Room(pty) > 0
              /\ pty' = Filled(pty, Head(downcells))
              /\ delivered' = delivered \o SubSeq(Head(downcells), 1,
                                                  Taken(Head(downcells), pty))
              /\ downcells' = CellsLeft(downcells, pty)
              /\ UNCHANGED <<loops, chosen, keys, typed, upTask, down, reply, telnet,
                             com_ok, lock, inbox, outbox, peer>>

DownFails == /\ down = "running" /\ reply = << >> /\ downcells # << >>
             /\ down' = "ended" /\ downcells' = << >>
             /\ UNCHANGED <<loops, port, upTask, reply, telnet, com_ok, delivered,
                            lock, inbox, outbox, peer>>

DownEnds == /\ Idle
            /\ (inbox = << >> /\ life # "open") \/ life = "gone"
            /\ down' = "ended"
            /\ UNCHANGED <<loops, port, upTask, reply, downcells, telnet, com_ok,
                           delivered, lock, inbox, outbox, peer>>

-----------------------------------------------------------------------------
(* The consumer and the peer.                                              *)

\* A typed byte remembers how many settings had been chosen when it was.
ConsumerTypes == /\ typed < MaxTyped /\ Traffic < MaxTraffic /\ Room(keys) > 0
                 /\ \E b \in KeyBytes :
                      keys' = Append(keys, [is |-> "data", byte |-> b, n |-> typed + 1,
                                            at |-> Len(chosen)])
                 /\ typed' = typed + 1
                 /\ UNCHANGED <<loops, chosen, pty, upTask, downTask, lock, inbox,
                                outbox, peer>>

\* The port has its name before the loop first runs: it can be set even then.
ConsumerConfigures == /\ Len(chosen) <= MaxChosen /\ Traffic < MaxTraffic
                      /\ \E tio \in Termioses \ {chosen[Len(chosen)]} :
                           chosen' = Append(chosen, tio)
                      /\ UNCHANGED <<loops, keys, pty, typed, upTask, downTask, lock,
                                     inbox, outbox, peer>>

ConsumerReads == /\ pty # << >>
                 /\ pty' = << >>
                 /\ UNCHANGED <<loops, chosen, keys, typed, upTask, downTask, lock,
                                inbox, outbox, peer>>

\* Nothing about an option is on its way, to the client or back.
Settled == /\ ToSet(inbox) \cap Verbs = {} /\ telnet.state \notin {"Iac", "Negotiate"}
           /\ \A o \in ToSet(reply \o outbox) : o.msg.is # "reply"

\* A peer asks again only when the last word on options has settled (RFC 1143).
PeerSays == /\ life = "open" /\ said < MaxSaid /\ Traffic < MaxTraffic
            /\ \E s \in Sayings : /\ ToSet(s.bytes) \cap Verbs # {} => Settled
                                  /\ inbox' = inbox \o s.bytes
                                  /\ meant' = meant \o s.data
            /\ said' = said + 1
            /\ UNCHANGED <<loops, port, upTask, downTask, lock, outbox, life, heard,
                           told>>

\* Octet by octet; a whole command sets the far end's line, and a whole reply is
\* itself answered if the peer is one to acknowledge it.
PeerReads ==
  /\ life # "gone" /\ outbox # << >>
  /\ LET octet == Head(outbox)
         whole == octet.left = 0
     IN  /\ heard' = octet
         /\ told' = IF whole /\ octet.msg.is = "set"
                    THEN [told EXCEPT ![octet.msg.field] = octet.msg.value] ELSE told
         /\ inbox' = IF whole /\ octet.msg.is = "reply" /\ life = "open"
                          /\ octet.msg.opt \in Acknowledged
                     THEN inbox \o <<IAC, Answer(octet.msg.verb, octet.msg.verb \in {WILL, DO}),
                                     octet.msg.opt>>
                     ELSE inbox
  /\ outbox' = Tail(outbox)
  /\ UNCHANGED <<loops, port, upTask, downTask, lock, life, said, meant>>

PeerLeaves == /\ \/ life = "open" /\ life' \in {"half", "gone"}
                 \/ life = "half" /\ life' = "gone"
              /\ UNCHANGED <<loops, port, upTask, downTask, lock, inbox, outbox, heard,
                             told, said, meant>>

-----------------------------------------------------------------------------
Loop == TakePristine \/ DrainReads \/ Offer \/ OfferFails \/ EndSession
Up   == UpReads \/ UpSyncs \/ PollTick \/ UpLocks \/ UpWrites \/ UpFails
Down == DownLocks \/ DownReplies \/ DownReplyFails \/ DownWrites \/ DownEnds
          \/ DownReads

Next == \/ Loop \/ Connect
        \/ Up \/ Down \/ DownFails
        \/ ConsumerTypes \/ ConsumerConfigures \/ ConsumerReads
        \/ PeerSays \/ PeerReads \/ PeerLeaves

Spec == Init /\ [][Next]_vars

\* Woken tasks are polled and the ticker ticks.  A peer that is there goes on
\* reading; nobody promises that one connects, or that the consumer reads.
Fairness == /\ WF_vars(Loop) /\ WF_vars(Up) /\ WF_vars(Down)
            /\ WF_vars(PeerReads)

LiveSpec == Spec /\ Fairness
=============================================================================
