------------------------------ MODULE MCBridge ------------------------------
(***************************************************************************)
(* Bridge with two connections, one after the other, and what TLC checks   *)
(* of it.                                                                  *)
(***************************************************************************)
EXTENDS Bridge

Flat(cells) == FlattenSeq(cells)
Consecutive(s) == \A i \in 1..(Len(s) - 1) : s[i + 1].n = s[i].n + 1

\* Everything a peer has been or is being sent.
ToPeer(k) == served[k] \o outbox[k]
               \o (IF k = session THEN Flat(upcells) ELSE << >>)

\* One reader of the port (bridge.rs:153-159, 231-234): from the first byte a
\* session reads to the last, nothing typed is missing or out of order in what
\* that peer gets; what is dropped is dropped between sessions.
NoHoles ==
  /\ \A k \in Peers : Consecutive(ToPeer(k))
  /\ up = "running" => Consecutive(Flat(upcells) \o keys)

\* No byte typed is sent to two peers, and none to an earlier peer than one
\* typed before it (what a session had read and not written dies with it).
NoReplay ==
  \A j, k \in Peers : j < k =>
    \A a \in ToSet(ToPeer(j)), b \in ToSet(ToPeer(k)) : a.n < b.n

\* The consumer hears the peers one after the other, and of each an unbroken
\* beginning of what it sent.
PeersInTurn ==
  LET all == heard \o pty \o Flat(downcells)
  IN  \A i \in 1..Len(all) :
        \/ all[i].n = 1 /\ (i > 1 => all[i - 1].from < all[i].from)
        \/ i > 1 /\ all[i].from = all[i - 1].from /\ all[i].n = all[i - 1].n + 1

\* "the next peer isn't greeted with a backlog of stale bytes"
\* (bridge.rs:411-413): no peer is sent what was typed to an earlier one.
NoStaleKeys ==
  \A k \in Peers : \A b \in ToSet(ToPeer(k)) : b.from \in {0, k}

\* "a dropped peer is not an error - listen:// goes back to accepting, tcp://
\* redials" (bridge.rs:18-21): once a session's peer has closed or gone, the
\* session ends and the bridge looks for the next.
DroppedPeerNoticed ==
  \A k \in Peers :
    (conn[k] = "served" /\ life[k] # "open") ~> (conn[k] = "over")

\* "a local tool writing into a dead bridge never blocks forever"
\* (bridge.rs:411-412): a full port is emptied unless a session is serving.
WriterNotStuck == (loop = "next" /\ Room(keys) = 0) ~> (Room(keys) > 0 \/ loop = "session")

\* A waiting peer is served once its predecessors are over, whatever they left
\* undone.
NextPeerServed ==
  \A k \in Peers :
    (conn[k] = "queued" /\ \A j \in 1..(k - 1) : conn[j] = "over")
      ~> ((conn[k] = "served" /\ loop = "session") \/ conn[k] = "over")
=============================================================================
