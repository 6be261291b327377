------------------------------- MODULE FanOut -------------------------------
(***************************************************************************)
(* What `ttyforge mux` promises each consumer about the device's stream    *)
(* (src/src/forge/mux.rs:14-22), without saying how it is kept: there is    *)
(* one stream, every consumer walks along it at its own pace, a consumer   *)
(* takes the next read exactly as it was published or, when it is more     *)
(* than Slack reads behind, is told how many of the oldest it lost.  No    *)
(* consumer's step touches another's, and publishing waits for nobody.     *)
(***************************************************************************)
EXTENDS Integers, Sequences

CONSTANTS Consumers,   \* one per --link
          Reads,       \* what one read of the device may return
          Slack        \* how far behind a consumer may fall before it loses

VARIABLES stream,      \* every read of the device, in order
          place,       \* place[c]: how many reads c is past
          got,         \* got[c]: the reads handed to c
          told         \* told[c]: how many lost reads c was told of

fvars == <<stream, place, got, told>>

FInit == /\ stream = << >>
         /\ place = [c \in Consumers |-> 0]
         /\ got = [c \in Consumers |-> << >>]
         /\ told = [c \in Consumers |-> 0]

\* Whatever was read next goes to the end of the stream.
Publish == /\ Len(stream') = Len(stream) + 1
           /\ stream'[Len(stream')] \in Reads
           /\ stream' = Append(stream, stream'[Len(stream')])
           /\ UNCHANGED <<place, got, told>>

Take(c) == /\ place[c] < Len(stream)
           /\ got' = [got EXCEPT ![c] = Append(@, stream[place[c] + 1])]
           /\ place' = [place EXCEPT ![c] = @ + 1]
           /\ UNCHANGED <<stream, told>>

Skip(c) == /\ place[c] + Slack < Len(stream)
           /\ told' = [told EXCEPT ![c] = @ + (Len(stream) - Slack - place[c])]
           /\ place' = [place EXCEPT ![c] = Len(stream) - Slack]
           /\ UNCHANGED <<stream, got>>

FNext == \/ Publish
         \/ \E c \in Consumers : Take(c) \/ Skip(c)

FSpec == FInit /\ [][FNext]_fvars

\* Every read a consumer is past was either handed to it or announced to it
\* as lost (mux.rs:20-22, "its own copy is dropped ... and it is told").
Accounted == \A c \in Consumers : /\ Len(got[c]) + told[c] = place[c]
                                  /\ place[c] <= Len(stream)
=============================================================================
