------------------------------- MODULE PeerLink ------------------------------
(***************************************************************************)
(* What automerge-repo and the senders may rely on of a network adapter,    *)
(* with no word of dials, accepts, read loops, backoff and delays: per peer *)
(* the stream that takes the writes and the stream the repo syncs over.     *)
(***************************************************************************)
CONSTANTS Peers, Streams, PeerOf, NoStream

VARIABLES
    sends,    \* of each peer, the stream that takes the writes
    syncs,    \* of each peer, the stream the repo was offered
    opened,   \* the streams that were ever opened
    life      \* of the adapter: "on", "off", or "gone" for good
vars == <<sends, syncs, opened, life>>

NoStreams == [p \in Peers |-> NoStream]

Init == sends = NoStreams /\ syncs = NoStreams /\ opened = {} /\ life = "on"

(* A stream that was never seen before takes over at once.  The repo hears  *)
(* that a stream is replaced as a peer that goes away and comes back.       *)
Attach(s) ==
    LET p == PeerOf[s] IN
    /\ life = "on" /\ s \in Streams \ opened
    /\ opened' = opened \cup {s}
    /\ sends' = [sends EXCEPT ![p] = s]
    /\ syncs' = [syncs EXCEPT ![p] = IF sends[p] = NoStream THEN s ELSE NoStream]
    /\ UNCHANGED life

(* A stream that arrives too late is used for nothing, then and later.      *)
Refuse(s) ==
    /\ life # "on" /\ s \in Streams \ opened
    /\ opened' = opened \cup {s}
    /\ UNCHANGED <<sends, syncs, life>>

(* The repo is offered the stream that takes the writes now, once.          *)
Sync(p) ==
    /\ life = "on" /\ sends[p] # NoStream /\ syncs[p] = NoStream
    /\ syncs' = [syncs EXCEPT ![p] = sends[p]]
    /\ UNCHANGED <<sends, opened, life>>

(* A peer goes away for the senders and for the repo in one step, and alone.*)
Detach(p) ==
    /\ life = "on" /\ sends[p] # NoStream
    /\ sends' = [sends EXCEPT ![p] = NoStream]
    /\ syncs' = [syncs EXCEPT ![p] = NoStream]
    /\ UNCHANGED <<opened, life>>

SwitchOff(to) ==
    /\ <<life, to>> \in {<<"on", "off">>, <<"on", "gone">>, <<"off", "gone">>}
    /\ life' = to
    /\ sends' = NoStreams /\ syncs' = NoStreams
    /\ UNCHANGED opened

SwitchOn ==
    /\ life = "off"
    /\ life' = "on"
    /\ UNCHANGED <<sends, syncs, opened>>

Next ==
    \/ \E s \in Streams : Attach(s) \/ Refuse(s)
    \/ \E p \in Peers : Sync(p) \/ Detach(p)
    \/ SwitchOff("off") \/ SwitchOff("gone") \/ SwitchOn

Spec == Init /\ [][Next]_vars
=============================================================================
