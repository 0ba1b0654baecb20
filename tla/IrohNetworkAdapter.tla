------------------------- MODULE IrohNetworkAdapter -------------------------
(***************************************************************************)
(* The automerge-repo network adapter of lib/reliquary/ts: the class        *)
(* IrohNetworkAdapter keeps one active stream per peer, reads every stream  *)
(* it ever opened, redials the peers it was asked to keep, and can be       *)
(* stopped, restarted and disconnected at any time.                         *)
(*                                                                         *)
(* JavaScript runs one event at a time, so an action is the synchronous     *)
(* code between two awaits.  An await of something already resolved (a      *)
(* cached node) is no point of interleaving and ends no action.  What is    *)
(* outside the adapter (the endpoint that dials and accepts, the peer, the  *)
(* repo that listens to its events) may answer late, fail, or not at all.   *)
(***************************************************************************)
EXTENDS Integers

CONSTANTS
    Peers,        \* node ids of the other endpoints
    Streams,      \* every stream that is ever opened, in either direction
    PeerOf,       \* the peer at the other end of each stream
    NoStream,     \* "no entry in this.streams"
    Calls,        \* slots for the async calls in flight, per peer (a bound)
    MaxAttempts,  \* RECONNECT_MAX_ATTEMPTS
    MaxNodes,     \* how many distinct nodes getNode() makes (a bound)
    MaxOps        \* how many calls of the public API are made (a bound)

ASSUME PeerOfAssumption   == PeerOf \in [Streams -> Peers]
ASSUME NoStreamAssumption == NoStream \notin Streams
ASSUME AttemptAssumption  == MaxAttempts \in Nat \ {0}
ASSUME BoundAssumption    == MaxNodes \in Nat /\ MaxOps \in Nat

VARIABLES
    phase,         \* of each stream: not opened, up, lost by the transport, closed by us
    loops,         \* the streams whose read loop has not ended
    writes,        \* the streams with a write_message not yet settled
    active,        \* this.streams
    flag,          \* this.readLoops: the peers whose flag is set
    announce,      \* the streams whose delayed announce() has not run
    repo,          \* automerge-repo: the stream it started syncing each peer over
    intended,      \* this.intendedPeers
    failed,        \* this.failedPeers
    attempt,       \* this.reconnectState: the attempt count, -1 without an entry
    timer,         \* the peers whose reconnect timer is armed
    call,          \* addPeer and attemptReconnect calls suspended at an await
    told,          \* the peers whose last addPeer or restart rejected to its caller
    swallowed,     \* the peers whose last addPeer rejected inside restart()
    identity,      \* where checkIdentityAndStart got to
    inits,         \* initialize() calls suspended in getNode()
    node, made,    \* this.midden (0 is null) and the number of nodes made so far
    acceptOn,      \* the node the accept loop waits on, 0 when no loop runs
    endpoint,      \* this._endpointState
    stopped, disconnected,
    ops            \* public calls made so far

streamVars == <<phase, loops, active, flag, announce, repo>>
retryVars  == <<intended, failed, attempt, timer>>
callVars   == <<call, told, swallowed>>
nodeVars   == <<identity, inits, node, made, acceptOn, endpoint>>
lifeVars   == <<stopped, disconnected>>
vars == <<streamVars, writes, retryVars, callVars, nodeVars, lifeVars, ops>>

Phases     == {"free", "live", "lost", "closed"}
DialCalls  == {"add:dial", "restart:dial", "reconnect:dial"}
NodeCalls  == {"add:node", "reconnect:node"}
CallStates == {"idle"} \cup DialCalls \cup NodeCalls
Inits      == {"connect", "identity", "restart"}

Running == ~stopped /\ ~disconnected

(***************************************************************************)
(* automerge-repo ignores a peer-candidate for a peer it already considers  *)
(* connected; what it syncs over is what was up when it took the candidate. *)
(***************************************************************************)
Candidate(p, s) == repo' = [repo EXCEPT ![p] = IF @ = NoStream THEN s ELSE @]

IdleSlot(p) == CHOOSE c \in Calls : call[p][c] = "idle"
HasIdleSlot(p) == \E c \in Calls : call[p][c] = "idle"

ClearReconnect(p) ==
    /\ attempt' = [attempt EXCEPT ![p] = -1]
    /\ timer' = timer \ {p}

Attempts(p) == IF attempt[p] = -1 THEN 0 ELSE attempt[p]

\* Slip: one attempt too many.
GivesUpLate(p) == Attempts(p) > MaxAttempts

GivesUp(p)  == Attempts(p) >= MaxAttempts

\* scheduleReconnect, for a peer without a stream while the adapter runs.
ScheduleReconnect(p) ==
    IF GivesUp(p)
    THEN /\ intended' = intended \ {p}
         /\ failed' = failed \cup {p}
         /\ ClearReconnect(p)
    ELSE /\ attempt' = [attempt EXCEPT ![p] = Attempts(p)]
         /\ timer' = timer \cup {p}
         /\ UNCHANGED <<intended, failed>>

Close(s, ph) == IF s = NoStream THEN ph ELSE [ph EXCEPT ![s] = "closed"]

(***************************************************************************)
(* removePeer: close the active stream, drop the flag that every read loop  *)
(* of the peer tests, tell the repo, and redial a peer we intend to keep.   *)
(***************************************************************************)
RemovePeer(p) ==
    /\ phase' = Close(active[p], phase)
    /\ active' = [active EXCEPT ![p] = NoStream]
    /\ flag' = flag \ {p}
    /\ IF Running
       THEN /\ repo' = [repo EXCEPT ![p] = NoStream]
            /\ IF p \in intended THEN ScheduleReconnect(p) ELSE UNCHANGED retryVars
       ELSE UNCHANGED <<repo, retryVars>>
    /\ UNCHANGED announce

\* Slip: no disconnected -> candidate cycle for a superseding stream.
RegisterStreamWithoutCycle(p, s) ==
    /\ ClearReconnect(p)
    /\ told' = told \ {p} /\ swallowed' = swallowed \ {p}
    /\ phase' = [phase EXCEPT ![s] = IF Running THEN "live" ELSE "closed"]
    /\ active' = [active EXCEPT ![p] = IF Running THEN s ELSE NoStream]
    /\ loops' = IF Running THEN loops \cup {s} ELSE loops
    /\ flag' = IF Running THEN flag \cup {p} ELSE flag \ {p}
    /\ IF Running THEN Candidate(p, s) ELSE UNCHANGED repo
    /\ UNCHANGED <<intended, failed, announce>>

\* Slip: the read loop tests its condition after the first message, not before.
RegisterStreamReadingFirst(p, s) ==
    /\ ClearReconnect(p)
    /\ told' = told \ {p} /\ swallowed' = swallowed \ {p}
    /\ phase' = [phase EXCEPT ![s] = "live"]
    /\ active' = [active EXCEPT ![p] = s]
    /\ loops' = loops \cup {s}
    /\ flag' = flag \cup {p}
    /\ IF Running THEN Candidate(p, s) ELSE UNCHANGED repo
    /\ UNCHANGED <<intended, failed, announce>>

\* Slip: a connection that came in leaves the reconnect timer armed.
RegisterStreamKeepingTimer(p, s) ==
    /\ told' = told \ {p} /\ swallowed' = swallowed \ {p}
    /\ phase' = [phase EXCEPT ![s] = IF Running THEN "live" ELSE "closed"]
    /\ active' = [active EXCEPT ![p] = IF Running THEN s ELSE NoStream]
    /\ loops' = IF Running THEN loops \cup {s} ELSE loops
    /\ flag' = IF Running THEN flag \cup {p} ELSE flag \ {p}
    /\ repo' = [repo EXCEPT ![p] = NoStream]
    /\ announce' = IF Running THEN announce \cup {s} ELSE announce
    /\ UNCHANGED retryVars

(***************************************************************************)
(* registerStream: the newest stream takes the writes, the replaced one     *)
(* stays open and read.  While the adapter does not run the new read loop   *)
(* falls straight through to its own clean-up, which closes the stream.     *)
(***************************************************************************)
RegisterStream(p, s) ==
    /\ ClearReconnect(p)
    /\ UNCHANGED <<intended, failed>>
    /\ told' = told \ {p}
    /\ swallowed' = swallowed \ {p}
    /\ IF Running
       THEN /\ phase' = [phase EXCEPT ![s] = "live"]
            /\ active' = [active EXCEPT ![p] = s]
            /\ loops' = loops \cup {s}
            /\ flag' = flag \cup {p}
            /\ IF active[p] = NoStream
               THEN Candidate(p, s) /\ UNCHANGED announce
               ELSE /\ repo' = [repo EXCEPT ![p] = NoStream]
                    /\ announce' = announce \cup {s}
       ELSE /\ phase' = [phase EXCEPT ![s] = "closed"]
            /\ active' = [active EXCEPT ![p] = NoStream]
            /\ flag' = flag \ {p}
            /\ UNCHANGED <<loops, repo, announce>>

-----------------------------------------------------------------------------
(* The public API *)

Api == ops < MaxOps /\ ops' = ops + 1

AddPeer(p) ==
    /\ Api
    /\ ~disconnected
    /\ intended' = intended \cup {p}
    /\ failed' = failed \ {p}
    /\ ClearReconnect(p)
    /\ told' = told \ {p}
    /\ swallowed' = swallowed \ {p}
    /\ IF stopped \/ active[p] # NoStream
       THEN UNCHANGED call
       ELSE /\ HasIdleSlot(p)
            /\ call' = [call EXCEPT ![p][IdleSlot(p)] =
                            IF node = 0 THEN "add:node" ELSE "add:dial"]
    /\ UNCHANGED <<streamVars, writes, nodeVars, lifeVars>>

ForgetPeer(p) ==
    /\ Api
    /\ intended' = intended \ {p}
    /\ failed' = failed \ {p}
    /\ ClearReconnect(p)
    /\ phase' = Close(active[p], phase)
    /\ active' = [active EXCEPT ![p] = NoStream]
    /\ flag' = flag \ {p}
    /\ repo' = IF Running THEN [repo EXCEPT ![p] = NoStream] ELSE repo
    /\ UNCHANGED <<loops, announce, writes, callVars, nodeVars, lifeVars>>

RetryFailedPeers ==
    LET redial == IF Running THEN {p \in failed : active[p] = NoStream} ELSE {}
        again  == {p \in redial : GivesUp(p)}
    IN  /\ Api
        /\ ~disconnected
        /\ failed # {}
        /\ failed' = again
        /\ intended' = (intended \cup failed) \ again
        /\ attempt' = [p \in Peers |-> IF p \in again THEN -1
                                       ELSE IF p \in redial THEN Attempts(p)
                                       ELSE attempt[p]]
        /\ timer' = (timer \cup redial) \ again
        /\ UNCHANGED <<streamVars, writes, callVars, nodeVars, lifeVars>>

\* send: the write is not awaited, it settles later.
Send(p) ==
    /\ Api
    /\ active[p] # NoStream
    /\ writes' = writes \cup {active[p]}
    /\ UNCHANGED <<streamVars, retryVars, callVars, nodeVars, lifeVars>>

CloseAllStreams ==
    /\ phase' = [s \in Streams |-> IF s = active[PeerOf[s]] THEN "closed" ELSE phase[s]]
    /\ repo' = [p \in Peers |-> IF active[p] = NoStream THEN repo[p] ELSE NoStream]
    /\ active' = [p \in Peers |-> NoStream]
    /\ flag' = {}
    /\ failed' = {}
    /\ attempt' = [p \in Peers |-> -1]
    /\ timer' = {}
    /\ endpoint' = "off"
    /\ UNCHANGED <<loops, announce, writes, callVars, identity, inits, made, acceptOn>>

Stop ==
    /\ Api
    /\ Running
    /\ CloseAllStreams
    /\ stopped' = TRUE
    /\ node' = 0
    /\ UNCHANGED <<intended, disconnected>>

Disconnect ==
    /\ Api
    /\ ~disconnected
    /\ CloseAllStreams
    /\ disconnected' = TRUE
    /\ intended' = {}
    /\ UNCHANGED <<node, stopped>>

-----------------------------------------------------------------------------
(* Starting the endpoint *)

\* A pending getNode() resolves, to the node made last or to a fresh one.
GetNode(n) == /\ n \in {made, made + 1} \cap 1..MaxNodes
              /\ node' = n
              /\ made' = n

\* restart() calls addPeer for every remembered peer and only logs a rejection.
RestartDials(isStopped) ==
    LET dialed == IF isStopped THEN {} ELSE {p \in intended : active[p] = NoStream}
    IN  IF disconnected
        THEN UNCHANGED <<retryVars, callVars>>
        ELSE /\ \A p \in dialed : HasIdleSlot(p)
             /\ failed' = failed \ intended
             /\ attempt' = [p \in Peers |-> IF p \in intended THEN -1 ELSE attempt[p]]
             /\ timer' = timer \ intended
             /\ call' = [p \in Peers |->
                            IF p \in dialed
                            THEN [call[p] EXCEPT ![IdleSlot(p)] = "restart:dial"]
                            ELSE call[p]]
             /\ told' = told \ intended
             /\ swallowed' = swallowed \ intended
             /\ UNCHANGED intended

\* initialize() once ensureMidden() has the node n, and what its caller does next.
FinishInit(src, n, isStopped) ==
    /\ acceptOn' = IF acceptOn = 0 /\ ~isStopped /\ ~disconnected THEN n ELSE acceptOn
    /\ endpoint' = "online"
    /\ IF src = "restart" THEN RestartDials(isStopped) ELSE UNCHANGED <<retryVars, callVars>>

Initialize(src, isStopped) ==
    IF node = 0
    THEN /\ src \notin inits
         /\ inits' = inits \cup {src}
         /\ endpoint' = "starting"
         /\ UNCHANGED <<node, made, acceptOn, retryVars, callVars>>
    ELSE FinishInit(src, node, isStopped) /\ UNCHANGED <<inits, node, made>>

IdentityFound ==
    /\ identity = "checking"
    /\ identity' = "known"
    /\ Initialize("connect", stopped)
    /\ UNCHANGED <<streamVars, writes, lifeVars, ops>>

IdentityAbsent ==
    /\ identity = "checking"
    /\ identity' = "waiting"
    /\ UNCHANGED <<streamVars, writes, retryVars, callVars, inits, node, made, acceptOn,
                   endpoint, lifeVars, ops>>

IdentityCreated ==
    /\ identity = "waiting"
    /\ node = 0
    /\ ~disconnected
    /\ Initialize("identity", stopped)
    /\ UNCHANGED <<identity, streamVars, writes, lifeVars, ops>>

Restart ==
    /\ Api
    /\ stopped
    /\ ~disconnected
    /\ stopped' = FALSE
    /\ Initialize("restart", FALSE)
    /\ UNCHANGED <<identity, streamVars, writes, disconnected>>

InitGotNode(src) ==
    /\ src \in inits
    /\ inits' = inits \ {src}
    /\ \E n \in 1..MaxNodes : GetNode(n) /\ FinishInit(src, n, stopped)
    /\ UNCHANGED <<identity, streamVars, writes, lifeVars, ops>>

InitFailed(src) ==
    /\ src \in inits
    /\ inits' = inits \ {src}
    /\ endpoint' = "error"
    /\ told' = IF src = "restart" THEN told \cup intended ELSE told
    /\ UNCHANGED <<identity, node, made, acceptOn, call, swallowed, streamVars, writes,
                   retryVars, lifeVars, ops>>

-----------------------------------------------------------------------------
(* Dialing *)

Settle(p, c) == call' = [call EXCEPT ![p][c] = "idle"]

CallGotNode(p, c) ==
    /\ call[p][c] \in NodeCalls
    /\ \E n \in 1..MaxNodes : GetNode(n)
    /\ call' = [call EXCEPT ![p][c] = IF @ = "add:node" THEN "add:dial" ELSE "reconnect:dial"]
    /\ UNCHANGED <<identity, inits, acceptOn, endpoint, streamVars, writes, retryVars, told,
                   swallowed, lifeVars, ops>>

\* open_bi resolves (addPeer: one of its tries does); nothing is checked again.
DialOk(p, c, s) ==
    /\ call[p][c] \in DialCalls
    /\ phase[s] = "free" /\ PeerOf[s] = p
    /\ Settle(p, c)
    /\ RegisterStream(p, s)
    /\ UNCHANGED <<writes, nodeVars, lifeVars, ops>>

\* open_bi rejects (addPeer: all of its tries do), or getNode() does.
AddFailed(p, c) ==
    /\ call[p][c] \in {"add:node", "add:dial", "restart:dial"}
    /\ Settle(p, c)
    /\ IF call[p][c] = "restart:dial"
       THEN swallowed' = swallowed \cup {p} /\ UNCHANGED told
       ELSE told' = told \cup {p} /\ UNCHANGED swallowed
    /\ UNCHANGED <<streamVars, writes, retryVars, nodeVars, lifeVars, ops>>

\* Slip: a failed attempt is logged and not followed by the next one.
ReconnectFailedQuietly(p, c) ==
    /\ call[p][c] \in {"reconnect:node", "reconnect:dial"}
    /\ Settle(p, c)
    /\ UNCHANGED <<retryVars, told, swallowed, streamVars, writes, nodeVars, lifeVars, ops>>

ReconnectFailed(p, c) ==
    /\ call[p][c] \in {"reconnect:node", "reconnect:dial"}
    /\ Settle(p, c)
    /\ IF Running /\ active[p] = NoStream THEN ScheduleReconnect(p) ELSE UNCHANGED retryVars
    /\ UNCHANGED <<told, swallowed, streamVars, writes, nodeVars, lifeVars, ops>>

\* Slip: attempts are not counted, so the backoff never gives up.
AttemptReconnectUncounted(p) ==
    /\ p \in timer
    /\ timer' = timer \ {p}
    /\ active[p] = NoStream /\ p \in intended
    /\ HasIdleSlot(p)
    /\ call' = [call EXCEPT ![p][IdleSlot(p)] =
                    IF node = 0 THEN "reconnect:node" ELSE "reconnect:dial"]
    /\ UNCHANGED <<intended, failed, attempt, told, swallowed, streamVars, writes, nodeVars,
                   lifeVars, ops>>

\* The reconnect timer runs attemptReconnect.
AttemptReconnect(p) ==
    /\ p \in timer
    /\ timer' = timer \ {p}
    /\ \/ /\ active[p] # NoStream
          /\ attempt' = [attempt EXCEPT ![p] = -1]
          /\ UNCHANGED call
       \/ /\ active[p] = NoStream /\ p \notin intended
          /\ UNCHANGED <<attempt, call>>
       \/ /\ active[p] = NoStream /\ p \in intended
          /\ HasIdleSlot(p)
          /\ attempt' = [attempt EXCEPT ![p] = @ + 1]
          /\ call' = [call EXCEPT ![p][IdleSlot(p)] =
                          IF node = 0 THEN "reconnect:node" ELSE "reconnect:dial"]
    /\ UNCHANGED <<intended, failed, told, swallowed, streamVars, writes, nodeVars, lifeVars, ops>>

-----------------------------------------------------------------------------
(* Accepting, reading, writing *)

\* accept() hands over a sync stream; the loop tests its condition only after that.
Accept(s) ==
    /\ acceptOn # 0
    /\ phase[s] = "free"
    /\ RegisterStream(PeerOf[s], s)
    /\ acceptOn' = IF Running THEN acceptOn ELSE 0
    /\ UNCHANGED <<call, writes, identity, inits, node, made, endpoint, lifeVars, ops>>

\* accept() reports that the endpoint is closed.
AcceptClosed ==
    /\ acceptOn # 0
    /\ acceptOn' = 0
    /\ UNCHANGED <<streamVars, writes, retryVars, callVars, identity, inits, node, made,
                   endpoint, lifeVars, ops>>

\* The transport loses a stream: its peer died, or closed it, or the path is gone.
StreamLost(s) ==
    /\ phase[s] = "live"
    /\ phase' = [phase EXCEPT ![s] = "lost"]
    /\ UNCHANGED <<loops, active, flag, announce, repo, writes, retryVars, callVars, nodeVars,
                   lifeVars, ops>>

\* Slip: any read loop that ends takes the peer with it.
EndReadLoopTakingPeer(s) ==
    /\ loops' = loops \ {s}
    /\ RemovePeer(PeerOf[s])
    /\ UNCHANGED <<writes, callVars, nodeVars, lifeVars, ops>>

\* Slip: a superseded stream is left open when its read loop ends.
EndReadLoopLeavingOpen(s) ==
    /\ loops' = loops \ {s}
    /\ IF active[PeerOf[s]] = s
       THEN RemovePeer(PeerOf[s])
       ELSE UNCHANGED <<phase, active, flag, announce, repo, retryVars>>
    /\ UNCHANGED <<writes, callVars, nodeVars, lifeVars, ops>>

\* The clean-up of a read loop: only the active stream takes the peer with it.
EndReadLoop(s) ==
    /\ loops' = loops \ {s}
    /\ IF active[PeerOf[s]] = s
       THEN RemovePeer(PeerOf[s])
       ELSE /\ phase' = [phase EXCEPT ![s] = "closed"]
            /\ UNCHANGED <<active, flag, announce, repo, retryVars>>
    /\ UNCHANGED <<writes, callVars, nodeVars, lifeVars, ops>>

\* read_message() returns null or rejects.
ReadEnds(s) ==
    /\ s \in loops
    /\ phase[s] \in {"lost", "closed"}
    /\ EndReadLoop(s)

\* read_message() returns a message, and the loop then finds that it has to stop.
ReadThenStop(s) ==
    /\ s \in loops
    /\ phase[s] = "live"
    /\ PeerOf[s] \notin flag \/ ~Running
    /\ EndReadLoop(s)

WriteOk(s) ==
    /\ s \in writes
    /\ phase[s] = "live"
    /\ writes' = writes \ {s}
    /\ UNCHANGED <<streamVars, retryVars, callVars, nodeVars, lifeVars, ops>>

\* write_message rejects: send's handler removes the peer by its id.
WriteFails(s) ==
    /\ s \in writes
    /\ phase[s] \in {"lost", "closed"}
    /\ writes' = writes \ {s}
    /\ RemovePeer(PeerOf[s])
    /\ UNCHANGED <<loops, callVars, nodeVars, lifeVars, ops>>

Announce(s) ==
    /\ s \in announce
    /\ announce' = announce \ {s}
    /\ IF Running /\ active[PeerOf[s]] = s THEN Candidate(PeerOf[s], s) ELSE UNCHANGED repo
    /\ UNCHANGED <<phase, loops, active, flag, writes, retryVars, callVars, nodeVars, lifeVars,
                   ops>>

-----------------------------------------------------------------------------
\* connect() has just run: it is the repo's constructor that calls it.
Init ==
    /\ phase = [s \in Streams |-> "free"]
    /\ loops = {} /\ writes = {} /\ flag = {} /\ announce = {}
    /\ active = [p \in Peers |-> NoStream]
    /\ repo = [p \in Peers |-> NoStream]
    /\ intended = {} /\ failed = {} /\ timer = {}
    /\ attempt = [p \in Peers |-> -1]
    /\ call = [p \in Peers |-> [c \in Calls |-> "idle"]]
    /\ told = {} /\ swallowed = {}
    /\ identity = "checking" /\ inits = {}
    /\ node = 0 /\ made = 0 /\ acceptOn = 0 /\ endpoint = "off"
    /\ stopped = FALSE /\ disconnected = FALSE
    /\ ops = 0

UserNext == \/ \E p \in Peers : AddPeer(p) \/ ForgetPeer(p) \/ Send(p)
            \/ RetryFailedPeers \/ Stop \/ Restart \/ Disconnect

StartNext == \/ IdentityFound \/ IdentityAbsent \/ IdentityCreated
             \/ \E src \in Inits : InitGotNode(src) \/ InitFailed(src)

DialNext == \E p \in Peers :
                \/ AttemptReconnect(p)
                \/ \E c \in Calls : \/ CallGotNode(p, c) \/ AddFailed(p, c) \/ ReconnectFailed(p, c)
                                    \/ \E s \in Streams : DialOk(p, c, s)

StreamNext == \/ \E s \in Streams : \/ Accept(s) \/ StreamLost(s) \/ ReadEnds(s) \/ ReadThenStop(s)
                                    \/ WriteOk(s) \/ WriteFails(s) \/ Announce(s)
              \/ AcceptClosed

Next == UserNext \/ StartNext \/ DialNext \/ StreamNext

Spec == Init /\ [][Next]_vars

(***************************************************************************)
(* Timers fire, promises settle one way or the other, and a read loop sees  *)
(* the end of its stream.  Nothing says that a dial succeeds, that the user *)
(* calls anything, or that a message arrives.                               *)
(***************************************************************************)
Fairness ==
    /\ \A src \in Inits : WF_vars(InitGotNode(src) \/ InitFailed(src))
    /\ \A p \in Peers :
         /\ WF_vars(AttemptReconnect(p))
         /\ \A c \in Calls :
              WF_vars(\/ CallGotNode(p, c) \/ AddFailed(p, c) \/ ReconnectFailed(p, c)
                      \/ \E s \in Streams : DialOk(p, c, s))
    /\ \A s \in Streams :
         /\ WF_vars(ReadEnds(s))
         /\ WF_vars(WriteOk(s) \/ WriteFails(s))
         /\ WF_vars(Announce(s))

FairSpec == Spec /\ Fairness

-----------------------------------------------------------------------------
(* Properties *)

TypeOK ==
    /\ phase \in [Streams -> Phases]
    /\ loops \subseteq Streams /\ writes \subseteq Streams /\ announce \subseteq Streams
    /\ active \in [Peers -> Streams \cup {NoStream}]
    /\ repo \in [Peers -> Streams \cup {NoStream}]
    /\ flag \subseteq Peers /\ intended \subseteq Peers /\ failed \subseteq Peers
    /\ timer \subseteq Peers /\ told \subseteq Peers /\ swallowed \subseteq Peers
    /\ attempt \in [Peers -> -1..MaxAttempts]
    /\ call \in [Peers -> [Calls -> CallStates]]
    /\ identity \in {"checking", "known", "waiting"}
    /\ inits \subseteq Inits
    /\ node \in 0..MaxNodes /\ made \in 0..MaxNodes /\ acceptOn \in 0..MaxNodes
    /\ endpoint \in {"off", "starting", "online", "error"}
    /\ stopped \in BOOLEAN /\ disconnected \in BOOLEAN
    /\ ops \in 0..MaxOps

\* A stopped or disconnected adapter holds no stream, although dials and accepts
\* that were pending when it stopped still hand it streams: the read loop that
\* startReadLoop starts for them falls through and gives them up again.
NoActiveWhileStopped == ~Running => \A p \in Peers : active[p] = NoStream

\* The repo syncs every peer over the stream that takes the writes.  It hears of
\* a superseding stream by a disconnected -> candidate cycle, with the candidate
\* a tick later; whatever dies, stops or is superseded in between, the two agree
\* as soon as no announcement is pending (registerStream, removePeer, stop).
RepoTracksActive ==
    \A p \in Peers : repo[p] = IF active[p] \in announce THEN NoStream ELSE active[p]

\* Reading goes on for every stream the transport or the peer can still use, and
\* the loop of the active one keeps running.  The flag in readLoops belongs to the
\* peer and is shared by the loops of all its streams, so that the end of one
\* could stop another (startReadLoop, removePeer).
OpenStreamsAreRead ==
    /\ \A s \in Streams : phase[s] \in {"live", "lost"} => s \in loops
    /\ \A p \in Peers : active[p] # NoStream => p \in flag /\ phase[active[p]] # "closed"

\* A connected peer has no backoff: whichever side connected, nothing redials it
\* or carries an old attempt count into the next outage (clearReconnectState).
NoReconnectWhileConnected ==
    \A p \in Peers : active[p] # NoStream => attempt[p] = -1 /\ p \notin timer

\* A peer is kept or given up, never both: addPeer, retryFailedPeers and
\* scheduleReconnect move it between intendedPeers and failedPeers.
GivenUpIsNotIntended == failed \cap intended = {}

\* What the backoff holds of a peer agrees with its stream and with what the
\* caller was promised (registerStream, scheduleReconnect).
BackoffStateAgrees == NoReconnectWhileConnected /\ GivenUpIsNotIntended

AtRest(p) == active[p] = NoStream /\ p \notin timer /\ \A c \in Calls : call[p][c] = "idle"

\* While the adapter runs, an intended peer is connected, being dialed or waiting
\* for its timer, unless the last addPeer for it rejected: removePeer and
\* attemptReconnect always leave a next step behind.
StrandedOnlyByRejection ==
    \A p \in intended : Running /\ "restart" \notin inits /\ AtRest(p)
                            => p \in told \cup swallowed

\* A step that leaves p without the healthy stream it had.
Takes(p) == active[p] # NoStream /\ phase[active[p]] = "live" /\ active'[p] = NoStream

TakenOnPurpose == \A p \in Peers : Takes(p) => ops' # ops \/ writes' # writes

\* A healthy active stream gives way to a newer stream, to a call of the user, or
\* to a failed write, and to nothing else: no read loop that ends, announcement,
\* timer or late answer takes it (the clean-up of startReadLoop).
HealthyStreamIsKept == [][TakenOnPurpose]_vars

\* Whatever answers late and in whatever order streams come and go, the repo and
\* the senders see a link per peer that is attached, replaced, synced and detached
\* by whole steps, never while the adapter is off: PeerLink.
Life == IF disconnected THEN "gone" ELSE IF stopped THEN "off" ELSE "on"
Opened == {s \in Streams : phase[s] # "free"}

Link == INSTANCE PeerLink WITH sends <- active, syncs <- repo, opened <- Opened, life <- Life

LinkKept == Link!Spec

\* "Dead streams get reaped by their own read-loop errors" (registerStream): a
\* stream the transport lost is closed in the end, superseded or not.
DeadStreamsReaped ==
    \A s \in Streams : phase[s] = "lost" ~> phase[s] = "closed"

\* The backoff of a peer ends: it connects, is given up, or the user stops,
\* forgets or re-adds it and is told that this failed (scheduleReconnect).
BackoffSettles ==
    \A p \in Peers :
        p \in timer ~> \/ active[p] # NoStream
                       \/ p \in failed \/ p \notin intended
                       \/ ~Running
                       \/ p \in told \cup swallowed

-----------------------------------------------------------------------------
(* What the comments of the file say and the code does not do *)

\* "The replaced stream is NEVER closed - its read loop keeps draining it until
\* it actually dies" (registerStream): while the adapter runs, a healthy stream
\* that does not take the writes is not closed from this side.
ReplacedStreamNeverClosed ==
    [][\A s \in Streams :
          /\ Running /\ Running'
          /\ phase[s] = "live" /\ active[PeerOf[s]] # s
          => phase'[s] # "closed"]_vars

\* "That one owns the peer now - calling removePeer here would incorrectly kill
\* it" (startReadLoop): a healthy active stream is not dropped by the failure of
\* another stream, a write on a superseded one included.
NewerStreamOwnsPeer == [][\A p \in Peers : Takes(p) => ops' # ops]_vars

\* "Removes the peer from intendedPeers, cancels any pending reconnection" (the
\* comment of forgetPeer): no reconnect timer is armed for a forgotten peer.
ForgottenPeerHasNoTimer == timer \subseteq intended

\* "Reconnects all remembered peers" (the comment of restart): an intended peer is
\* not left without a stream, a dial, a timer and word to the caller.
RestartReconnects ==
    \A p \in intended : Running /\ "restart" \notin inits /\ AtRest(p) => p \in told

\* "Stop all P2P transport gracefully" (the comment of stop): the endpoint of a
\* stopped adapter is off.
StoppedIsOff == stopped => endpoint = "off"

=============================================================================
