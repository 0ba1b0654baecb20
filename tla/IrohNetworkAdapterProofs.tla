---------------------- MODULE IrohNetworkAdapterProofs ----------------------
(***************************************************************************)
(* The invariants of IrohNetworkAdapter for any number of peers, streams    *)
(* and calls in flight, and for any bounds.                                 *)
(*                                                                         *)
(* The inductive invariant has one part for the streams and one for the     *)
(* backoff, because an action changes few of the variables of either; each  *)
(* operator the actions share gets a lemma per part.                        *)
(***************************************************************************)
EXTENDS IrohNetworkAdapter, TLAPS

StreamTypes ==
    /\ phase \in [Streams -> Phases]
    /\ loops \subseteq Streams /\ announce \subseteq Streams
    /\ active \in [Peers -> Streams \cup {NoStream}]
    /\ repo \in [Peers -> Streams \cup {NoStream}]
    /\ flag \subseteq Peers
    /\ stopped \in BOOLEAN /\ disconnected \in BOOLEAN

\* An active stream was opened, and to the peer it is the stream of.
ActiveBelongs ==
    \A p \in Peers : active[p] # NoStream => PeerOf[active[p]] = p /\ phase[active[p]] # "free"

\* Only streams that were opened are announced.
AnnouncedWasOpened == \A s \in announce : phase[s] # "free"

StreamInv == /\ StreamTypes /\ ActiveBelongs /\ AnnouncedWasOpened
             /\ NoActiveWhileStopped /\ RepoTracksActive /\ OpenStreamsAreRead

RetryTypes ==
    /\ intended \subseteq Peers /\ failed \subseteq Peers /\ timer \subseteq Peers
    /\ attempt \in [Peers -> -1..MaxAttempts]

\* An armed timer has an entry that is not exhausted.
TimerIsCounted == \A p \in timer : attempt[p] \in 0..MaxAttempts - 1

RetryInv == /\ RetryTypes /\ TimerIsCounted
            /\ NoReconnectWhileConnected /\ GivenUpIsNotIntended

RestTypes ==
    /\ writes \subseteq Streams
    /\ told \subseteq Peers /\ swallowed \subseteq Peers
    /\ call \in [Peers -> [Calls -> CallStates]]
    /\ identity \in {"checking", "known", "waiting"}
    /\ inits \subseteq Inits
    /\ node \in 0..MaxNodes /\ made \in 0..MaxNodes /\ acceptOn \in 0..MaxNodes
    /\ endpoint \in {"off", "starting", "online", "error"}
    /\ ops \in 0..MaxOps

IInv == StreamInv /\ RetryInv /\ RestTypes

USE PeerOfAssumption, NoStreamAssumption, AttemptAssumption, BoundAssumption

-----------------------------------------------------------------------------
(* The streams *)

(* A step that touches neither streams nor the life of the adapter keeps StreamInv. *)
LEMMA StreamsUnchanged ==
    ASSUME StreamInv, UNCHANGED <<streamVars, lifeVars>>
    PROVE  StreamInv'
  BY DEF StreamInv, StreamTypes, ActiveBelongs, AnnouncedWasOpened, NoActiveWhileStopped,
         RepoTracksActive, OpenStreamsAreRead, streamVars, lifeVars, Running

(* Registering a fresh stream keeps StreamInv, superseding one or not, running or not. *)
LEMMA RegisterStreamKeepsStreams ==
    ASSUME StreamInv, NEW p \in Peers, NEW s \in Streams, phase[s] = "free", PeerOf[s] = p,
           RegisterStream(p, s), UNCHANGED lifeVars
    PROVE  StreamInv'
  <1>1. CASE Running /\ active[p] = NoStream
    BY <1>1 DEF StreamInv, StreamTypes, ActiveBelongs, AnnouncedWasOpened, NoActiveWhileStopped,
         RepoTracksActive, OpenStreamsAreRead, lifeVars, Running, RegisterStream, Candidate, Phases
  <1>2. CASE Running /\ active[p] # NoStream
    BY <1>2 DEF StreamInv, StreamTypes, ActiveBelongs, AnnouncedWasOpened, NoActiveWhileStopped,
         RepoTracksActive, OpenStreamsAreRead, lifeVars, Running, RegisterStream, Candidate, Phases
  <1>3. CASE ~Running
    BY <1>3 DEF StreamInv, StreamTypes, ActiveBelongs, AnnouncedWasOpened, NoActiveWhileStopped,
         RepoTracksActive, OpenStreamsAreRead, lifeVars, Running, RegisterStream, Candidate, Phases
  <1> QED BY <1>1, <1>2, <1>3


(* removePeer keeps StreamInv: stream, flag and repo go together. *)
LEMMA RemovePeerKeepsStreams ==
    ASSUME StreamInv, NEW p \in Peers, RemovePeer(p), UNCHANGED <<loops, lifeVars>>
    PROVE  StreamInv'
  BY DEF StreamInv, StreamTypes, ActiveBelongs, AnnouncedWasOpened, NoActiveWhileStopped,
         RepoTracksActive, OpenStreamsAreRead, lifeVars, Running, RemovePeer, Close, Phases

(* forgetPeer keeps StreamInv, with and without a stream to remove. *)
LEMMA ForgetPeerKeepsStreams ==
    ASSUME StreamInv, NEW p \in Peers, ForgetPeer(p)
    PROVE  StreamInv'
  BY DEF StreamInv, StreamTypes, ActiveBelongs, AnnouncedWasOpened, NoActiveWhileStopped,
         RepoTracksActive, OpenStreamsAreRead, lifeVars, Running, ForgetPeer, Close, Phases

(* The end of a read loop keeps StreamInv, whether its stream was active or not. *)
LEMMA EndReadLoopKeepsStreams ==
    ASSUME StreamInv, NEW s \in Streams, s \in loops, phase[s] # "free", EndReadLoop(s)
    PROVE  StreamInv'
  <1> DEFINE p == PeerOf[s]
  <1>1. p \in Peers
    BY DEF StreamInv, StreamTypes
  <1>2. CASE active[p] = s
    BY <1>1, <1>2 DEF StreamInv, StreamTypes, ActiveBelongs, AnnouncedWasOpened,
         NoActiveWhileStopped, RepoTracksActive, OpenStreamsAreRead, lifeVars, Running,
         EndReadLoop, RemovePeer, Close, Phases
  <1>3. CASE active[p] # s
    BY <1>1, <1>3 DEF StreamInv, StreamTypes, ActiveBelongs, AnnouncedWasOpened,
         NoActiveWhileStopped, RepoTracksActive, OpenStreamsAreRead, lifeVars, Running,
         EndReadLoop, Phases
  <1> QED BY <1>2, <1>3

(* Closing all active streams keeps StreamInv when the adapter no longer runs. *)
LEMMA CloseAllStreamsKeepsStreams ==
    ASSUME StreamInv, CloseAllStreams, ~Running', stopped' \in BOOLEAN, disconnected' \in BOOLEAN
    PROVE  StreamInv'
  BY DEF StreamInv, StreamTypes, ActiveBelongs, AnnouncedWasOpened, NoActiveWhileStopped,
         RepoTracksActive, OpenStreamsAreRead, Running, CloseAllStreams, Phases

(* The delayed announce of a stream keeps StreamInv, stale or not. *)
LEMMA AnnounceKeepsStreams ==
    ASSUME StreamInv, NEW s \in Streams, Announce(s)
    PROVE  StreamInv'
  BY DEF StreamInv, StreamTypes, ActiveBelongs, AnnouncedWasOpened, NoActiveWhileStopped,
         RepoTracksActive, OpenStreamsAreRead, lifeVars, Running, Announce, Candidate

(* A stream lost by the transport keeps StreamInv: its loop still runs. *)
LEMMA StreamLostKeepsStreams ==
    ASSUME StreamInv, NEW s \in Streams, StreamLost(s)
    PROVE  StreamInv'
  BY DEF StreamInv, StreamTypes, ActiveBelongs, AnnouncedWasOpened, NoActiveWhileStopped,
         RepoTracksActive, OpenStreamsAreRead, lifeVars, Running, StreamLost, Phases

(* restart() keeps StreamInv: it closes what there is and starts anew. *)
LEMMA RestartKeepsStreams ==
    ASSUME StreamInv, Restart
    PROVE  StreamInv'
  BY DEF StreamInv, StreamTypes, ActiveBelongs, AnnouncedWasOpened, NoActiveWhileStopped,
         RepoTracksActive, OpenStreamsAreRead, streamVars, Running, Restart

-----------------------------------------------------------------------------
(* The backoff *)

(* A step that touches neither active streams nor the backoff keeps RetryInv. *)
LEMMA RetryUnchanged ==
    ASSUME RetryInv, UNCHANGED <<active, retryVars>>
    PROVE  RetryInv'
  BY DEF RetryInv, RetryTypes, TimerIsCounted, NoReconnectWhileConnected, GivenUpIsNotIntended,
         retryVars

(* Registering a stream keeps RetryInv: it ends the backoff of its peer. *)
LEMMA RegisterStreamKeepsRetry ==
    ASSUME RetryInv, StreamTypes, NEW p \in Peers, NEW s \in Streams, RegisterStream(p, s)
    PROVE  RetryInv'
  BY DEF RetryInv, RetryTypes, StreamTypes, TimerIsCounted, NoReconnectWhileConnected,
         GivenUpIsNotIntended, RegisterStream, ClearReconnect, Running

\* What scheduleReconnect does for a peer that has no stream after the step.
LEMMA ScheduleReconnectKeepsRetry ==
    ASSUME RetryInv, NEW p \in Peers, ScheduleReconnect(p), active'[p] = NoStream,
           \A q \in Peers : active'[q] # NoStream => active[q] # NoStream
    PROVE  RetryInv'
  BY DEF RetryInv, RetryTypes, TimerIsCounted, NoReconnectWhileConnected, GivenUpIsNotIntended,
         ScheduleReconnect, ClearReconnect, GivesUp, Attempts

(* removePeer keeps RetryInv: it arms a timer only for a peer without a stream. *)
LEMMA RemovePeerKeepsRetry ==
    ASSUME RetryInv, StreamTypes, NEW p \in Peers, RemovePeer(p)
    PROVE  RetryInv'
  <1>1. /\ active'[p] = NoStream
        /\ \A q \in Peers : active'[q] # NoStream => active[q] # NoStream
    BY DEF RemovePeer, StreamTypes
  <1>2. CASE ScheduleReconnect(p)
    BY <1>1, <1>2, ScheduleReconnectKeepsRetry
  <1>3. CASE UNCHANGED retryVars
    BY <1>1, <1>3 DEF RetryInv, RetryTypes, TimerIsCounted, NoReconnectWhileConnected,
         GivenUpIsNotIntended, retryVars
  <1> QED BY <1>2, <1>3 DEF RemovePeer

(* addPeer keeps RetryInv: it makes a peer intended, and no longer failed. *)
LEMMA AddPeerKeepsRetry ==
    ASSUME RetryInv, NEW p \in Peers, AddPeer(p)
    PROVE  RetryInv'
  BY DEF RetryInv, RetryTypes, TimerIsCounted, NoReconnectWhileConnected, GivenUpIsNotIntended,
         AddPeer, ClearReconnect, streamVars

(* forgetPeer keeps RetryInv: it takes intent, backoff and failure away. *)
LEMMA ForgetPeerKeepsRetry ==
    ASSUME RetryInv, StreamTypes, NEW p \in Peers, ForgetPeer(p)
    PROVE  RetryInv'
  BY DEF RetryInv, RetryTypes, StreamTypes, TimerIsCounted, NoReconnectWhileConnected,
         GivenUpIsNotIntended, ForgetPeer, ClearReconnect

(* retryFailedPeers keeps RetryInv: failed peers become intended again. *)
LEMMA RetryFailedPeersKeepsRetry ==
    ASSUME RetryInv, RetryFailedPeers
    PROVE  RetryInv'
  BY DEF RetryInv, RetryTypes, TimerIsCounted, NoReconnectWhileConnected, GivenUpIsNotIntended,
         RetryFailedPeers, GivesUp, Attempts, streamVars

(* Closing all streams and dropping the backoff keeps RetryInv. *)
LEMMA CloseAllStreamsKeepsRetry ==
    ASSUME RetryInv, CloseAllStreams, intended' \subseteq intended
    PROVE  RetryInv'
  BY DEF RetryInv, RetryTypes, TimerIsCounted, NoReconnectWhileConnected, GivenUpIsNotIntended,
         CloseAllStreams

(* The dials of restart() keep RetryInv. *)
LEMMA RestartDialsKeepsRetry ==
    ASSUME RetryInv, NEW b \in BOOLEAN, RestartDials(b), UNCHANGED active
    PROVE  RetryInv'
  BY DEF RetryInv, RetryTypes, TimerIsCounted, NoReconnectWhileConnected, GivenUpIsNotIntended,
         RestartDials, retryVars

(* initialize() keeps RetryInv, wherever it was called from. *)
LEMMA InitializeKeepsRetry ==
    ASSUME RetryInv, NEW b \in BOOLEAN, NEW src, Initialize(src, b), UNCHANGED active
    PROVE  RetryInv'
  BY RestartDialsKeepsRetry, RetryUnchanged DEF Initialize, FinishInit, retryVars

(* A reconnect attempt keeps RetryInv: it counts within the limit. *)
LEMMA AttemptReconnectKeepsRetry ==
    ASSUME RetryInv, NEW p \in Peers, AttemptReconnect(p)
    PROVE  RetryInv'
  BY DEF RetryInv, RetryTypes, TimerIsCounted, NoReconnectWhileConnected, GivenUpIsNotIntended,
         AttemptReconnect, streamVars

-----------------------------------------------------------------------------
(* The calls in flight and the node *)

\* The slot a new call takes is one of its peer's slots.
LEMMA IdleSlotIsACall ==
    ASSUME NEW p \in Peers, HasIdleSlot(p)
    PROVE  IdleSlot(p) \in Calls
  BY DEF HasIdleSlot, IdleSlot

\* A call that takes the idle slot of its peer, or settles, keeps the type of call.
LEMMA CallUpdate ==
    ASSUME RestTypes, NEW p \in Peers, NEW c \in Calls, NEW state \in CallStates,
           call' = [call EXCEPT ![p][c] = state]
    PROVE  call' \in [Peers -> [Calls -> CallStates]]
  BY DEF RestTypes

(* A call that settles keeps its type. *)
LEMMA SettleType ==
    ASSUME RestTypes, NEW p \in Peers, NEW c \in Calls, Settle(p, c)
    PROVE  call' \in [Peers -> [Calls -> CallStates]]
  BY CallUpdate DEF Settle, CallStates

(* The dials of restart() take idle slots and keep the types of calls. *)
LEMMA RestartDialsType ==
    ASSUME RestTypes, NEW b \in BOOLEAN, RestartDials(b)
    PROVE  /\ call' \in [Peers -> [Calls -> CallStates]]
           /\ told' \subseteq Peers /\ swallowed' \subseteq Peers
  <1> DEFINE dialed == IF b THEN {} ELSE {p \in intended : active[p] = NoStream}
  <1>1. CASE disconnected
    BY <1>1 DEF RestTypes, RestartDials, callVars
  <1>2. CASE ~disconnected
    <2>1. told' \subseteq Peers /\ swallowed' \subseteq Peers
      BY <1>2 DEF RestTypes, RestartDials
    <2>2. ASSUME NEW p \in Peers
          PROVE  (IF p \in dialed THEN [call[p] EXCEPT ![IdleSlot(p)] = "restart:dial"]
                                  ELSE call[p]) \in [Calls -> CallStates]
      BY DEF RestTypes, CallStates, DialCalls
    <2>3. call' = [p \in Peers |-> IF p \in dialed
                                   THEN [call[p] EXCEPT ![IdleSlot(p)] = "restart:dial"]
                                   ELSE call[p]]
      BY <1>2 DEF RestartDials
    <2> HIDE DEF dialed
    <2> QED BY <2>1, <2>2, <2>3
  <1> QED BY <1>1, <1>2

(* The end of initialize() keeps the types of node and calls. *)
LEMMA FinishInitType ==
    ASSUME RestTypes, NEW b \in BOOLEAN, NEW src \in Inits, NEW n \in 0..MaxNodes,
           FinishInit(src, n, b)
    PROVE  /\ call' \in [Peers -> [Calls -> CallStates]]
           /\ told' \subseteq Peers /\ swallowed' \subseteq Peers
           /\ acceptOn' \in 0..MaxNodes
           /\ endpoint' \in {"off", "starting", "online", "error"}
  BY RestartDialsType DEF FinishInit, RestTypes, callVars

(* initialize() keeps the types of node and calls. *)
LEMMA InitializeType ==
    ASSUME RestTypes, NEW b \in BOOLEAN, NEW src \in Inits, Initialize(src, b)
    PROVE  /\ call' \in [Peers -> [Calls -> CallStates]]
           /\ told' \subseteq Peers /\ swallowed' \subseteq Peers
           /\ acceptOn' \in 0..MaxNodes
           /\ endpoint' \in {"off", "starting", "online", "error"}
           /\ inits' \subseteq Inits /\ node' \in 0..MaxNodes /\ made' \in 0..MaxNodes
  <1>1. CASE node = 0
    BY <1>1 DEF Initialize, RestTypes, callVars
  <1>2. CASE node # 0
    <2>1. node \in 0..MaxNodes /\ FinishInit(src, node, b)
      BY <1>2 DEF Initialize, RestTypes
    <2> QED BY <1>2, <2>1, FinishInitType DEF Initialize, RestTypes
  <1> QED BY <1>1, <1>2

(* addPeer keeps the types of node and calls. *)
LEMMA AddPeerType ==
    ASSUME RestTypes, NEW p \in Peers, AddPeer(p)
    PROVE  RestTypes'
  <1>1. call' \in [Peers -> [Calls -> CallStates]]
    BY IdleSlotIsACall, CallUpdate DEF AddPeer, RestTypes, CallStates, DialCalls, NodeCalls
  <1> QED BY <1>1 DEF RestTypes, AddPeer, Api, nodeVars

(* A reconnect attempt keeps the types of node and calls. *)
LEMMA AttemptReconnectType ==
    ASSUME RestTypes, NEW p \in Peers, AttemptReconnect(p)
    PROVE  RestTypes'
  <1>1. call' \in [Peers -> [Calls -> CallStates]]
    BY IdleSlotIsACall, CallUpdate
    DEF AttemptReconnect, RestTypes, CallStates, DialCalls, NodeCalls
  <1> QED BY <1>1 DEF RestTypes, AttemptReconnect, nodeVars

(* A call that gets its node keeps the types of node and calls. *)
LEMMA CallGotNodeType ==
    ASSUME RestTypes, NEW p \in Peers, NEW c \in Calls, CallGotNode(p, c)
    PROVE  RestTypes'
  <1>1. call' \in [Peers -> [Calls -> CallStates]]
    BY DEF CallGotNode, RestTypes, CallStates, DialCalls, NodeCalls
  <1> QED BY <1>1 DEF RestTypes, CallGotNode, GetNode

-----------------------------------------------------------------------------
(* The invariant *)

(* The adapter as constructed satisfies the inductive invariant. *)
LEMMA InitEstablishes == Init => IInv
  <1> SUFFICES ASSUME Init PROVE IInv
    OBVIOUS
  <1>1. StreamInv
    BY DEF Init, StreamInv, StreamTypes, ActiveBelongs, AnnouncedWasOpened, Phases,
           NoActiveWhileStopped, RepoTracksActive, OpenStreamsAreRead, Running
  <1>2. RetryInv
    BY DEF Init, RetryInv, RetryTypes, TimerIsCounted, NoReconnectWhileConnected,
           GivenUpIsNotIntended
  <1>3. RestTypes
    BY DEF Init, RestTypes, CallStates
  <1> QED BY <1>1, <1>2, <1>3 DEF IInv

(* Every step of the adapter preserves the inductive invariant. *)
LEMMA NextPreserves ==
    ASSUME IInv, [Next]_vars
    PROVE  IInv'
  <1>1. CASE UNCHANGED vars
    BY <1>1, StreamsUnchanged, RetryUnchanged
    DEF vars, IInv, RestTypes, streamVars, lifeVars, retryVars, callVars, nodeVars
  <1>2. ASSUME NEW p \in Peers, AddPeer(p) PROVE IInv'
    <2>1. StreamInv'
      BY <1>2, StreamsUnchanged DEF IInv, AddPeer, streamVars, lifeVars
    <2>2. RetryInv'
      BY <1>2, AddPeerKeepsRetry DEF IInv
    <2>3. RestTypes'
      BY <1>2, AddPeerType DEF IInv
    <2> QED BY <2>1, <2>2, <2>3 DEF IInv
  <1>3. ASSUME NEW p \in Peers, ForgetPeer(p) PROVE IInv'
    <2>1. StreamInv'
      BY <1>3, ForgetPeerKeepsStreams DEF IInv
    <2>2. RetryInv'
      BY <1>3, ForgetPeerKeepsRetry DEF IInv, StreamInv
    <2>3. RestTypes'
      BY <1>3 DEF IInv, RestTypes, ForgetPeer, Api, callVars, nodeVars
    <2> QED BY <2>1, <2>2, <2>3 DEF IInv
  <1>4. ASSUME NEW p \in Peers, Send(p) PROVE IInv'
    <2>1. StreamInv'
      BY <1>4, StreamsUnchanged DEF IInv, Send, streamVars, lifeVars
    <2>2. RetryInv'
      BY <1>4, RetryUnchanged DEF IInv, Send, streamVars, retryVars
    <2>3. RestTypes'
      BY <1>4 DEF IInv, StreamInv, StreamTypes, RestTypes, Send, Api, callVars, nodeVars
    <2> QED BY <2>1, <2>2, <2>3 DEF IInv
  <1>5. ASSUME RetryFailedPeers PROVE IInv'
    <2>1. StreamInv'
      BY <1>5, StreamsUnchanged DEF IInv, RetryFailedPeers, streamVars, lifeVars
    <2>2. RetryInv'
      BY <1>5, RetryFailedPeersKeepsRetry DEF IInv
    <2>3. RestTypes'
      BY <1>5 DEF IInv, RestTypes, RetryFailedPeers, Api, callVars, nodeVars
    <2> QED BY <2>1, <2>2, <2>3 DEF IInv
  <1>6. ASSUME Stop PROVE IInv'
    <2>1. StreamInv'
      BY <1>6, CloseAllStreamsKeepsStreams DEF IInv, StreamInv, StreamTypes, Stop, Running
    <2>2. RetryInv'
      BY <1>6, CloseAllStreamsKeepsRetry DEF IInv, Stop
    <2>3. RestTypes'
      BY <1>6 DEF IInv, RestTypes, Stop, CloseAllStreams, Api, callVars
    <2> QED BY <2>1, <2>2, <2>3 DEF IInv
  <1>7. ASSUME Restart PROVE IInv'
    <2>1. StreamInv'
      BY <1>7, RestartKeepsStreams DEF IInv
    <2>2. RetryInv'
      BY <1>7, InitializeKeepsRetry DEF IInv, Restart, streamVars
    <2>3. RestTypes'
      <3>1. RestTypes /\ Initialize("restart", FALSE) /\ "restart" \in Inits /\ FALSE \in BOOLEAN
        BY <1>7 DEF IInv, Restart, Inits
      <3>2. /\ call' \in [Peers -> [Calls -> CallStates]]
            /\ told' \subseteq Peers /\ swallowed' \subseteq Peers
            /\ acceptOn' \in 0..MaxNodes
            /\ endpoint' \in {"off", "starting", "online", "error"}
            /\ inits' \subseteq Inits /\ node' \in 0..MaxNodes /\ made' \in 0..MaxNodes
        BY <3>1, InitializeType
      <3>3. ops' \in 0..MaxOps
        BY <1>7, <3>1 DEF RestTypes, Restart, Api
      <3> QED BY <1>7, <3>1, <3>2, <3>3 DEF RestTypes, Restart
    <2> QED BY <2>1, <2>2, <2>3 DEF IInv
  <1>8. ASSUME Disconnect PROVE IInv'
    <2>1. StreamInv'
      BY <1>8, CloseAllStreamsKeepsStreams DEF IInv, StreamInv, StreamTypes, Disconnect, Running
    <2>2. RetryInv'
      BY <1>8, CloseAllStreamsKeepsRetry DEF IInv, Disconnect
    <2>3. RestTypes'
      BY <1>8 DEF IInv, RestTypes, Disconnect, CloseAllStreams, Api, callVars
    <2> QED BY <2>1, <2>2, <2>3 DEF IInv
  <1>9. ASSUME IdentityFound PROVE IInv'
    <2>1. StreamInv'
      BY <1>9, StreamsUnchanged DEF IInv, IdentityFound, streamVars, lifeVars
    <2>2. RetryInv'
      BY <1>9, InitializeKeepsRetry DEF IInv, StreamInv, StreamTypes, IdentityFound, streamVars
    <2>3. RestTypes'
      BY <1>9, InitializeType DEF IInv, StreamInv, StreamTypes, RestTypes, IdentityFound, Inits
    <2> QED BY <2>1, <2>2, <2>3 DEF IInv
  <1>10. ASSUME IdentityAbsent PROVE IInv'
    <2>1. StreamInv'
      BY <1>10, StreamsUnchanged DEF IInv, IdentityAbsent, streamVars, lifeVars
    <2>2. RetryInv'
      BY <1>10, RetryUnchanged DEF IInv, IdentityAbsent, streamVars, retryVars
    <2>3. RestTypes'
      BY <1>10 DEF IInv, RestTypes, IdentityAbsent, Api, callVars, nodeVars
    <2> QED BY <2>1, <2>2, <2>3 DEF IInv
  <1>11. ASSUME IdentityCreated PROVE IInv'
    <2>1. StreamInv'
      BY <1>11, StreamsUnchanged DEF IInv, IdentityCreated, streamVars, lifeVars
    <2>2. RetryInv'
      BY <1>11, InitializeKeepsRetry DEF IInv, StreamInv, StreamTypes, IdentityCreated, streamVars
    <2>3. RestTypes'
      BY <1>11, InitializeType DEF IInv, StreamInv, StreamTypes, RestTypes, IdentityCreated, Inits
    <2> QED BY <2>1, <2>2, <2>3 DEF IInv
  <1>12. ASSUME NEW src \in Inits, InitGotNode(src) PROVE IInv'
    <2>1. StreamInv'
      BY <1>12, StreamsUnchanged DEF IInv, InitGotNode, streamVars, lifeVars
    <2>2. RetryInv'
      BY <1>12, RestartDialsKeepsRetry, RetryUnchanged
      DEF IInv, StreamInv, StreamTypes, InitGotNode, FinishInit, streamVars, retryVars
    <2>3. RestTypes'
      BY <1>12, FinishInitType DEF IInv, StreamInv, StreamTypes, RestTypes, InitGotNode, GetNode
    <2> QED BY <2>1, <2>2, <2>3 DEF IInv
  <1>13. ASSUME NEW src \in Inits, InitFailed(src) PROVE IInv'
    <2>1. StreamInv'
      BY <1>13, StreamsUnchanged DEF IInv, InitFailed, streamVars, lifeVars
    <2>2. RetryInv'
      BY <1>13, RetryUnchanged DEF IInv, InitFailed, streamVars, retryVars
    <2>3. RestTypes'
      BY <1>13 DEF IInv, RetryInv, RetryTypes, RestTypes, InitFailed
    <2> QED BY <2>1, <2>2, <2>3 DEF IInv
  <1>14. ASSUME NEW p \in Peers, AttemptReconnect(p) PROVE IInv'
    <2>1. StreamInv'
      BY <1>14, StreamsUnchanged DEF IInv, AttemptReconnect, streamVars, lifeVars
    <2>2. RetryInv'
      BY <1>14, AttemptReconnectKeepsRetry DEF IInv
    <2>3. RestTypes'
      BY <1>14, AttemptReconnectType DEF IInv
    <2> QED BY <2>1, <2>2, <2>3 DEF IInv
  <1>15. ASSUME NEW p \in Peers, NEW c \in Calls, CallGotNode(p, c) PROVE IInv'
    <2>1. StreamInv'
      BY <1>15, StreamsUnchanged DEF IInv, CallGotNode, streamVars, lifeVars
    <2>2. RetryInv'
      BY <1>15, RetryUnchanged DEF IInv, CallGotNode, streamVars, retryVars
    <2>3. RestTypes'
      BY <1>15, CallGotNodeType DEF IInv
    <2> QED BY <2>1, <2>2, <2>3 DEF IInv
  <1>16. ASSUME NEW p \in Peers, NEW c \in Calls, AddFailed(p, c) PROVE IInv'
    <2>1. StreamInv'
      BY <1>16, StreamsUnchanged DEF IInv, AddFailed, streamVars, lifeVars
    <2>2. RetryInv'
      BY <1>16, RetryUnchanged DEF IInv, AddFailed, streamVars, retryVars
    <2>3. RestTypes'
      BY <1>16, SettleType DEF IInv, RestTypes, AddFailed, nodeVars
    <2> QED BY <2>1, <2>2, <2>3 DEF IInv
  <1>17. ASSUME NEW p \in Peers, NEW c \in Calls, ReconnectFailed(p, c) PROVE IInv'
    <2>1. StreamInv'
      BY <1>17, StreamsUnchanged DEF IInv, ReconnectFailed, streamVars, lifeVars
    <2>2. RetryInv'
      BY <1>17, ScheduleReconnectKeepsRetry, RetryUnchanged
      DEF IInv, ReconnectFailed, streamVars, retryVars
    <2>3. RestTypes'
      BY <1>17, SettleType DEF IInv, RestTypes, ReconnectFailed, nodeVars
    <2> QED BY <2>1, <2>2, <2>3 DEF IInv
  <1>18. ASSUME NEW p \in Peers, NEW c \in Calls, NEW s \in Streams, DialOk(p, c, s) PROVE IInv'
    <2>1. StreamInv'
      BY <1>18, RegisterStreamKeepsStreams DEF IInv, DialOk
    <2>2. RetryInv'
      BY <1>18, RegisterStreamKeepsRetry DEF IInv, StreamInv, DialOk
    <2>3. RestTypes'
      BY <1>18, SettleType DEF IInv, RestTypes, DialOk, RegisterStream, nodeVars
    <2> QED BY <2>1, <2>2, <2>3 DEF IInv
  <1>19. ASSUME NEW s \in Streams, Accept(s) PROVE IInv'
    <2>1. StreamInv'
      BY <1>19, RegisterStreamKeepsStreams, PeerOf[s] \in Peers DEF IInv, Accept
    <2>2. RetryInv'
      BY <1>19, RegisterStreamKeepsRetry, PeerOf[s] \in Peers DEF IInv, StreamInv, Accept
    <2>3. RestTypes'
      BY <1>19 DEF IInv, RestTypes, Accept, RegisterStream
    <2> QED BY <2>1, <2>2, <2>3 DEF IInv
  <1>20. ASSUME AcceptClosed PROVE IInv'
    <2>1. StreamInv'
      BY <1>20, StreamsUnchanged DEF IInv, AcceptClosed, streamVars, lifeVars
    <2>2. RetryInv'
      BY <1>20, RetryUnchanged DEF IInv, AcceptClosed, streamVars, retryVars
    <2>3. RestTypes'
      BY <1>20 DEF IInv, RestTypes, AcceptClosed, Api, callVars, nodeVars
    <2> QED BY <2>1, <2>2, <2>3 DEF IInv
  <1>21. ASSUME NEW s \in Streams, StreamLost(s) PROVE IInv'
    <2>1. StreamInv'
      BY <1>21, StreamLostKeepsStreams DEF IInv
    <2>2. RetryInv'
      BY <1>21, RetryUnchanged DEF IInv, StreamLost, streamVars, retryVars
    <2>3. RestTypes'
      BY <1>21 DEF IInv, RestTypes, StreamLost, Api, callVars, nodeVars
    <2> QED BY <2>1, <2>2, <2>3 DEF IInv
  <1>22. ASSUME NEW s \in Streams, ReadEnds(s) PROVE IInv'
    <2>1. StreamInv'
      BY <1>22, EndReadLoopKeepsStreams DEF IInv, ReadEnds
    <2>2. RetryInv'
      BY <1>22, RemovePeerKeepsRetry, RetryUnchanged, PeerOf[s] \in Peers
      DEF IInv, StreamInv, ReadEnds, EndReadLoop
    <2>3. RestTypes'
      BY <1>22 DEF IInv, RestTypes, ReadEnds, EndReadLoop, callVars, nodeVars
    <2> QED BY <2>1, <2>2, <2>3 DEF IInv
  <1>23. ASSUME NEW s \in Streams, ReadThenStop(s) PROVE IInv'
    <2>1. StreamInv'
      BY <1>23, EndReadLoopKeepsStreams DEF IInv, ReadThenStop
    <2>2. RetryInv'
      BY <1>23, RemovePeerKeepsRetry, RetryUnchanged, PeerOf[s] \in Peers
      DEF IInv, StreamInv, ReadThenStop, EndReadLoop
    <2>3. RestTypes'
      BY <1>23 DEF IInv, RestTypes, ReadThenStop, EndReadLoop, callVars, nodeVars
    <2> QED BY <2>1, <2>2, <2>3 DEF IInv
  <1>24. ASSUME NEW s \in Streams, WriteOk(s) PROVE IInv'
    <2>1. StreamInv'
      BY <1>24, StreamsUnchanged DEF IInv, WriteOk, streamVars, lifeVars
    <2>2. RetryInv'
      BY <1>24, RetryUnchanged DEF IInv, WriteOk, streamVars, retryVars
    <2>3. RestTypes'
      BY <1>24 DEF IInv, RestTypes, WriteOk, Api, callVars, nodeVars
    <2> QED BY <2>1, <2>2, <2>3 DEF IInv
  <1>25. ASSUME NEW s \in Streams, WriteFails(s) PROVE IInv'
    <2>1. StreamInv'
      BY <1>25, RemovePeerKeepsStreams, PeerOf[s] \in Peers DEF IInv, WriteFails
    <2>2. RetryInv'
      BY <1>25, RemovePeerKeepsRetry, PeerOf[s] \in Peers DEF IInv, StreamInv, WriteFails
    <2>3. RestTypes'
      BY <1>25 DEF IInv, RestTypes, WriteFails, Api, callVars, nodeVars
    <2> QED BY <2>1, <2>2, <2>3 DEF IInv
  <1>26. ASSUME NEW s \in Streams, Announce(s) PROVE IInv'
    <2>1. StreamInv'
      BY <1>26, AnnounceKeepsStreams DEF IInv
    <2>2. RetryInv'
      BY <1>26, RetryUnchanged DEF IInv, Announce, streamVars, retryVars
    <2>3. RestTypes'
      BY <1>26 DEF IInv, RestTypes, Announce, Api, callVars, nodeVars
    <2> QED BY <2>1, <2>2, <2>3 DEF IInv
  <1> QED
    BY <1>1, <1>2, <1>3, <1>4, <1>5, <1>6, <1>7, <1>8, <1>9, <1>10, <1>11, <1>12, <1>13,
        <1>14, <1>15, <1>16, <1>17, <1>18, <1>19, <1>20, <1>21, <1>22, <1>23, <1>24,
        <1>25, <1>26
    DEF Next, UserNext, StartNext, DialNext, StreamNext

\* The inductive invariant holds of the adapter, whatever the constants.
THEOREM Invariant == Spec => []IInv
  <1>1. Init => IInv
    BY InitEstablishes
  <1>2. IInv /\ [Next]_vars => IInv'
    BY NextPreserves
  <1> QED
    BY <1>1, <1>2, PTL DEF Spec

-----------------------------------------------------------------------------
(* What follows from it *)

\* Every variable of the adapter keeps its type, the attempt counts of the
\* backoff included, which scheduleReconnect bounds and attemptReconnect counts.
THEOREM TypeCorrect == Spec => []TypeOK
  <1>1. IInv => TypeOK
    BY DEF IInv, StreamInv, StreamTypes, RetryInv, RetryTypes, RestTypes, TypeOK
  <1> QED
    BY <1>1, Invariant, PTL

\* A stopped or disconnected adapter holds no stream, whatever was pending.
THEOREM StoppedIsEmpty == Spec => []NoActiveWhileStopped
  <1>1. IInv => NoActiveWhileStopped
    BY DEF IInv, StreamInv
  <1> QED
    BY <1>1, Invariant, PTL

\* The repo syncs each peer over the stream that takes the writes, or is about
\* to be told of it: registerStream, removePeer and stop keep the two together.
THEOREM RepoAgrees == Spec => []RepoTracksActive
  <1>1. IInv => RepoTracksActive
    BY DEF IInv, StreamInv
  <1> QED
    BY <1>1, Invariant, PTL

\* Every stream that is open is read, although the loops of a peer share a flag.
THEOREM EveryStreamIsRead == Spec => []OpenStreamsAreRead
  <1>1. IInv => OpenStreamsAreRead
    BY DEF IInv, StreamInv
  <1> QED
    BY <1>1, Invariant, PTL

\* A connected peer has no backoff, and a peer is never both kept and given up.
THEOREM BackoffIsExclusive == Spec => []BackoffStateAgrees
  <1>1. IInv => BackoffStateAgrees
    BY DEF IInv, RetryInv, BackoffStateAgrees
  <1> QED
    BY <1>1, Invariant, PTL

(* Registering a stream takes the live active stream of no peer, but for a newer one. *)
LEMMA RegisterStreamTakesNone ==
    ASSUME StreamInv, NEW q \in Peers, NEW s \in Streams, RegisterStream(q, s), NEW p \in Peers
    PROVE  ~Takes(p)
  BY DEF StreamInv, StreamTypes, NoActiveWhileStopped, RegisterStream, Takes

\* A read loop that ends leaves the healthy active stream of its peer alone: it
\* is its own stream that ended, or the flag of the peer was dropped.
LEMMA EndReadLoopTakesNone ==
    ASSUME StreamInv, NEW s \in Streams, ReadEnds(s) \/ ReadThenStop(s), NEW p \in Peers
    PROVE  ~Takes(p)
  <1>1. CASE active[PeerOf[s]] = s
    <2>1. PeerOf[s] \in Peers /\ s # NoStream
      OBVIOUS
    <2>2. ~ReadThenStop(s)
      BY <1>1, <2>1 DEF StreamInv, OpenStreamsAreRead, NoActiveWhileStopped, ReadThenStop
    <2> QED
      BY <1>1, <2>1, <2>2 DEF StreamInv, StreamTypes, ReadEnds, EndReadLoop, RemovePeer, Takes
  <1>2. CASE active[PeerOf[s]] # s
    BY <1>2 DEF ReadEnds, ReadThenStop, EndReadLoop, Takes
  <1> QED BY <1>1, <1>2

\* A healthy active stream is only taken by a newer one, by a call of the user or
\* by a failed write: the property HealthyStreamIsKept, for any constants.
THEOREM HealthyStreamsStay == Spec => HealthyStreamIsKept
  <1>1. ASSUME IInv, Next PROVE TakenOnPurpose
    <2>1. CASE UserNext
      <3>1. ops' = ops + 1
        BY <2>1 DEF UserNext, AddPeer, ForgetPeer, Send, RetryFailedPeers, Stop, Restart,
                    Disconnect, Api
      <3> QED BY <1>1, <3>1 DEF IInv, RestTypes, TakenOnPurpose
    <2>2. CASE StartNext
      BY <2>2 DEF StartNext, IdentityFound, IdentityAbsent, IdentityCreated, InitGotNode,
                  InitFailed, streamVars, Takes, TakenOnPurpose
    <2>3. CASE DialNext
      <3>1. ASSUME NEW p \in Peers, NEW c \in Calls, NEW s \in Streams, DialOk(p, c, s) PROVE TakenOnPurpose
        BY <1>1, <3>1, RegisterStreamTakesNone DEF IInv, DialOk, TakenOnPurpose
      <3> QED
        BY <2>3, <3>1 DEF DialNext, AttemptReconnect, CallGotNode, AddFailed, ReconnectFailed,
                          streamVars, Takes, TakenOnPurpose
    <2>4. CASE StreamNext
      <3>1. ASSUME NEW s \in Streams, Accept(s) PROVE TakenOnPurpose
        BY <1>1, <3>1, RegisterStreamTakesNone, PeerOf[s] \in Peers DEF IInv, Accept, TakenOnPurpose
      <3>2. ASSUME NEW s \in Streams, ReadEnds(s) \/ ReadThenStop(s) PROVE TakenOnPurpose
        BY <1>1, <3>2, EndReadLoopTakesNone DEF IInv, TakenOnPurpose
      <3>3. ASSUME NEW s \in Streams, WriteOk(s) \/ WriteFails(s) PROVE TakenOnPurpose
        BY <3>3 DEF WriteOk, WriteFails, TakenOnPurpose
      <3> QED
        BY <2>4, <3>1, <3>2, <3>3 DEF StreamNext, StreamLost, Announce, AcceptClosed, streamVars,
                                      Takes, TakenOnPurpose
    <2> QED BY <1>1, <2>1, <2>2, <2>3, <2>4 DEF Next
  <1>2. IInv /\ [Next]_vars => [TakenOnPurpose]_vars
    BY <1>1
  <1> QED
    BY <1>2, Invariant, PTL DEF Spec, HealthyStreamIsKept

-----------------------------------------------------------------------------
(* Peers that nothing is going to connect *)

Stranded(p) == p \in intended /\ Running /\ "restart" \notin inits /\ AtRest(p)
ToldOf(p) == p \in told \cup swallowed

(* A call in a slot of p means that p is not at rest. *)
LEMMA CalledIsNotAtRest ==
    ASSUME RestTypes, NEW p \in Peers, NEW c \in Calls, NEW state \in CallStates \ {"idle"},
           call' = [call EXCEPT ![p][c] = state]
    PROVE  ~AtRest(p)' /\ \A q \in Peers : q # p => call'[q] = call[q]
  BY DEF RestTypes, AtRest

(* A registered stream is active, if the adapter runs to see it. *)
LEMMA RegisterStreamStrandsNone ==
    ASSUME IInv, NEW p \in Peers, NEW s \in Streams, RegisterStream(p, s),
           \A q \in Peers : q # p => call'[q] = call[q],
           inits' = inits, UNCHANGED lifeVars, StrandedOnlyByRejection,
           NEW q \in Peers, Stranded(q)'
    PROVE  ToldOf(q)'
  <1>1. Running
    BY DEF Stranded, Running, lifeVars
  <1>2. q # p
    BY <1>1 DEF RegisterStream, Stranded, AtRest, IInv, StreamInv, StreamTypes
  <1>3. Stranded(q)
    BY <1>1, <1>2 DEF RegisterStream, ClearReconnect, Stranded, AtRest, IInv, StreamInv, StreamTypes
  <1> QED BY <1>2, <1>3 DEF RegisterStream, StrandedOnlyByRejection, Stranded, ToldOf

(* A peer that is removed while it is to be kept gets a timer or is given up. *)
LEMMA RemovePeerStrandsNone ==
    ASSUME IInv, NEW p \in Peers, RemovePeer(p), UNCHANGED <<callVars, nodeVars, lifeVars>>,
           StrandedOnlyByRejection, NEW q \in Peers, Stranded(q)'
    PROVE  ToldOf(q)'
  <1>1. Running /\ callVars' = callVars /\ inits' = inits
    BY DEF Stranded, Running, lifeVars, nodeVars
  <1>2. q # p
    BY <1>1 DEF RemovePeer, ScheduleReconnect, Stranded, AtRest, retryVars
  <1>3. Stranded(q)
    BY <1>1, <1>2 DEF RemovePeer, ScheduleReconnect, ClearReconnect, Stranded, AtRest, retryVars,
                      callVars, IInv, StreamInv, StreamTypes
  <1> QED BY <1>1, <1>3 DEF StrandedOnlyByRejection, Stranded, ToldOf, callVars

(* restart() dials every remembered peer that has no stream. *)
LEMMA FinishInitStrandsNone ==
    ASSUME IInv, NEW src \in Inits, NEW n \in 0..MaxNodes, NEW b \in BOOLEAN,
           FinishInit(src, n, b), b => stopped', UNCHANGED streamVars,
           disconnected' = disconnected,
           src # "restart" => stopped' = stopped /\ inits' = inits \ {src},
           StrandedOnlyByRejection, NEW q \in Peers, Stranded(q)'
    PROVE  ToldOf(q)'
  <1>1. ~disconnected /\ ~b /\ active' = active
    BY DEF Stranded, Running, streamVars
  <1>2. CASE src # "restart"
    <2>1. Stranded(q)
      BY <1>1, <1>2 DEF FinishInit, Stranded, Running, AtRest, retryVars, callVars
    <2> QED BY <1>2, <2>1 DEF FinishInit, StrandedOnlyByRejection, Stranded, ToldOf, callVars
  <1>3. CASE src = "restart"
    <2>1. intended' = intended /\ q \in intended /\ active[q] = NoStream
      BY <1>1, <1>3 DEF FinishInit, RestartDials, Stranded, AtRest
    <2>2. HasIdleSlot(q) /\ call'[q] = [call[q] EXCEPT ![IdleSlot(q)] = "restart:dial"]
      BY <1>1, <1>3, <2>1 DEF FinishInit, RestartDials
    <2>3. call'[q][IdleSlot(q)] = "restart:dial"
      BY <2>2, IdleSlotIsACall DEF IInv, RestTypes
    <2> QED BY <2>2, <2>3, IdleSlotIsACall DEF Stranded, AtRest
  <1> QED BY <1>2, <1>3

(* initialize() waits for a node, or goes on as above. *)
LEMMA InitializeStrandsNone ==
    ASSUME IInv, NEW src \in Inits, Initialize(src, stopped'), UNCHANGED streamVars,
           disconnected' = disconnected, src # "restart" => stopped' = stopped,
           StrandedOnlyByRejection, NEW q \in Peers, Stranded(q)'
    PROVE  ToldOf(q)'
  <1>1. CASE node = 0
    <2>1. src # "restart"
      BY <1>1 DEF Initialize, Stranded
    <2>2. Stranded(q)
      BY <1>1, <2>1 DEF Initialize, Stranded, Running, AtRest, retryVars, callVars, streamVars
    <2> QED BY <1>1, <2>2 DEF Initialize, StrandedOnlyByRejection, Stranded, ToldOf, callVars
  <1>2. CASE node # 0
    <2>1. FinishInit(src, node, stopped') /\ inits' = inits
      BY <1>2 DEF Initialize
    <2>2. CASE src = "restart"
      <3>1. stopped' = FALSE
        BY DEF Stranded, Running
      <3> QED BY <2>1, <2>2, <3>1, FinishInitStrandsNone DEF IInv, RestTypes
    <2>3. CASE src # "restart"
      <3>1. Stranded(q)
        BY <2>1, <2>3 DEF FinishInit, Stranded, Running, AtRest, retryVars, callVars, streamVars
      <3> QED BY <2>1, <2>3, <3>1
        DEF FinishInit, StrandedOnlyByRejection, Stranded, ToldOf, callVars
    <2> QED BY <2>2, <2>3
  <1> QED BY <1>1, <1>2

(* A step that leaves what Stranded reads strands nobody. *)
LEMMA NobodyStranded ==
    ASSUME StrandedOnlyByRejection, UNCHANGED <<active, retryVars, callVars, inits, lifeVars>>
    PROVE  StrandedOnlyByRejection'
  BY DEF StrandedOnlyByRejection, AtRest, Running, retryVars, callVars, lifeVars

(* Whatever happens to a peer that is to be kept, a next step is left for it, or *)
(* its caller has been told. *)
LEMMA StrandedStep ==
    ASSUME IInv, StrandedOnlyByRejection, Next
    PROVE  StrandedOnlyByRejection'
  <1>1. SUFFICES ASSUME NEW q \in Peers, Stranded(q)' PROVE ToldOf(q)'
    <2>1. IInv'
      BY NextPreserves
    <2>2. intended' \subseteq Peers
      BY <2>1 DEF IInv, RetryInv, RetryTypes
    <2> QED BY <2>2 DEF StrandedOnlyByRejection, Stranded, ToldOf
  <1>2. ASSUME NEW p \in Peers, AddPeer(p) PROVE ToldOf(q)'
    <2>1. ~stopped /\ Running
      BY <1>1, <1>2 DEF AddPeer, Stranded, Running, lifeVars
    <2>2. q # p /\ call'[q] = call[q]
      <3>1. CASE active[p] # NoStream
        BY <1>1, <1>2, <3>1 DEF AddPeer, Stranded, AtRest, streamVars
      <3>2. CASE active[p] = NoStream
        <4>1. \E state \in CallStates \ {"idle"} : call' = [call EXCEPT ![p][IdleSlot(p)] = state]
          BY <1>2, <2>1, <3>2 DEF AddPeer, CallStates, DialCalls, NodeCalls
        <4>2. HasIdleSlot(p)
          BY <1>2, <2>1, <3>2 DEF AddPeer
        <4> QED BY <1>1, <4>1, <4>2, IdleSlotIsACall, CalledIsNotAtRest DEF IInv, Stranded
      <3> QED BY <3>1, <3>2
    <2>3. Stranded(q)
      BY <1>1, <1>2, <2>1, <2>2 DEF AddPeer, ClearReconnect, Stranded, AtRest, streamVars, nodeVars
    <2> QED BY <1>2, <2>2, <2>3 DEF AddPeer, StrandedOnlyByRejection, Stranded, ToldOf
  <1>3. ASSUME NEW p \in Peers, ForgetPeer(p) PROVE ToldOf(q)'
    <2>1. q # p /\ Stranded(q)
      BY <1>1, <1>3 DEF ForgetPeer, ClearReconnect, Stranded, Running, AtRest, callVars, nodeVars,
                        lifeVars, IInv, StreamInv, StreamTypes
    <2> QED BY <1>3, <2>1 DEF ForgetPeer, StrandedOnlyByRejection, Stranded, ToldOf, callVars
  <1>4. ASSUME NEW p \in Peers, Send(p) PROVE ToldOf(q)'
    BY <1>1, <1>4, NobodyStranded
    DEF Send, streamVars, nodeVars, StrandedOnlyByRejection, Stranded, ToldOf
  <1>5. ASSUME RetryFailedPeers PROVE ToldOf(q)'
    <2>1. Stranded(q)
      BY <1>1, <1>5 DEF RetryFailedPeers, Stranded, Running, AtRest, streamVars, callVars,
                        nodeVars, lifeVars
    <2> QED BY <1>5, <2>1 DEF RetryFailedPeers, StrandedOnlyByRejection, Stranded, ToldOf, callVars
  <1>6. ASSUME Stop \/ Disconnect PROVE ToldOf(q)'
    BY <1>1, <1>6 DEF Stop, Disconnect, Stranded, Running
  <1>7. ASSUME IdentityFound \/ IdentityCreated PROVE ToldOf(q)'
    <2>1. /\ UNCHANGED streamVars /\ stopped' = stopped /\ disconnected' = disconnected
          /\ Initialize("connect", stopped) \/ Initialize("identity", stopped)
      BY <1>7 DEF IdentityFound, IdentityCreated, lifeVars
    <2> QED BY <1>1, <2>1, InitializeStrandsNone DEF Inits
  <1>8. ASSUME Restart PROVE ToldOf(q)'
    <2>1. /\ UNCHANGED streamVars /\ stopped' = FALSE /\ disconnected' = disconnected
          /\ Initialize("restart", FALSE)
      BY <1>8 DEF Restart
    <2> QED BY <1>1, <2>1, InitializeStrandsNone DEF Inits
  <1>9. ASSUME IdentityAbsent \/ AcceptClosed PROVE ToldOf(q)'
    BY <1>1, <1>9, NobodyStranded
    DEF IdentityAbsent, AcceptClosed, streamVars, StrandedOnlyByRejection, Stranded, ToldOf
  <1>10. ASSUME NEW src \in Inits, InitGotNode(src) PROVE ToldOf(q)'
    <2>1. PICK n \in 1..MaxNodes : FinishInit(src, n, stopped)
      BY <1>10 DEF InitGotNode
    <2>2. /\ UNCHANGED streamVars /\ stopped' = stopped /\ disconnected' = disconnected
          /\ inits' = inits \ {src} /\ stopped \in BOOLEAN /\ n \in 0..MaxNodes
      BY <1>10 DEF InitGotNode, lifeVars, IInv, StreamInv, StreamTypes
    <2> QED BY <1>1, <2>1, <2>2, FinishInitStrandsNone
  <1>11. ASSUME NEW src \in Inits, InitFailed(src) PROVE ToldOf(q)'
    <2>1. CASE src = "restart"
      BY <1>1, <1>11, <2>1 DEF InitFailed, Stranded, ToldOf, retryVars
    <2>2. CASE src # "restart"
      <3>1. Stranded(q)
        BY <1>1, <1>11, <2>2 DEF InitFailed, Stranded, Running, AtRest, streamVars, retryVars,
                                 lifeVars
      <3> QED BY <1>11, <2>2, <3>1 DEF InitFailed, StrandedOnlyByRejection, Stranded, ToldOf
    <2> QED BY <2>1, <2>2
  <1>12. ASSUME NEW p \in Peers, NEW c \in Calls, CallGotNode(p, c) PROVE ToldOf(q)'
    <2>1. \E state \in CallStates \ {"idle"} : call' = [call EXCEPT ![p][c] = state]
      BY <1>12 DEF CallGotNode, CallStates, DialCalls, NodeCalls
    <2>2. q # p /\ call'[q] = call[q]
      BY <1>1, <2>1, CalledIsNotAtRest DEF IInv, Stranded
    <2>3. Stranded(q)
      BY <1>1, <1>12, <2>2 DEF CallGotNode, Stranded, Running, AtRest, streamVars, retryVars,
                               lifeVars
    <2> QED BY <1>12, <2>3 DEF CallGotNode, StrandedOnlyByRejection, Stranded, ToldOf
  <1>13. ASSUME NEW p \in Peers, NEW c \in Calls, NEW s \in Streams, DialOk(p, c, s)
         PROVE  ToldOf(q)'
    <2>1. RegisterStream(p, s) /\ inits' = inits /\ UNCHANGED lifeVars
      BY <1>13 DEF DialOk, nodeVars
    <2>2. \A o \in Peers : o # p => call'[o] = call[o]
      BY <1>13 DEF DialOk, Settle, IInv, RestTypes
    <2> QED BY <1>1, <2>1, <2>2, RegisterStreamStrandsNone
  <1>14. ASSUME NEW p \in Peers, NEW c \in Calls, AddFailed(p, c) PROVE ToldOf(q)'
    <2>1. CASE q = p
      BY <1>14, <2>1 DEF AddFailed, ToldOf
    <2>2. CASE q # p
      <3>1. call'[q] = call[q]
        BY <1>14, <2>2 DEF AddFailed, Settle, IInv, RestTypes
      <3>2. Stranded(q)
        BY <1>1, <1>14, <3>1 DEF AddFailed, Stranded, Running, AtRest, streamVars, retryVars,
                                 nodeVars, lifeVars
      <3> QED BY <1>14, <3>2 DEF AddFailed, StrandedOnlyByRejection, Stranded, ToldOf
    <2> QED BY <2>1, <2>2
  <1>15. ASSUME NEW p \in Peers, NEW c \in Calls, ReconnectFailed(p, c) PROVE ToldOf(q)'
    <2>1. Running /\ active' = active /\ inits' = inits /\ told' = told /\ swallowed' = swallowed
      BY <1>1, <1>15 DEF ReconnectFailed, Stranded, Running, streamVars, nodeVars, lifeVars
    <2>2. q # p
      BY <1>1, <1>15, <2>1 DEF ReconnectFailed, ScheduleReconnect, Stranded, AtRest
    <2>3. call'[q] = call[q]
      BY <1>15, <2>2 DEF ReconnectFailed, Settle, IInv, RestTypes
    <2>4. Stranded(q)
      BY <1>1, <1>15, <2>1, <2>2, <2>3
      DEF ReconnectFailed, ScheduleReconnect, ClearReconnect, Stranded, AtRest, retryVars
    <2> QED BY <2>1, <2>4 DEF StrandedOnlyByRejection, Stranded, ToldOf
  <1>16. ASSUME NEW p \in Peers, AttemptReconnect(p) PROVE ToldOf(q)'
    <2>1. /\ UNCHANGED <<active, intended, inits, told, swallowed, stopped, disconnected>>
          /\ timer' = timer \ {p}
      BY <1>16 DEF AttemptReconnect, streamVars, nodeVars, lifeVars
    <2>2. q # p /\ call'[q] = call[q]
      <3>1. CASE ~(active[p] = NoStream /\ p \in intended)
        BY <1>1, <1>16, <2>1, <3>1 DEF AttemptReconnect, Stranded, AtRest
      <3>2. CASE active[p] = NoStream /\ p \in intended
        <4>1. \E state \in CallStates \ {"idle"} : call' = [call EXCEPT ![p][IdleSlot(p)] = state]
          BY <1>16, <3>2 DEF AttemptReconnect, CallStates, DialCalls, NodeCalls
        <4>2. HasIdleSlot(p)
          BY <1>16, <3>2 DEF AttemptReconnect
        <4> QED BY <1>1, <4>1, <4>2, IdleSlotIsACall, CalledIsNotAtRest DEF IInv, Stranded
      <3> QED BY <3>1, <3>2
    <2>3. Stranded(q)
      BY <1>1, <2>1, <2>2 DEF Stranded, Running, AtRest
    <2> QED BY <2>1, <2>3 DEF StrandedOnlyByRejection, Stranded, ToldOf
  <1>17. ASSUME NEW s \in Streams, Accept(s) PROVE ToldOf(q)'
    <2>1. RegisterStream(PeerOf[s], s) /\ call' = call /\ inits' = inits /\ UNCHANGED lifeVars
      BY <1>17 DEF Accept
    <2> QED BY <1>1, <2>1, RegisterStreamStrandsNone, PeerOf[s] \in Peers
  <1>18. ASSUME NEW s \in Streams, StreamLost(s) \/ WriteOk(s) \/ Announce(s) PROVE ToldOf(q)'
    BY <1>1, <1>18, NobodyStranded
    DEF StreamLost, WriteOk, Announce, streamVars, nodeVars, StrandedOnlyByRejection, Stranded,
        ToldOf
  <1>19. ASSUME NEW s \in Streams, ReadEnds(s) \/ ReadThenStop(s) PROVE ToldOf(q)'
    <2>1. EndReadLoop(s)
      BY <1>19 DEF ReadEnds, ReadThenStop
    <2>2. CASE active[PeerOf[s]] = s
      BY <1>1, <2>1, <2>2, RemovePeerStrandsNone, PeerOf[s] \in Peers DEF EndReadLoop
    <2>3. CASE active[PeerOf[s]] # s
      BY <1>1, <2>1, <2>3, NobodyStranded
      DEF EndReadLoop, nodeVars, StrandedOnlyByRejection, Stranded, ToldOf
    <2> QED BY <2>2, <2>3
  <1>20. ASSUME NEW s \in Streams, WriteFails(s) PROVE ToldOf(q)'
    BY <1>1, <1>20, RemovePeerStrandsNone, PeerOf[s] \in Peers DEF WriteFails
  <1> QED
    BY <1>2, <1>3, <1>4, <1>5, <1>6, <1>7, <1>8, <1>9, <1>10, <1>11, <1>12, <1>13, <1>14,
       <1>15, <1>16, <1>17, <1>18, <1>19, <1>20
    DEF Next, UserNext, StartNext, DialNext, StreamNext

\* While the adapter runs, a peer it is to keep is connected, being dialed or due
\* to be, unless the caller, or restart() in its place, was told that it is not.
THEOREM NobodyIsStranded == Spec => []StrandedOnlyByRejection
  <1>1. Init => StrandedOnlyByRejection
    BY DEF Init, StrandedOnlyByRejection
  <1>2. ASSUME IInv, StrandedOnlyByRejection, [Next]_vars PROVE StrandedOnlyByRejection'
    <2>1. CASE UNCHANGED vars
      BY <1>2, <2>1, NobodyStranded DEF vars, streamVars, nodeVars
    <2> QED BY <1>2, <2>1, StrandedStep
  <1> QED
    BY <1>1, <1>2, Invariant, PTL DEF Spec

-----------------------------------------------------------------------------
(* The link that the repo and the senders see *)

(* A stream that is opened stays opened, so a step that opens none shows none. *)
LEMMA OpenedSame ==
    ASSUME \A s \in Streams : phase'[s] = "free" <=> phase[s] = "free"
    PROVE  Opened' = Opened
  BY DEF Opened

(* A step that leaves streams, repo and life alone is none of the link. *)
LEMMA QuietIsLink ==
    ASSUME UNCHANGED <<active, repo, lifeVars>>, Opened' = Opened
    PROVE  [Link!Next]_(Link!vars)
  BY DEF Link!vars, lifeVars, Life

(* A fresh stream is attached while the adapter runs, and refused otherwise: a
   stopped adapter has nothing that the stream could have replaced. *)
LEMMA RegisterStreamIsLink ==
    ASSUME StreamInv, NEW p \in Peers, NEW s \in Streams, phase[s] = "free", PeerOf[s] = p,
           RegisterStream(p, s), UNCHANGED lifeVars
    PROVE  [Link!Next]_(Link!vars)
  <1>1. s \notin Opened /\ Opened' = Opened \cup {s} /\ Life' = Life
    BY DEF RegisterStream, StreamInv, StreamTypes, Opened, Life, lifeVars
  <1>2. CASE Running
    <2>1. /\ active' = [active EXCEPT ![p] = s]
          /\ repo' = [repo EXCEPT ![p] = IF active[p] = NoStream THEN s ELSE NoStream]
      <3>1. active[p] = NoStream => repo[p] = NoStream
        BY DEF StreamInv, StreamTypes, RepoTracksActive
      <3> QED BY <1>2, <3>1 DEF RegisterStream, Candidate, StreamInv, StreamTypes
    <2>2. Link!Attach(s)
      BY <1>1, <1>2, <2>1 DEF Link!Attach, Life, Running
    <2> QED BY <2>2 DEF Link!Next
  <1>3. CASE ~Running
    <2>1. active' = active /\ repo' = repo
      BY <1>3 DEF RegisterStream, StreamInv, StreamTypes, NoActiveWhileStopped
    <2>2. Link!Refuse(s)
      BY <1>1, <1>3, <2>1 DEF Link!Refuse, Life, Running
    <2> QED BY <2>2 DEF Link!Next
  <1> QED BY <1>2, <1>3

(* Dropping the stream of a peer detaches it, if it had one. *)
LEMMA DropIsLink ==
    ASSUME StreamInv, NEW p \in Peers, UNCHANGED lifeVars,
           phase' = Close(active[p], phase),
           active' = [active EXCEPT ![p] = NoStream],
           repo' = IF Running THEN [repo EXCEPT ![p] = NoStream] ELSE repo
    PROVE  [Link!Next]_(Link!vars)
  <1>1. Opened' = Opened
    <2>1. \A s \in Streams : phase'[s] = "free" <=> phase[s] = "free"
      BY DEF StreamInv, StreamTypes, ActiveBelongs, Close
    <2> QED BY <2>1, OpenedSame
  <1>2. CASE active[p] = NoStream
    <2>1. active' = active /\ repo' = repo
      BY <1>2 DEF StreamInv, StreamTypes, RepoTracksActive
    <2> QED BY <1>1, <2>1, QuietIsLink
  <1>3. CASE active[p] # NoStream
    <2>1. Running
      BY <1>3 DEF StreamInv, NoActiveWhileStopped
    <2>2. Link!Detach(p)
      BY <1>1, <1>3, <2>1 DEF Link!Detach, Life, Running, lifeVars
    <2> QED BY <2>2 DEF Link!Next
  <1> QED BY <1>2, <1>3

LEMMA RemovePeerIsLink ==
    ASSUME StreamInv, NEW p \in Peers, RemovePeer(p), UNCHANGED lifeVars
    PROVE  [Link!Next]_(Link!vars)
  BY DropIsLink DEF RemovePeer

(* Only the active stream of a peer ends its link with its read loop. *)
LEMMA EndReadLoopIsLink ==
    ASSUME StreamInv, NEW s \in Streams, phase[s] # "free", EndReadLoop(s)
    PROVE  [Link!Next]_(Link!vars)
  <1>1. CASE active[PeerOf[s]] = s
    BY <1>1, RemovePeerIsLink, PeerOf[s] \in Peers DEF EndReadLoop
  <1>2. CASE active[PeerOf[s]] # s
    <2>1. \A r \in Streams : phase'[r] = "free" <=> phase[r] = "free"
      BY <1>2 DEF EndReadLoop, StreamInv, StreamTypes
    <2> QED BY <1>2, <2>1, OpenedSame, QuietIsLink DEF EndReadLoop
  <1> QED BY <1>1, <1>2

(* stop() and disconnect() take every link away at once. *)
LEMMA SwitchOffIsLink ==
    ASSUME StreamInv, Stop \/ Disconnect
    PROVE  [Link!Next]_(Link!vars)
  <1>1. \A p \in Peers : active[p] = NoStream => repo[p] = NoStream
    BY DEF StreamInv, StreamTypes, RepoTracksActive
  <1>2. active' = Link!NoStreams /\ repo' = Link!NoStreams
    BY <1>1 DEF Stop, Disconnect, CloseAllStreams, Link!NoStreams
  <1>3. Opened' = Opened
    <2>1. \A s \in Streams : phase'[s] = "free" <=> phase[s] = "free"
      BY DEF Stop, Disconnect, CloseAllStreams, StreamInv, StreamTypes, ActiveBelongs
    <2> QED BY <2>1, OpenedSame
  <1>4. CASE Stop
    <2>1. Life = "on" /\ Life' = "off"
      BY <1>4 DEF Stop, Running, Life
    <2>2. Link!SwitchOff("off")
      BY <1>2, <1>3, <2>1 DEF Link!SwitchOff
    <2> QED BY <2>2 DEF Link!Next
  <1>5. CASE Disconnect
    <2>1. Life \in {"on", "off"} /\ Life' = "gone"
      BY <1>5 DEF Disconnect, Life
    <2>2. Link!SwitchOff("gone")
      BY <1>2, <1>3, <2>1 DEF Link!SwitchOff
    <2> QED BY <2>2 DEF Link!Next
  <1> QED BY <1>4, <1>5

(* A delayed announcement syncs the stream it was made for, or nothing. *)
LEMMA AnnounceIsLink ==
    ASSUME StreamInv, NEW s \in Streams, Announce(s)
    PROVE  [Link!Next]_(Link!vars)
  <1> DEFINE p == PeerOf[s]
  <1>1. p \in Peers /\ Opened' = Opened /\ Life' = Life /\ active' = active
    BY DEF Announce, Opened, Life, lifeVars
  <1>2. CASE Running /\ active[p] = s
    <2>1. repo[p] = NoStream /\ repo' = [repo EXCEPT ![p] = active[p]]
      BY <1>1, <1>2 DEF Announce, Candidate, StreamInv, RepoTracksActive
    <2>2. Link!Sync(p)
      BY <1>1, <1>2, <2>1 DEF Link!Sync, Life, Running
    <2> QED BY <1>1, <2>2 DEF Link!Next
  <1>3. CASE ~(Running /\ active[p] = s)
    BY <1>1, <1>3, QuietIsLink DEF Announce
  <1> QED BY <1>2, <1>3

(* Each event of the adapter is a step of the link or none. *)
LEMMA LinkStep ==
    ASSUME StreamInv, Next
    PROVE  [Link!Next]_(Link!vars)
  <1>1. CASE UserNext
    <2>1. ASSUME NEW p \in Peers, AddPeer(p) \/ Send(p) PROVE UNCHANGED <<streamVars, lifeVars>>
      BY <2>1 DEF AddPeer, Send
    <2>2. ASSUME NEW p \in Peers, ForgetPeer(p) PROVE [Link!Next]_(Link!vars)
      BY <2>2, DropIsLink DEF ForgetPeer
    <2>3. ASSUME RetryFailedPeers PROVE UNCHANGED <<streamVars, lifeVars>>
      BY <2>3 DEF RetryFailedPeers
    <2>4. ASSUME Restart PROVE Link!Next
      <3>1. Life = "off" /\ Life' = "on" /\ Opened' = Opened /\ UNCHANGED <<active, repo>>
        BY <2>4 DEF Restart, Life, Opened, streamVars
      <3>2. Link!SwitchOn
        BY <3>1 DEF Link!SwitchOn
      <3> QED BY <3>2 DEF Link!Next
    <2> QED
      BY <1>1, <2>1, <2>2, <2>3, <2>4, SwitchOffIsLink, OpenedSame, QuietIsLink
      DEF UserNext, streamVars
  <1>2. CASE StartNext
    BY <1>2, OpenedSame, QuietIsLink
    DEF StartNext, IdentityFound, IdentityAbsent, IdentityCreated, InitGotNode, InitFailed, streamVars
  <1>3. CASE DialNext
    <2>1. ASSUME NEW p \in Peers, NEW c \in Calls, NEW s \in Streams, DialOk(p, c, s)
          PROVE  [Link!Next]_(Link!vars)
      BY <2>1, RegisterStreamIsLink DEF DialOk
    <2> QED
      BY <1>3, <2>1, OpenedSame, QuietIsLink
      DEF DialNext, AttemptReconnect, CallGotNode, AddFailed, ReconnectFailed, streamVars
  <1>4. CASE StreamNext
    <2>1. ASSUME NEW s \in Streams, Accept(s) PROVE [Link!Next]_(Link!vars)
      BY <2>1, RegisterStreamIsLink, PeerOf[s] \in Peers DEF Accept
    <2>2. ASSUME NEW s \in Streams, ReadEnds(s) \/ ReadThenStop(s) PROVE [Link!Next]_(Link!vars)
      BY <2>2, EndReadLoopIsLink DEF ReadEnds, ReadThenStop
    <2>3. ASSUME NEW s \in Streams, WriteFails(s) PROVE [Link!Next]_(Link!vars)
      BY <2>3, RemovePeerIsLink, PeerOf[s] \in Peers DEF WriteFails
    <2>4. ASSUME NEW s \in Streams, StreamLost(s) PROVE [Link!Next]_(Link!vars)
      <3>1. \A r \in Streams : phase'[r] = "free" <=> phase[r] = "free"
        BY <2>4 DEF StreamLost, StreamInv, StreamTypes
      <3> QED BY <2>4, <3>1, OpenedSame, QuietIsLink DEF StreamLost
    <2>5. ASSUME NEW s \in Streams, WriteOk(s) PROVE UNCHANGED <<streamVars, lifeVars>>
      BY <2>5 DEF WriteOk
    <2>6. ASSUME AcceptClosed PROVE UNCHANGED <<streamVars, lifeVars>>
      BY <2>6 DEF AcceptClosed
    <2> QED
      BY <1>4, <2>1, <2>2, <2>3, <2>4, <2>5, <2>6, AnnounceIsLink, OpenedSame, QuietIsLink
      DEF StreamNext, streamVars
  <1> QED BY <1>1, <1>2, <1>3, <1>4 DEF Next

\* Late dials and accepts, delayed announcements, failing writes and read loops
\* that end in any order: the repo and the senders see a link per peer that is
\* attached, replaced, synced and detached by whole steps, and only while on.
THEOREM LinksAreKept == Spec => LinkKept
  <1>1. Init => Link!Init
    BY DEF Init, Link!Init, Link!NoStreams, Opened, Life
  <1>2. ASSUME IInv, [Next]_vars PROVE [Link!Next]_(Link!vars)
    <2>1. CASE UNCHANGED vars
      BY <2>1, OpenedSame, QuietIsLink DEF vars, streamVars
    <2> QED BY <1>2, <2>1, LinkStep DEF IInv
  <1> QED
    BY <1>1, <1>2, Invariant, PTL DEF Spec, LinkKept, Link!Spec

=============================================================================
