------------------------------- MODULE Player -------------------------------
(***************************************************************************)
(* Local playback of the queue: the operations on the queue (queue.ts),    *)
(* the facade that traverses it (player.ts), the backend over the <audio>  *)
(* element (htmlAudio.ts), the guard against late loads (loadGuard.ts) and *)
(* the diff that reports what left the queue (queueDeparture.ts).          *)
(*                                                                         *)
(* All of it is one thread that gives way at every await.  What follows an *)
(* await whose promise has settled runs before the next event, so the      *)
(* steps a settled promise has enabled (Continuations) come before all     *)
(* others.  A write of the app state changes the signal at once; what      *)
(* awaits it runs when IndexedDB has committed it, in the order the writes *)
(* were made (Writes).                                                     *)
(***************************************************************************)
EXTENDS Naturals, FiniteSets, SequencesExt

CONSTANTS
    Songs,
    None,
    Slots,         \* calls of playNext that can be under way at the same time
    StartQueue,    \* the queue the run begins with
    Albums,        \* what playQueue replaces the queue with
    ActivePlayer,  \* isActivePlayer: the device is driven as a player
    MaxAttempts,   \* PLAY_NEXT_MAX_ATTEMPTS
    MaxEvents      \* bound: what the user and the element do, but for play events

ASSUME PlayerAssumption ==
    /\ None \notin Songs /\ Slots # {} /\ MaxAttempts \in Nat \ {0}
    /\ StartQueue \in Seq(Songs) /\ StartQueue # << >> /\ Albums \subseteq Seq(Songs) \ {<< >>}
    /\ MaxEvents \in Nat /\ ActivePlayer \in BOOLEAN

VARIABLES
    queue, current,    \* appState(): queue, current_item_key
    writes,            \* writes of the app state not committed yet, with what awaits them
    tasks,             \* what awaited a write that has been committed
    pending,           \* pendingUpNextItemKey
    loads,             \* calls of loadAndPlay under way, in the order they began
    next,              \* calls of playNext under way
    retries,           \* songs whose load the network retry waits to repeat
    retried,           \* networkRetriedKey
    playbackEnded,
    paused,            \* userExplicitlyPaused
    audio,             \* the element: "playing", "paused" or "stopped"
    loaded,            \* currentSongId: whose url the element has
    playEvent,         \* the element's play event is due
    snap,              \* the state last emitted, as isPlaying and decidePlayAction read it
    events             \* counter of the bound

state    == <<queue, current, writes>>
facade   == <<playbackEnded, paused, retries, retried>>
element  == <<audio, loaded, playEvent, snap>>
loading  == <<pending, loads>>
vars == <<state, tasks, loading, next, facade, element, events>>

-----------------------------------------------------------------------------
(* The app state and the queue *)

Position(s, q) ==
    IF \E i \in DOMAIN q : q[i] = s THEN CHOOSE i \in DOMAIN q : q[i] = s ELSE 0

CanGoNext == Position(current, queue) \in 1..(Len(queue) - 1)

\* What awaits a write: a load, setQueue (with the items that left and its
\* caller's rest), the first half of clearQueueState and of clearQueue, or nothing.
Await(what, n) == [what |-> what, load |-> n, gone |-> {}, rest |-> << >>]
WriteOf(n) == Await("load", n)
Unawaited == Await("nothing", 0)

\* setQueue, with the rest of its caller
QueueSet(q, rest) ==
    [what |-> "queue", load |-> 0, gone |-> ToSet(queue) \ ToSet(q), rest |-> rest]

SetQueue(q, rest) ==
    /\ queue' = q
    /\ writes' = Append(writes, QueueSet(q, rest))

Rest(do, s, c) == <<[do |-> do, song |-> s, was |-> c]>>

-----------------------------------------------------------------------------
(* Loads *)

\* A load is current while its generation is that of its song.  A new load of
\* a song, or its departure from the queue, leaves the older ones behind.
Outdated(gone) == [i \in DOMAIN loads |-> [loads[i] EXCEPT !.current = @ /\ loads[i].song \notin gone]]

FreeId == CHOOSE n \in 1..(Len(loads) + 1) : \A i \in DOMAIN loads : loads[i].id # n

\* A load begins: beginMediaLoad, the gate, resetPlaybackEnded, and the first
\* synchronous stretch of loadAndPlay.
Begin(s, byUser, fromRetry) ==
    /\ pending' = s
    /\ loads' = Append(Outdated({s}),
                  [id |-> FreeId, song |-> s, current |-> TRUE, at |-> "url", overtaken |-> FALSE,
                   auto |-> byUser \/ ~paused, retry |-> fromRetry])
    /\ playbackEnded' = FALSE
    /\ paused' = (paused /\ ~byUser)

Idle == [pc |-> "idle", ended |-> None, q |-> << >>, at |-> 0, attempts |-> 0, tries |-> 0, load |-> 0]

Called(ended) == [Idle EXCEPT !.pc = "called", !.ended = ended]

\* The attempt of a playNext failed: one retry, then on to the next position.
Failed(p) == IF p.tries = 0 THEN [p EXCEPT !.pc = "delay", !.tries = 1] ELSE [p EXCEPT !.pc = "pick"]

Owner(l, n) == next[n].pc = "load" /\ next[n].load = l.id

\* loadAndPlay returns, having played or having given way
Told(l) == [n \in Slots |-> IF Owner(l, n) THEN [next[n] EXCEPT !.pc = "returned"] ELSE next[n]]

Returned(k) ==
    /\ loads' = RemoveAt(loads, k)
    /\ next' = Told(loads[k])

\* loadAndPlay throws; playSong clears the song that is up next, and a
\* failed network retry goes on to playNext.
Threw(k) ==
    /\ loads' = RemoveAt(loads, k)
    /\ pending' = None
    /\ snap' = "stopped"
    /\ \E free \in {n \in Slots : loads[k].retry => next[n].pc = "idle"} :
        next' = [n \in Slots |->
                    IF Owner(loads[k], n) THEN Failed(next[n])
                    ELSE IF loads[k].retry /\ n = free THEN Called(None) ELSE next[n]]

\* Mutant: the choice made since is not looked at.
AnyCurrent(l) == l.current

\* The check after the url and the one before the point of no return
MayCommit(l) == l.current /\ pending = l.song

\* Mutant: the song is made current before the checks.
ResolvesUnchecked(k) ==
    /\ loads[k].at = "url"
    /\ current' = loads[k].song
    /\ IF MayCommit(loads[k])
       THEN /\ pending' = None
            /\ snap' = IF snap = "playing" THEN snap ELSE "stopped"
            /\ writes' = Append(writes, WriteOf(loads[k].id))
            /\ loads' = [loads EXCEPT ![k].at = "write"]
            /\ UNCHANGED next
       ELSE /\ Returned(k)
            /\ writes' = Append(writes, Unawaited)
            /\ UNCHANGED <<pending, snap>>
    /\ UNCHANGED <<queue, tasks, facade, audio, loaded, playEvent, events>>

UrlResolves(k) ==
    /\ loads[k].at = "url"
    /\ IF MayCommit(loads[k])
       THEN /\ pending' = None
            /\ snap' = IF snap = "playing" THEN snap ELSE "stopped"
            /\ current' = loads[k].song
            /\ writes' = Append(writes, WriteOf(loads[k].id))
            /\ loads' = [loads EXCEPT ![k].at = "write"]
            /\ UNCHANGED next
       ELSE /\ Returned(k)
            /\ UNCHANGED <<pending, snap, current, writes>>
    /\ UNCHANGED <<queue, tasks, facade, audio, loaded, playEvent, events>>

UrlFails(k) ==
    /\ loads[k].at = "url"
    /\ Threw(k)
    /\ UNCHANGED <<state, tasks, facade, audio, loaded, playEvent, events>>

\* Mutant: the mark that the queue ran out is not cleared again.
ResolvesMarked(k) ==
    /\ loads[k].at = "play" /\ audio = "playing" /\ ~playEvent
    /\ snap' = "playing"
    /\ Returned(k)
    /\ UNCHANGED <<state, tasks, pending, facade, audio, loaded, playEvent, events>>

PlayResolves(k) ==
    /\ loads[k].at = "play" /\ audio = "playing" /\ ~playEvent
    /\ playbackEnded' = FALSE
    /\ snap' = "playing"
    /\ Returned(k)
    /\ UNCHANGED <<state, tasks, pending, retries, retried, paused,
                   audio, loaded, playEvent, events>>

\* The data cannot be played, or a pause or another url came first.
PlayRejects(k) ==
    /\ loads[k].at \in {"play", "replaced"}
    /\ audio' = IF loads[k].at = "play" /\ audio = "playing" THEN "stopped" ELSE audio
    /\ Threw(k)
    /\ UNCHANGED <<state, tasks, facade, loaded, playEvent, events>>

-----------------------------------------------------------------------------
(* Writes are committed in order *)

Head1 == writes[1]

\* Mutant: the load that had the element is not told.
ReplacedSilently(k) ==
    [i \in DOMAIN loads |-> [loads[i] EXCEPT !.overtaken = @ \/ i < k]]

\* The element takes the url of load k, from the load that had it.
Replaced(k) ==
    [i \in DOMAIN loads |->
        [loads[i] EXCEPT !.at = IF @ = "play" THEN "replaced" ELSE @,
                         !.overtaken = @ \/ i < k]]

LoadCommitted ==
    /\ writes # << >> /\ Head1.what = "load"
    /\ writes' = Tail(writes)
    /\ \E k \in DOMAIN loads :
        /\ loads[k].id = Head1.load
        /\ loaded' = loads[k].song
        /\ IF loads[k].auto
           THEN /\ audio' = "playing" /\ playEvent' = TRUE
                /\ loads' = [Replaced(k) EXCEPT ![k].at = "play"]
                /\ UNCHANGED <<next, snap>>
           ELSE /\ audio' = "paused" /\ playEvent' = FALSE /\ snap' = "paused"
                /\ loads' = RemoveAt(Replaced(k), k)
                /\ next' = Told(loads[k])
    /\ UNCHANGED <<queue, current, tasks, pending, facade, events>>

\* notifyQueueDepartures: loads of what left are cancelled, and if the
\* current song left, the player stops.
CancelMediaLoads(gone) == loads' = Outdated(gone)

Stop == audio' = "stopped" /\ snap' = "stopped"

QueueCommitted ==
    /\ writes # << >> /\ Head1.what = "queue"
    /\ CancelMediaLoads(Head1.gone)
    /\ tasks' = tasks \o Head1.rest
    /\ IF current \in Head1.gone
       THEN /\ Stop
            /\ current' = None /\ pending' = None
            /\ writes' = Append(Tail(writes), Unawaited)
       ELSE /\ writes' = Tail(writes)
            /\ UNCHANGED <<audio, snap, current, pending>>
    /\ UNCHANGED <<queue, next, facade, loaded, playEvent, events>>

OtherCommitted ==
    /\ writes # << >> /\ Head1.what \notin {"load", "queue"}
    /\ tasks' = tasks \o Head1.rest
    /\ writes' = Tail(writes)
    /\ UNCHANGED <<queue, current, loading, next, facade, element, events>>

-----------------------------------------------------------------------------
(* playNext *)

\* clearQueueState: the current item, then (at the commit) the queue
ClearQueueState(rest) ==
    /\ current' = None /\ pending' = None
    /\ writes' = Append(writes, [Unawaited EXCEPT !.rest = rest])

\* finishQueue; a device driven as a player also empties its queue.
FinishQueue(n) ==
    /\ playbackEnded' = TRUE
    /\ Stop
    /\ IF ActivePlayer
       THEN /\ ClearQueueState(Rest("empty", None, n))
            /\ next' = [next EXCEPT ![n] = [@ EXCEPT !.pc = "clearing"]]
       ELSE /\ next' = [next EXCEPT ![n] = [@ EXCEPT !.pc = "returned"]]
            /\ UNCHANGED <<current, pending, writes>>
    /\ UNCHANGED <<queue, tasks, loads, retries, retried, paused,
                   loaded, playEvent, events>>

StartTraversal(n) ==
    /\ next[n].pc = "called"
    /\ IF CanGoNext
       THEN /\ next' = [next EXCEPT ![n] = [@ EXCEPT !.pc = "pick", !.q = queue,
                                                     !.at = Position(current, queue)]]
            /\ UNCHANGED <<state, tasks, loading, facade, element, events>>
       ELSE FinishQueue(n)

\* One attempt is a load the traversal waits for.
Attempt(n, p) ==
    /\ Begin(p.q[p.at], TRUE, FALSE)
    /\ next' = [next EXCEPT ![n] = [p EXCEPT !.pc = "load", !.load = FreeId]]
    /\ UNCHANGED <<state, tasks, retries, retried, element, events>>

\* The queue is the one playNext read when it was called.
PickNext(n) ==
    LET p == next[n]
    IN  /\ p.pc = "pick"
        /\ IF p.at < Len(p.q) /\ p.attempts < MaxAttempts
           THEN Attempt(n, [p EXCEPT !.at = @ + 1, !.attempts = @ + 1, !.tries = 0])
           ELSE FinishQueue(n)

RetryAttempt(n) ==
    LET p == next[n]
    IN  /\ p.pc = "delay"
        /\ IF Position(p.q[p.at], queue) # 0
           THEN Attempt(n, p)
           ELSE /\ next' = [next EXCEPT ![n] = [p EXCEPT !.pc = "pick"]]
                /\ UNCHANGED <<state, tasks, loading, facade, element, events>>

\* Mutant: the timer gives up only on a load that has answered.
TimesOutAnswered(n) ==
    /\ next[n].pc = "load"
    /\ \A i \in DOMAIN loads : loads[i].at = "url" => loads[i].id # next[n].load
    /\ next' = [next EXCEPT ![n] = Failed(next[n])]
    /\ UNCHANGED <<state, tasks, loading, facade, element, events>>

\* The race against PLAY_SONG_TIMEOUT_MS; the load goes on.
AttemptTimesOut(n) ==
    /\ next[n].pc = "load"
    /\ next' = [next EXCEPT ![n] = Failed(next[n])]
    /\ UNCHANGED <<state, tasks, loading, facade, element, events>>

\* What the ended event does once playNext has returned: a device driven as a
\* player drops the item that ended.
AfterNext(n) ==
    /\ next[n].pc = "returned"
    /\ next' = [next EXCEPT ![n] = Idle]
    /\ LET s == next[n].ended
       IN  IF ActivePlayer /\ s # None /\ Position(s, queue) # 0
           THEN SetQueue(RemoveAt(queue, Position(s, queue)), IF current = s /\ Len(queue) = 1
                                           THEN Rest("forget", s, None) ELSE << >>)
           ELSE UNCHANGED <<queue, writes>>
    /\ UNCHANGED <<current, tasks, loading, facade, element, events>>

-----------------------------------------------------------------------------
(* What awaited a write, once it is committed *)

Task(do) == tasks # << >> /\ tasks[1].do = do /\ tasks' = Tail(tasks)

\* playQueue and addToQueue play after setQueue, addToQueue unless something plays.
PlayAdded ==
    /\ Task("play") \/ Task("playIfIdle")
    /\ LET t == tasks[1]
       IN  IF t.do = "play" \/ t.was = None \/ playbackEnded
           THEN Begin(t.song, TRUE, FALSE)
           ELSE UNCHANGED <<loading, playbackEnded, paused>>
    /\ UNCHANGED <<state, next, retries, retried, element, events>>

\* The rest of removeFromQueue; was is the current item when it was called.
AfterRemove ==
    /\ Task("removed")
    /\ LET t == tasks[1]
       IN  IF t.song = t.was
           THEN /\ Stop
                /\ current' = None
                /\ writes' = Append(writes, [Unawaited EXCEPT !.rest = Rest("cut", t.song, None)])
                /\ UNCHANGED pending
           ELSE /\ pending' = IF pending = t.song THEN None ELSE pending
                /\ UNCHANGED <<audio, snap, current, writes>>
    /\ UNCHANGED <<queue, loads, next, facade, loaded, playEvent, events>>

\* The rest of clearSongsBelow, once per removed item, and the last of removeFromQueue
AfterCut ==
    /\ Task("cut")
    /\ pending' = IF pending = tasks[1].song THEN None ELSE pending
    /\ UNCHANGED <<state, loads, next, facade, element, events>>

AfterStation ==
    /\ Task("clear")
    /\ ClearQueueState(Rest("empty", None, None))
    /\ UNCHANGED <<queue, loads, next, facade, element, events>>

EmptyQueue ==
    /\ Task("empty")
    /\ SetQueue(<< >>, Rest("emptied", None, tasks[1].was))
    /\ UNCHANGED <<current, loading, next, facade, element, events>>

\* finishQueue returns to its playNext.
AfterEmpty ==
    /\ Task("emptied")
    /\ next' = [n \in Slots |-> IF n = tasks[1].was THEN [next[n] EXCEPT !.pc = "returned"] ELSE next[n]]
    /\ UNCHANGED <<state, loading, facade, element, events>>

\* The rest of removeEndedItemFromQueue, when the item was current and the last
AfterEnded ==
    /\ Task("forget")
    /\ current' = None
    /\ writes' = Append(writes, Unawaited)
    /\ UNCHANGED <<queue, loading, next, facade, element, events>>

\* No promise has settled whose continuation is yet to run.
Settled == tasks = << >> /\ \A n \in Slots : next[n].pc \notin {"called", "pick", "returned"}

Continuations ==
    \/ PlayAdded \/ AfterRemove \/ AfterCut \/ AfterStation \/ EmptyQueue \/ AfterEmpty \/ AfterEnded
    \/ \E n \in Slots : StartTraversal(n) \/ PickNext(n) \/ AfterNext(n)

-----------------------------------------------------------------------------
(* The element and the user *)

Counted == events < MaxEvents /\ events' = events + 1

\* The play event makes the loaded song current.  It is reported as playing
\* whatever has happened since; a pause since then is reported right after.
PlayEvent ==
    /\ playEvent /\ playEvent' = FALSE
    /\ snap' = IF audio = "playing" THEN "playing" ELSE snap
    /\ IF current # loaded
       THEN current' = loaded /\ writes' = Append(writes, Unawaited)
       ELSE UNCHANGED <<current, writes>>
    /\ UNCHANGED <<queue, tasks, loading, next, facade, audio, loaded, events>>

CallNext(n, ended) ==
    /\ next[n].pc = "idle"
    /\ next' = [next EXCEPT ![n] = Called(ended)]

\* No load of the song in the element is still waiting for its first data.
Started == audio = "playing" /\ ~playEvent /\ \A l \in ToSet(loads) : l.at # "play"

\* The snapshot says stopped; isPlaying, which a toggle reads first, stays set
\* unless the element reports a pause before the end.
Ended(n) ==
    /\ Counted /\ Started
    /\ audio' = "stopped"
    /\ CallNext(n, current)
    /\ snap' \in {"stopped"} \cup ({snap} \cap {"playing"})
    /\ UNCHANGED <<state, tasks, loading, facade, loaded, playEvent>>

\* An error of the element: of the network, retried once per song, or another
NetworkError ==
    /\ Counted /\ audio = "playing" /\ ~playEvent
    /\ Position(current, queue) # 0 /\ retried # current
    /\ audio' = "stopped"
    /\ retried' = current
    /\ retries' = retries \cup {current}
    /\ UNCHANGED <<state, tasks, loading, next, playbackEnded, paused, loaded, playEvent, snap>>

ElementError(n) ==
    /\ Counted /\ audio = "playing" /\ ~playEvent
    /\ audio' = "stopped"
    /\ CallNext(n, None)
    /\ UNCHANGED <<state, tasks, loading, facade, loaded, playEvent, snap>>

NetworkRetry(s) ==
    /\ s \in retries
    /\ retries' = retries \ {s}
    /\ IF Position(s, queue) # 0
       THEN Begin(s, FALSE, TRUE)
       ELSE UNCHANGED <<loading, playbackEnded, paused>>
    /\ UNCHANGED <<state, tasks, next, retried, element, events>>

Plays(s) ==
    /\ Begin(s, TRUE, FALSE)
    /\ UNCHANGED <<state, tasks, next, retries, retried, element>>

UserPlays(s) == Counted /\ Position(s, queue) # 0 /\ Plays(s)

UserPrevious ==
    /\ Counted /\ Position(current, queue) > 1
    /\ Plays(queue[Position(current, queue) - 1])

UserNext(n) ==
    /\ Counted
    /\ CallNext(n, None)
    /\ UNCHANGED <<state, tasks, loading, facade, element>>

\* togglePlayback while the player shows that it plays
TogglePauses ==
    /\ Counted /\ snap = "playing"
    /\ paused' = TRUE
    /\ audio' = IF audio = "playing" THEN "paused" ELSE audio
    /\ snap' = IF audio = "playing" THEN "paused" ELSE snap
    /\ UNCHANGED <<state, tasks, loading, next, playbackEnded, retries, retried, loaded, playEvent>>

\* togglePlayback and play of what is loaded and shown as paused
ToggleResumes ==
    /\ Counted /\ snap = "paused"
    /\ paused' = FALSE
    /\ audio' = "playing" /\ playEvent' = TRUE
    /\ UNCHANGED <<state, tasks, loading, next, playbackEnded, retries, retried, loaded, snap>>

\* loadCurrentQueueItemAndPlay: the current song, or the head of the queue
ToggleLoads ==
    /\ Counted /\ snap = "stopped"
    /\ \/ current # None /\ Plays(current)
       \/ current = None /\ queue # << >> /\ Plays(queue[1])

\* play() after the queue has run out starts again at its head.
Restart == Counted /\ playbackEnded /\ queue # << >> /\ Plays(queue[1])

-----------------------------------------------------------------------------
(* Operations on the queue *)

Rewrites(q, rest) ==
    /\ SetQueue(q, rest)
    /\ UNCHANGED <<current, tasks, loads, next, facade, element>>

\* playQueue of an album: in place of the queue
PlayQueue(q) ==
    /\ Counted
    /\ pending' = IF queue = << >> THEN pending ELSE None
    /\ Rewrites(q, Rest("play", q[1], None))

\* After the current song; before all without one; after all when it has left
AfterCurrent ==
    IF current = None THEN 0
    ELSE IF Position(current, queue) = 0 THEN Len(queue) ELSE Position(current, queue)

\* playQueue of a song
PlayNow(s) ==
    /\ Counted /\ Position(s, queue) = 0
    /\ Rewrites(InsertAt(queue, AfterCurrent + 1, s), Rest("play", s, None))
    /\ UNCHANGED pending

\* addToQueue, at the end or as the next song
AddToQueue(s) ==
    /\ Counted /\ Position(s, queue) = 0
    /\ \E at \in {Len(queue), AfterCurrent} :
        Rewrites(InsertAt(queue, at + 1, s), Rest("playIfIdle", s, current))
    /\ UNCHANGED pending

RemoveFromQueue(i) ==
    /\ Counted
    /\ Rewrites(RemoveAt(queue, i), Rest("removed", queue[i], current))
    /\ UNCHANGED pending

ClearSongsAbove(i) ==
    /\ Counted /\ i > 1
    /\ Rewrites(SubSeq(queue, i, Len(queue)), << >>)
    /\ UNCHANGED pending

ClearSongsBelow(i) ==
    /\ Counted /\ i < Len(queue)
    /\ Rewrites(SubSeq(queue, 1, i),
                [k \in 1..(Len(queue) - i) |-> Rest("cut", queue[i + k], None)[1]])
    /\ UNCHANGED pending

ReorderQueue(i, j) ==
    /\ Counted /\ i # j
    /\ Rewrites(InsertAt(RemoveAt(queue, i), j, queue[i]), << >>)
    /\ UNCHANGED pending

\* clearQueue: stop, then forget the station, then clearQueueState
ClearQueue ==
    /\ Counted
    /\ Stop
    /\ writes' = Append(writes, [Unawaited EXCEPT !.rest = Rest("clear", None, None)])
    /\ UNCHANGED <<queue, current, tasks, loading, next, facade, loaded, playEvent>>

\* stopMusicForRadio: pause, and clear the queue
RadioTakesOver ==
    /\ Counted
    /\ paused' = (paused \/ snap = "playing")
    /\ audio' = IF snap = "playing" /\ audio = "playing" THEN "paused" ELSE audio
    /\ snap' = IF snap = "playing" /\ audio = "playing" THEN "paused" ELSE snap
    /\ ClearQueueState(Rest("empty", None, None))
    /\ UNCHANGED <<queue, tasks, loads, next, playbackEnded, retries, retried,
                   loaded, playEvent>>

-----------------------------------------------------------------------------
(* The specification *)

\* The first song of the queue plays
Init ==
    /\ queue = StartQueue /\ current = StartQueue[1]
    /\ writes = << >> /\ tasks = << >>
    /\ pending = None /\ loads = << >>
    /\ next = [n \in Slots |-> Idle]
    /\ retries = {} /\ retried = None /\ playbackEnded = FALSE /\ paused = FALSE
    /\ audio = "playing" /\ loaded = current /\ playEvent = FALSE /\ snap = "playing"
    /\ events = 0

Commits == LoadCommitted \/ QueueCommitted \/ OtherCommitted

Timers(n) == RetryAttempt(n) \/ AttemptTimesOut(n)

Loads == \E k \in DOMAIN loads : UrlResolves(k) \/ UrlFails(k) \/ PlayResolves(k) \/ PlayRejects(k)

Controls ==
    \/ UserPrevious \/ TogglePauses \/ ToggleResumes \/ ToggleLoads \/ Restart
    \/ \E s \in Songs : UserPlays(s)
    \/ \E n \in Slots : UserNext(n)

ElementEvents == PlayEvent \/ NetworkError \/ \E n \in Slots : Ended(n) \/ ElementError(n)

Edits ==
    \/ ClearQueue \/ RadioTakesOver
    \/ \E q \in Albums : PlayQueue(q)
    \/ \E s \in Songs : PlayNow(s) \/ AddToQueue(s)
    \/ \E i \in 1..Len(queue) : RemoveFromQueue(i) \/ ClearSongsAbove(i) \/ ClearSongsBelow(i)
    \/ \E i, j \in 1..Len(queue) : ReorderQueue(i, j)

Next ==
    \/ Continuations
    \/ /\ Settled
       /\ \/ Commits \/ Loads \/ ElementEvents \/ Controls \/ Edits
          \/ \E n \in Slots : Timers(n)
          \/ \E s \in Songs : NetworkRetry(s)

Spec == Init /\ [][Next]_vars

\* Continuations run, IndexedDB commits and timers fire.  A url, the data of the
\* element and the user need never come.
Fairness ==
    /\ WF_vars(Continuations)
    /\ WF_vars(Settled /\ Commits)
    /\ \A n \in Slots : WF_vars(Settled /\ Timers(n))

FairSpec == Spec /\ Fairness

-----------------------------------------------------------------------------
(* Properties *)

\* Every variable keeps its shape; one load at most has the element, and a load
\* waits for its write exactly as long as the write is due.
TypeOK ==
    /\ queue \in Seq(Songs) /\ current \in Songs \cup {None} /\ pending \in Songs \cup {None}
    /\ \A w \in ToSet(writes) : w.what \in {"load", "queue", "nothing"} /\ w.gone \subseteq Songs
    /\ \A i, j \in DOMAIN loads : loads[i].id = loads[j].id => i = j
    /\ \A l \in ToSet(loads) : l.song \in Songs /\ l.at \in {"url", "write", "play", "replaced"}
    /\ \A i, j \in DOMAIN loads : loads[i].at = "play" /\ loads[j].at = "play" => i = j
    /\ {l.id : l \in {l \in ToSet(loads) : l.at = "write"}} =
            {w.load : w \in {w \in ToSet(writes) : w.what = "load"}}
    /\ \A n \in Slots : next[n].pc \in {"idle", "called", "pick", "load", "delay", "clearing", "returned"}
    /\ retries \subseteq Songs /\ retried \in Songs \cup {None}
    /\ audio \in {"playing", "paused", "stopped"} /\ snap \in {"playing", "paused", "stopped"}
    /\ loaded \in Songs \cup {None}

\* htmlAudio.ts:315-320, 358-374.  A load that answers late never replaces a later one:
\* the loads that reach the element reach it in the order they were asked for.
NeverGoesBack == \A l \in ToSet(loads) : l.at = "write" => ~l.overtaken

\* htmlAudio.ts:358-377, 755-761.  When no write and no event is due, the song
\* shown as current, if any, is the one that plays.
ShownIsPlayed ==
    (writes = << >> /\ Settled /\ ~playEvent /\ audio = "playing" /\ current # None)
        => current = loaded

\* htmlAudio.ts:455-458, player.ts:598-605.  A song that a load starts has cleared
\* the mark that the queue ran out, also when playNext sets it while the load is
\* under way: only a resume can play with the mark.
LoadsClearTheMark ==
    [][(Started /\ playbackEnded)' /\ ~(Started /\ playbackEnded) => PlayEvent]_vars

\* player.ts:1012-1014.  A load that hangs does not wedge the traversal.
TraversalEnds == \A n \in Slots : next[n].pc # "idle" ~> next[n].pc = "idle"

\* loadGuard.ts:3-5.  A late load does not start a song that has left the queue
\* and whose departure has been dealt with, so that nothing will stop it.
DepartedNeverStarts ==
    [][LoadCommitted /\ audio' = "playing" =>
        \/ Position(loaded', queue) # 0
        \/ \E w \in ToSet(writes) : loaded' \in w.gone]_vars

\* player.ts:598-605.  What plays has cleared the mark, or addToQueue would start
\* a song over the one that plays.
EndedIsIdle == Started => ~playbackEnded

\* playerState.ts:16.  A song that is up next and in the queue stays up next until
\* another is chosen, its own load ends, or the queue is cleared.
ChoiceIsKept ==
    [][(pending # None /\ pending' = None /\ Position(pending, queue) # 0 /\ events' = events)
        => (\/ \A l \in ToSet(loads) : l.song = pending => ~l.current
            \/ \E l \in ToSet(loads) : l.song = pending /\ l \notin ToSet(loads'))]_vars

\* player.ts:146-152.  The second attempt of a traversal does not undo a pause.
PauseIsKept == [][(\E n \in Slots : RetryAttempt(n)) => paused' = paused]_vars

\* player.ts:278-292.  A retry that comes late does not take over from another
\* song that plays.
RetryGivesWay ==
    [][\A s \in retries : NetworkRetry(s) /\ Started /\ loaded # s => pending' = pending]_vars

\* player.ts:1012-1014.  A traversal whose load has given way leaves something
\* that plays or loads.
TraversalPlays ==
    [][\A n \in Slots :
        (next[n].pc = "load" /\ next'[n].pc = "returned" /\ audio' = "stopped" /\ current # None)
            => loads' # << >>]_vars
=============================================================================
