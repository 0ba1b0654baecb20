------------------------------- MODULE AddPeer -------------------------------
(***************************************************************************)
(* The add-peer flow: the machine of haruspex (machine.ts), the runner     *)
(* that executes its effects (runner.ts), the store of pending remotes and *)
(* of saved remotes behind it, and the other writers of these stores: the  *)
(* push handler of the app, the check of pending knocks at boot, the       *)
(* pairing of players in the modal, and the deletion of a saved remote.    *)
(*                                                                         *)
(* Every dispatch drains its own list of effects and waits at each of      *)
(* them, so several lists (chains) run at once over one context.  An       *)
(* outcome is fed to the context as it is THEN.  The effects that do not   *)
(* wait are part of the step that emits them.                              *)
(***************************************************************************)
EXTENDS Integers, Sequences, Functions

CONSTANTS
    Addrs,       \* addresses of peers and servers
    Http,        \* those of them that are base urls
    NoAddr,
    Charnel,     \* the app keeps remotes in sqlite (else the browser, in IndexedDB)
    Chains,      \* dispatches that can be draining at the same time
    NoChain,
    MaxRecords,  \* bound: records of the pending store and its readers
    MaxEvents,   \* bound: events that emit effects, but for opening the
                 \* modal and knocking; HostCloses
    MaxFaults    \* bound: operations of the store that fail, remotes deleted,
                 \* reloads of the page

ASSUME AddPeerAssumption ==
    /\ Http \subseteq Addrs /\ NoAddr \notin Addrs /\ NoChain \notin Chains
    /\ Charnel \in BOOLEAN /\ MaxRecords \in Nat \ {0} /\ MaxEvents \in Nat /\ MaxFaults \in Nat

VARIABLES
    ctx,        \* AddPeerContext
    open,       \* the modal is open
    todo,       \* per chain, the effects it has yet to finish; the head runs
    current,    \* the chain whose check has the current probeGeneration
    timer,      \* the dismiss timer is armed
    pending,    \* the pending_remotes store
    checking,   \* records whose knock status the check at boot has asked for
    saved,      \* rows of the remotes store, per address
    deleted,    \* history: addresses a row of which was deleted since ctx was initial
    written,    \* history: addresses whose upsert has been tried
    events, faults

vars == <<ctx, open, todo, current, timer, pending, checking, saved, deleted,
          written, events, faults>>

Stages == {"testing", "connected", "failed",
           "knock_pending", "knock_accepted", "knock_rejected"}
KnockStages == {"knock_pending", "knock_accepted", "knock_rejected"}
Records == [id : 1..MaxRecords, addr : Addrs, stage : Stages]
NoRecord == [id |-> 0, addr |-> NoAddr, stage |-> "failed"]

Ops == {"load", "reload", "duplicate", "find", "write", "delete", "deleteAddr", "probe",
        "status", "knock", "auth", "create", "save", "timer", "accept"}
Effects == [op : Ops, addr : Addrs \cup {NoAddr}, id : 0..MaxRecords,
            stage : Stages, by : {"flow", "app", "auto", "boot"}]

Effect(op, a) == [op |-> op, addr |-> a, id |-> 0, stage |-> "testing", by |-> "flow"]
Upsert(a, s)  == [Effect("find", a) EXCEPT !.stage = s]
Delete(i)     == [Effect("delete", NoAddr) EXCEPT !.id = i]
Completed(a)  == <<Effect("deleteAddr", a), Effect("load", NoAddr), Effect("timer", NoAddr)>>

InitialContext ==
    [step |-> "url", sub |-> "input", addr |-> NoAddr, known |-> {}, retry |-> NoRecord,
     remote |-> NoAddr, existing |-> NoAddr, player |-> FALSE, knocks |-> FALSE]

Init ==
    /\ ctx = InitialContext /\ open = FALSE
    /\ todo = [c \in Chains |-> <<>>] /\ current = NoChain /\ timer = FALSE
    /\ pending = {} /\ checking = {}
    /\ saved = [a \in Addrs |-> 0] /\ deleted = {}
    /\ written = {} /\ events = 0 /\ faults = 0

-----------------------------------------------------------------------------
(* The machine: transition(ctx, event), one operator per outcome.  Each    *)
(* gives the next context and the effects that are emitted.                *)

Result(c, effects) == [ctx |-> c, effects |-> effects]
Ignored == Result(ctx, <<>>)
UrlInput == [ctx EXCEPT !.step = "url", !.sub = "input"]
KnockForm == ctx.step = "url" /\ ctx.sub = "knock_form"

Submitted(a, player) ==
    Result([ctx EXCEPT !.step = "testing", !.addr = a, !.knocks = FALSE, !.retry = NoRecord,
                       !.existing = NoAddr, !.player = player],
           <<Effect("duplicate", a)>>)

\* Mutant: the peer is probed first.
OnDuplicateProbingFirst(existing) ==
    IF ctx.step # "testing" THEN Ignored
    ELSE IF existing # NoAddr /\ ctx.addr \in Http THEN Result(UrlInput, <<>>)
    ELSE Result([ctx EXCEPT !.existing = existing],
                <<Effect("probe", ctx.addr), Upsert(ctx.addr, "testing")>>)

OnDuplicate(existing) ==
    IF ctx.step # "testing" THEN Ignored
    ELSE IF existing # NoAddr /\ ctx.addr \in Http THEN Result(UrlInput, <<>>)
    ELSE Result([ctx EXCEPT !.existing = existing],
                <<Upsert(ctx.addr, "testing"), Effect("probe", ctx.addr)>>)

\* What probeConnection can report of a peer.
Outcomes ==
    [kind : {"already_authed"}, knocks : BOOLEAN, player : BOOLEAN]
      \cup [kind : {"needs_knock"}, knocks : {TRUE}, player : BOOLEAN]
      \cup [kind : {"needs_auth"}, knocks : {FALSE}, player : BOOLEAN]
      \cup [kind : {"failed"}, knocks : {FALSE}, player : {FALSE}]

OnConnection(o) ==
    LET reached == [ctx EXCEPT !.knocks = o.knocks]
        form    == [reached EXCEPT !.step = "url", !.sub = "knock_form"]
        auth    == [reached EXCEPT !.step = "auth"]
        connected == <<Upsert(ctx.addr, "connected")>>
    IN  CASE ctx.step # "testing" -> Ignored
          [] ctx.step = "testing" /\ o.kind = "failed" ->
                Result(UrlInput, <<Upsert(ctx.addr, "failed")>>)
          [] ctx.step = "testing" /\ o.kind # "failed" /\ o.player ->
                Result(IF /\ o.knocks /\ o.kind # "already_authed" /\ ~ctx.player
                          /\ ctx.existing = NoAddr /\ ctx.addr \notin Http
                       THEN form ELSE auth, connected)
          [] OTHER ->
                IF ctx.existing # NoAddr
                THEN Result([ctx EXCEPT !.step = "complete", !.remote = ctx.existing],
                            Completed(ctx.addr))
                ELSE IF o.kind = "already_authed"
                THEN Result(reached, <<Effect("create", ctx.addr)>>)
                ELSE Result(IF o.kind = "needs_knock" THEN form ELSE auth, connected)

OnKnockSent(ok) ==
    IF KnockForm /\ ok
    THEN Result([ctx EXCEPT !.step = "knock_sent"], <<Upsert(ctx.addr, "knock_pending")>>)
    ELSE Ignored

\* What probeKnockStatus can report; an accepted knock may or may not carry info.
Statuses == {"accepted_authed", "accepted_needs_auth", "denied", "pending", "unreachable"}

OnStatus(kind, knocks) ==
    LET was  == ctx.retry
        done == IF was = NoRecord THEN <<>> ELSE <<Delete(was.id)>>
        told == [ctx EXCEPT !.retry = NoRecord, !.knocks = knocks]
    IN  IF ctx.step # "testing" THEN Ignored
        ELSE CASE kind = "accepted_authed" ->
                     Result(told, done \o <<Effect("create", ctx.addr)>>)
               [] kind = "accepted_needs_auth" -> Result([told EXCEPT !.step = "auth"], done)
               [] kind = "denied" ->
                     Result([UrlInput EXCEPT !.retry = NoRecord],
                            IF was = NoRecord THEN <<>>
                                              ELSE <<Upsert(was.addr, "knock_rejected")>>)
               [] OTHER -> Result([UrlInput EXCEPT !.retry = NoRecord], <<>>)

OnAuth(ok) ==
    IF ctx.step = "auth" /\ ok THEN Result(ctx, <<Effect("create", ctx.addr)>>) ELSE Ignored

\* Mutants: the error is not looked at; it is recorded like that of a probe.
OnCreatedAnyway(ok, a) ==
    Result([ctx EXCEPT !.step = "complete", !.remote = a], Completed(ctx.addr))
OnCreatedRecording(ok, a) ==
    IF ok THEN Result([ctx EXCEPT !.step = "complete", !.remote = a], Completed(ctx.addr))
          ELSE Result(UrlInput, <<Upsert(ctx.addr, "failed")>>)

OnCreated(ok, a) ==
    IF ok THEN Result([ctx EXCEPT !.step = "complete", !.remote = a], Completed(ctx.addr))
          ELSE Result(UrlInput, <<>>)

-----------------------------------------------------------------------------
(* The runner.  Chain c goes on with `effects`; starting a check makes it   *)
(* the one whose outcome is not superseded, until it has been answered.    *)

Continue(c, effects) ==
    /\ todo' = [todo EXCEPT ![c] = effects]
    /\ current' = IF effects # <<>> /\ Head(effects).op \in {"probe", "status"} THEN c
                  ELSE IF current = c THEN NoChain ELSE current

Rest(c) == IF todo[c] = <<>> THEN <<>> ELSE Tail(todo[c])
Feed(c, result) ==
    /\ ctx' = result.ctx
    /\ Continue(c, result.effects \o Rest(c))

Running(c, op) == todo[c] # <<>> /\ Head(todo[c]).op = op
Idle == {c \in Chains : todo[c] = <<>>}

\* An id no store, snapshot or effect refers to: ids are random uuids.
UsedIds ==
    {r.id : r \in pending \cup ctx.known} \cup {ctx.retry.id}
      \cup UNION {{e.id : e \in Range(todo[c])} : c \in Chains}
FreshIds == (1..MaxRecords) \ UsedIds

Store == <<pending, checking, saved, deleted>>
Bounds == <<events, faults>>

Load(c) ==
    /\ Running(c, "load") \/ Running(c, "reload")
    /\ Feed(c, Result([ctx EXCEPT !.known = pending], <<>>))
    /\ UNCHANGED <<open, timer, Store, written, Bounds>>

CheckDuplicate(c) ==
    /\ Running(c, "duplicate")
    /\ LET a == Head(todo[c]).addr
       IN  Feed(c, OnDuplicate(IF saved[a] > 0 THEN a ELSE NoAddr))
    /\ UNCHANGED <<open, timer, Store, written, Bounds>>

\* upsertPending, as far as the lookup by address
UpsertFinds(c) ==
    /\ Running(c, "find")
    /\ LET e == Head(todo[c])
           found == {r.id : r \in {p \in pending : p.addr = e.addr}}
       IN  \E i \in (IF found = {} THEN {0} ELSE found) :
               Continue(c, <<[e EXCEPT !.op = "write", !.id = i]>> \o Rest(c))
    /\ UNCHANGED <<ctx, open, timer, Store, written, Bounds>>

SetStage(i, s) == {IF r.id = i THEN [r EXCEPT !.stage = s] ELSE r : r \in pending}

\* upsertPending, the update of the record found or the creation of one
UpsertWrites(c) ==
    /\ Running(c, "write")
    /\ LET e == Head(todo[c])
       IN  /\ \/ e.id # 0 /\ pending' = SetStage(e.id, e.stage)
              \/ /\ e.id = 0 /\ FreshIds # {}
                 /\ pending' = pending \cup
                        {[id |-> CHOOSE i \in FreshIds : TRUE, addr |-> e.addr, stage |-> e.stage]}
           /\ written' = written \cup {e.addr}
    /\ Continue(c, <<Effect("reload", NoAddr)>> \o Rest(c))
    /\ UNCHANGED <<ctx, open, timer, checking, saved, deleted, Bounds>>

\* Mutant: an upsert that fails ends its chain.
StoreFailureThrows(c) ==
    /\ faults < MaxFaults /\ todo[c] # <<>>
    /\ Head(todo[c]).op \in {"find", "write"}
    /\ Continue(c, <<>>)
    /\ written' = written \cup {Head(todo[c]).addr}
    /\ faults' = faults + 1
    /\ UNCHANGED <<ctx, open, timer, Store, events>>

\* A store operation fails: the runner swallows it and drains what is left.
\* A list that cannot be read is empty, but for the one an upsert reads last.
StoreFails(c) ==
    /\ faults < MaxFaults /\ todo[c] # <<>>
    /\ LET e == Head(todo[c])
       IN  /\ e.op \in {"load", "reload", "duplicate", "find", "write", "delete", "deleteAddr"}
           /\ IF e.op = "duplicate" THEN Feed(c, OnDuplicate(NoAddr))
              ELSE /\ Continue(c, Rest(c))
                   /\ ctx' = IF e.op = "load" THEN [ctx EXCEPT !.known = {}] ELSE ctx
           /\ written' = IF e.op \in {"find", "write"} THEN written \cup {e.addr} ELSE written
    /\ faults' = faults + 1
    /\ UNCHANGED <<open, timer, Store, events>>

DeletePending(c) ==
    /\ Running(c, "delete")
    /\ pending' = {r \in pending : r.id # Head(todo[c]).id}
    /\ Continue(c, Rest(c))
    /\ UNCHANGED <<ctx, open, timer, checking, saved, deleted, written, Bounds>>

DeletePendingByAddr(c) ==
    /\ Running(c, "deleteAddr")
    /\ LET found == {r \in pending : r.addr = Head(todo[c]).addr}
       IN  \/ found = {} /\ pending' = pending
           \/ \E r \in found : pending' = pending \ {r}
    /\ Continue(c, Rest(c))
    /\ UNCHANGED <<ctx, open, timer, checking, saved, deleted, written, Bounds>>

\* The outcome of a superseded check is dropped, and its chain goes on.
ProbeAnswers(c) ==
    /\ Running(c, "probe")
    /\ IF c = current THEN \E o \in Outcomes : Feed(c, OnConnection(o))
                      ELSE Continue(c, Rest(c)) /\ UNCHANGED ctx
    /\ UNCHANGED <<open, timer, Store, written, Bounds>>

StatusAnswers(c) ==
    /\ Running(c, "status")
    /\ IF c = current
       THEN \E kind \in Statuses, knocks \in BOOLEAN : Feed(c, OnStatus(kind, knocks))
       ELSE Continue(c, Rest(c)) /\ UNCHANGED ctx
    /\ UNCHANGED <<open, timer, Store, written, Bounds>>

KnockAnswers(c) ==
    /\ Running(c, "knock")
    /\ \E ok \in BOOLEAN : Feed(c, OnKnockSent(ok))
    /\ UNCHANGED <<open, timer, Store, written, Bounds>>

AuthAnswers(c) ==
    /\ Running(c, "auth")
    /\ \E ok \in BOOLEAN : Feed(c, OnAuth(ok))
    /\ UNCHANGED <<open, timer, Store, written, Bounds>>

\* Mutant: a timer that is armed is cancelled and not armed again.
ScheduleTimerOnce(c) ==
    /\ Running(c, "timer")
    /\ timer' = ~timer
    /\ Continue(c, Rest(c))
    /\ UNCHANGED <<ctx, open, Store, written, Bounds>>

ScheduleTimer(c) ==
    /\ Running(c, "timer")
    /\ timer' = TRUE
    /\ Continue(c, Rest(c))
    /\ UNCHANGED <<ctx, open, Store, written, Bounds>>

\* What follows createRemote: the flow hears of it; the app, and a pairing by
\* pin, clear the record if it went well, a pairing without pin always; the
\* check at boot clears the record or leaves it for the user to finish.
AfterCreate(c, ok) ==
    LET e == Head(todo[c])
    IN  CASE e.by = "flow" -> Feed(c, OnCreated(ok, e.addr))
          [] e.by = "app" ->
                Continue(c, IF ok THEN <<Effect("deleteAddr", e.addr)>> ELSE <<>>) /\ UNCHANGED ctx
          [] e.by = "auto" -> Continue(c, <<Effect("deleteAddr", e.addr)>>) /\ UNCHANGED ctx
          [] e.by = "boot" ->
                Continue(c, <<IF ok THEN Delete(e.id)
                              ELSE [Effect("accept", e.addr) EXCEPT !.id = e.id]>>) /\ UNCHANGED ctx

\* createRemote: the check for a remote of that address, before the hello
CreateChecks(c) ==
    /\ Running(c, "create")
    /\ LET e == Head(todo[c])
       IN  IF saved[e.addr] > 0 THEN AfterCreate(c, FALSE)
           ELSE Continue(c, <<[e EXCEPT !.op = "save"]>> \o Rest(c)) /\ UNCHANGED ctx
    /\ UNCHANGED <<open, timer, Store, written, Bounds>>

\* createRemote, after the hello: the row is put, unless the peer did not
\* answer or the unique index of sqlite refuses a second row of the address
CreateSaves(c) ==
    /\ Running(c, "save")
    /\ LET a == Head(todo[c]).addr
       IN  \E ok \in BOOLEAN :
               /\ ok /\ Charnel => a \in Http \/ saved[a] = 0
               /\ saved' = IF ok THEN [saved EXCEPT ![a] = @ + 1] ELSE saved
               /\ AfterCreate(c, ok)
    /\ UNCHANGED <<open, timer, pending, checking, deleted, written, Bounds>>

\* The check at boot could not save an approved peer: left as knock_accepted.
AcceptPending(c) ==
    /\ Running(c, "accept")
    /\ pending' = SetStage(Head(todo[c]).id, "knock_accepted")
    /\ Continue(c, Rest(c))
    /\ UNCHANGED <<ctx, open, timer, checking, saved, deleted, written, Bounds>>

EffectEnds(c) ==
    \/ Load(c) \/ CheckDuplicate(c) \/ UpsertFinds(c) \/ UpsertWrites(c)
    \/ DeletePending(c) \/ DeletePendingByAddr(c) \/ ProbeAnswers(c) \/ StatusAnswers(c)
    \/ KnockAnswers(c) \/ AuthAnswers(c) \/ ScheduleTimer(c)
    \/ CreateChecks(c) \/ CreateSaves(c) \/ AcceptPending(c)

\* The modal is closed by a timer of its own (HostCloses).
TimerFires ==
    /\ timer /\ timer' = FALSE
    /\ IF ctx.step = "complete" THEN ctx' = InitialContext /\ deleted' = {}
                                ELSE UNCHANGED <<ctx, deleted>>
    /\ UNCHANGED <<open, todo, current, pending, checking, saved, written, Bounds>>

-----------------------------------------------------------------------------
(* What the user and the app do.  A dispatch takes a chain that is idle.    *)

Drain(result) ==
    /\ Idle # {} /\ Feed(CHOOSE c \in Idle : TRUE, result)
    /\ UNCHANGED <<timer, pending, checking, saved, written, faults>>

Dispatch(result) ==
    events < MaxEvents /\ events' = events + 1 /\ Drain(result) /\ UNCHANGED deleted

ModalOpen ==
    /\ ~open /\ open' = TRUE /\ deleted' = {}
    /\ Drain(Result(InitialContext, <<Effect("load", NoAddr)>>))
    /\ UNCHANGED events

\* MODAL_CLOSE, and BACK from testing: CANCEL_IN_FLIGHT runs at once.
Cancel(next) ==
    /\ ctx' = next /\ current' = NoChain
    /\ UNCHANGED <<todo, timer, pending, checking, saved, written, Bounds>>

\* handleClose, the only close of the modal that the flow hears of
ModalClose == open /\ open' = FALSE /\ deleted' = {} /\ Cancel(InitialContext)

\* The modal closes over a flow that goes on: 1.5 s after a completion it has
\* seen, at the end of a pairing, or for another modal or a toast.
HostCloses ==
    /\ open /\ open' = FALSE
    /\ events < MaxEvents /\ events' = events + 1
    /\ UNCHANGED <<ctx, todo, current, timer, Store, written, faults>>

BackFromTesting ==
    open /\ ctx.step = "testing" /\ Cancel(UrlInput) /\ UNCHANGED <<open, deleted>>

\* An event of the open modal that emits effects, and one that emits none.
UserEvent(guard, result) == open /\ guard /\ Dispatch(result) /\ UNCHANGED open
Move(guard, to) ==
    /\ open /\ guard /\ ctx' = to
    /\ UNCHANGED <<open, todo, current, timer, Store, written, Bounds>>

SubmitUrl(a, player) == UserEvent(ctx.step = "url", Submitted(a, player))

SubmitKnock ==
    /\ open /\ KnockForm /\ ctx.addr \notin Http
    /\ Drain(Result(ctx, <<Effect("knock", ctx.addr)>>))
    /\ UNCHANGED <<open, deleted, events>>

\* BACK, and CANCEL_KNOCK
Back == Move(ctx.step \in {"auth", "knock_sent"} \/ KnockForm, UrlInput)

\* USE_INVITE_CODE and PASSKEY_SIGNIN
UseInviteCode == Move(KnockForm, [ctx EXCEPT !.step = "auth"])

RequestAccess ==
    Move(ctx.step = "auth" /\ ctx.addr \notin Http /\ ctx.knocks,
         [ctx EXCEPT !.step = "url", !.sub = "knock_form"])

\* SUBMIT_AUTH and PASSKEY_AUTH
SubmitAuth == UserEvent(ctx.step = "auth", Result(ctx, <<Effect("auth", ctx.addr)>>))

RetryPending(r) ==
    UserEvent(ctx.step = "url" /\ r \in ctx.known,
              IF r.stage \notin KnockStages THEN Submitted(r.addr, FALSE)
              ELSE Result([ctx EXCEPT !.step = "testing", !.addr = r.addr, !.retry = r],
                          <<Effect("status", r.addr)>>))

RemovePending(r) ==
    UserEvent(r \in ctx.known, Result(ctx, <<Delete(r.id), Effect("load", NoAddr)>>))

\* COMPLETE_PEER_ADDR: a knock was accepted or a device linked, modal open
PeerCompletes(a) ==
    /\ Charnel /\ a \notin Http
    /\ UserEvent(ctx.step # "complete" /\ a \in {ctx.addr} \cup {r.addr : r \in ctx.known},
                 Result([ctx EXCEPT !.step = "testing", !.addr = a], <<Effect("create", a)>>))

\* The same push while the modal is closed: the app saves the remote itself,
\* and clears the record (a device link of a remote it has clears nothing).
PushWhileClosed(a) ==
    /\ Charnel /\ a \notin Http /\ ~open
    /\ \E effects \in (IF saved[a] = 0 THEN {<<[Effect("create", a) EXCEPT !.by = "app"]>>}
                                       ELSE {<<Effect("deleteAddr", a)>>, <<>>}) :
           Dispatch(Result(ctx, effects))
    /\ UNCHANGED open

\* A player has taken the pin ("app": what follows is as for a push), or knows
\* this device already ("auto").  A remote it has is renamed, which is left out.
PairPlayer ==
    /\ (ctx.step = "auth" \/ KnockForm) /\ ctx.addr \notin Http
    /\ \E by \in (IF open THEN {"app", "auto"} ELSE {"auto"}) :
           Dispatch(Result(ctx, IF saved[ctx.addr] = 0
                                THEN <<[Effect("create", ctx.addr) EXCEPT !.by = by]>>
                                ELSE <<Effect("deleteAddr", ctx.addr)>>))
    /\ UNCHANGED open

\* deleteRemote, from the settings or the list of players
DeleteRemote(a) ==
    /\ saved[a] > 0 /\ saved' = [saved EXCEPT ![a] = @ - 1]
    /\ deleted' = deleted \cup {a}
    /\ faults < MaxFaults /\ faults' = faults + 1
    /\ UNCHANGED <<ctx, open, todo, current, timer, pending, checking, written, events>>

\* The page is reloaded: what was in flight is lost, and the knocks pending in
\* the store are checked (checkPendingKnockApprovals).
Restart ==
    /\ faults < MaxFaults /\ faults' = faults + 1
    /\ ctx' = InitialContext /\ open' = FALSE /\ timer' = FALSE
    /\ todo' = [c \in Chains |-> <<>>] /\ current' = NoChain
    /\ checking' = {r \in pending : r.stage = "knock_pending"}
    /\ deleted' = {}
    /\ UNCHANGED <<pending, saved, written, events>>

\* checkOne, once the peer has answered about the knock
KnockCheckAnswers(r) ==
    /\ r \in checking /\ checking' = checking \ {r}
    /\ \/ /\ Idle # {}
          /\ Feed(CHOOSE c \in Idle : TRUE,
                  Result(ctx, <<[Effect("create", r.addr) EXCEPT !.by = "boot", !.id = r.id]>>))
          /\ UNCHANGED pending
       \/ /\ pending' = SetStage(r.id, "knock_rejected")
          /\ UNCHANGED <<ctx, todo, current>>
       \/ UNCHANGED <<ctx, todo, current, pending>>
    /\ UNCHANGED <<open, timer, saved, deleted, written, Bounds>>

Next ==
    \/ \E c \in Chains : EffectEnds(c) \/ StoreFails(c)
    \/ TimerFires \/ ModalOpen \/ ModalClose \/ HostCloses \/ BackFromTesting
    \/ \E a \in Addrs, player \in BOOLEAN : SubmitUrl(a, player)
    \/ SubmitKnock \/ Back \/ UseInviteCode \/ RequestAccess \/ SubmitAuth
    \/ \E r \in ctx.known : RetryPending(r) \/ RemovePending(r)
    \/ \E a \in Addrs : PeerCompletes(a) \/ PushWhileClosed(a) \/ DeleteRemote(a)
    \/ PairPlayer \/ Restart \/ \E r \in checking : KnockCheckAnswers(r)

Spec == Init /\ [][Next]_vars

\* Every call settles (the client's requests time out) and timers fire; the
\* user and the peers owe nothing.
FairSpec == Spec /\ WF_vars(TimerFires) /\ \A c \in Chains : WF_vars(EffectEnds(c))

-----------------------------------------------------------------------------
TypeOK ==
    /\ ctx \in [step : {"url", "testing", "auth", "knock_sent", "complete"},
                sub : {"input", "knock_form"}, addr : Addrs \cup {NoAddr},
                known : SUBSET Records, retry : Records \cup {NoRecord},
                remote : Addrs \cup {NoAddr}, existing : Addrs \cup {NoAddr},
                player : BOOLEAN, knocks : BOOLEAN]
    /\ open \in BOOLEAN /\ timer \in BOOLEAN
    /\ todo \in [Chains -> Seq(Effects)] /\ current \in Chains \cup {NoChain}
    /\ pending \subseteq Records /\ checking \subseteq Records
    /\ saved \in [Addrs -> Nat] /\ deleted \subseteq Addrs
    /\ written \subseteq Addrs
    /\ events \in 0..MaxEvents /\ faults \in 0..MaxFaults

Saved == {a \in Addrs : saved[a] > 0}

\* The pending record of an attempt is written (or its store failed) before
\* its address is probed, whichever attempt the answers in between belong to.
ProbedAfterRecorded ==
    \A c \in Chains : Running(c, "probe") => Head(todo[c]).addr \in written

\* The screen that says a remote was added never shows one that is not saved,
\* unless its row was deleted after the flow was opened: the remote found by
\* the duplicate check is shown after the probe without another look.
CompleteIsSaved == ctx.step = "complete" => ctx.remote \in Saved \cup deleted

\* The flow never stays in testing: of all checks that overlap, the one that
\* is not superseded is answered, and a create always reports back.  (The same
\* as: testing leads to a step that is not testing.)
TestingEnds == []<>(ctx.step # "testing")

\* A completed flow is dismissed by the timer armed for it.
CompleteIsDismissed == []<>(ctx.step # "complete")

\* A completed attempt clears the record of the peer that was saved, so that
\* every other attempt can be resumed from the pending list.
ClearedIsSaved ==
    \A c \in Chains :
        Running(c, "deleteAddr") => Head(todo[c]).addr \in Saved \cup deleted \cup {NoAddr}

\* The outcome that will be fed to the attempt on screen is of its own peer.
LiveProbeIsForTarget ==
    \A c \in Chains : Running(c, "probe") /\ c = current /\ ctx.step = "testing"
                          => Head(todo[c]).addr = ctx.addr

\* Each server can only be added once.
OneRemotePerAddress == \A a \in Addrs : saved[a] <= 1
=============================================================================
