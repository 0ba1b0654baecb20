---------------------------- MODULE AddPeerProofs ----------------------------
(***************************************************************************)
(* What the add-peer flow keeps, for any number of peers, of overlapping   *)
(* dispatches and of events.                                               *)
(***************************************************************************)
EXTENDS AddPeer, TLAPS

(* The effects that touch a row of a peer name one.                        *)
AddrOps == {"duplicate", "find", "write", "create", "save"}
Good == {e \in Effects : e.op \in AddrOps => e.addr \in Addrs}
Calm == {e \in Good : e.op # "probe"}

Writes(e) == e.op \in {"find", "write"}

(* Every probe of a list has its address written, or comes after the       *)
(* upsert that writes it.                                                  *)
Recorded(q, w) ==
    \A k \in 1..Len(q) : q[k].op = "probe" =>
        \/ q[k].addr \in w
        \/ \E j \in 1..(k - 1) : Writes(q[j]) /\ q[j].addr = q[k].addr

Emitted(q) == q \in Seq(Good) /\ Recorded(q, {})

Contexts ==
    [step : {"url", "testing", "auth", "knock_sent", "complete"},
     sub : {"input", "knock_form"}, addr : Addrs \cup {NoAddr},
     known : SUBSET Records, retry : Records \cup {NoRecord},
     remote : Addrs \cup {NoAddr}, existing : Addrs \cup {NoAddr},
     player : BOOLEAN, knocks : BOOLEAN]

(* A context where a step that needs an address has one, and where what is *)
(* said to exist does.                                                     *)
Sound(c, rows) ==
    /\ c \in Contexts
    /\ c.step \in {"testing", "auth"} \/ c.sub = "knock_form" => c.addr \in Addrs
    /\ c.step = "complete" => c.remote \in rows
    /\ c.existing \in rows \cup {NoAddr}

SoundResult(r, rows) == Sound(r.ctx, rows) /\ Emitted(r.effects)

(* What the flow may show: the rows, and those deleted while it goes on.   *)
Rows == Saved \cup deleted

ListsAreGood ==
    /\ todo \in [Chains -> Seq(Good)]
    /\ current \in Chains \cup {NoChain}
    /\ \A c \in Chains : Recorded(todo[c], written)

RestTypes ==
    /\ open \in BOOLEAN /\ timer \in BOOLEAN
    /\ pending \in SUBSET Records /\ checking \in SUBSET Records
    /\ saved \in [Addrs -> Nat] /\ deleted \in SUBSET Addrs
    /\ written \in SUBSET Addrs
    /\ events \in 0..MaxEvents /\ faults \in 0..MaxFaults

IInv == Sound(ctx, Rows) /\ ListsAreGood /\ RestTypes

-----------------------------------------------------------------------------
(* Lists of effects.                                                       *)

LEMMA CalmIsEmitted ==
    ASSUME NEW q \in Seq(Calm)
    PROVE  Emitted(q)
<1>1. \A k \in 1..Len(q) : q[k] \in Calm
  OBVIOUS
<1>2. Calm \subseteq Good /\ \A e \in Calm : e.op # "probe"
  BY DEF Calm
<1>3. q \in Seq(Good)
  BY <1>2
<1>4. Recorded(q, {})
  BY <1>1, <1>2 DEF Recorded
<1> QED
  BY <1>3, <1>4 DEF Emitted

LEMMA MoreIsWritten ==
    ASSUME NEW q, NEW w, NEW v, w \subseteq v, Recorded(q, w)
    PROVE  Recorded(q, v)
  BY DEF Recorded

(* What is left of a list once its head has ended.                         *)
LEMMA TailIsRecorded ==
    ASSUME NEW q \in Seq(Good), q # <<>>, NEW w, Recorded(q, w),
           Writes(Head(q)) => Head(q).addr \in w
    PROVE  Tail(q) \in Seq(Good) /\ Recorded(Tail(q), w)
<1>1. Tail(q) \in Seq(Good) /\ Len(Tail(q)) = Len(q) - 1 /\ Len(q) \in Nat \ {0}
  OBVIOUS
<1>2. \A k \in 1..Len(Tail(q)) : k + 1 \in 1..Len(q) /\ Tail(q)[k] = q[k + 1]
  OBVIOUS
<1>3. ASSUME NEW k \in 1..Len(Tail(q)), Tail(q)[k].op = "probe", Tail(q)[k].addr \notin w
      PROVE  \E j \in 1..(k - 1) : Writes(Tail(q)[j]) /\ Tail(q)[j].addr = Tail(q)[k].addr
  <2>1. PICK j \in 1..k : Writes(q[j]) /\ q[j].addr = q[k + 1].addr
    BY <1>2, <1>3 DEF Recorded
  <2>2. q[k + 1].addr \notin w
    BY <1>2, <1>3
  <2>3. j # 1
    BY <2>1, <2>2
  <2>4. j - 1 \in 1..(k - 1) /\ j - 1 \in 1..Len(Tail(q)) /\ (j - 1) + 1 = j
    BY <1>1, <2>3
  <2>5. Tail(q)[j - 1] = q[j]
    BY <1>2, <2>4
  <2> QED
    BY <1>2, <2>1, <2>4, <2>5
<1> QED
  BY <1>1, <1>3 DEF Recorded

(* What is emitted goes before what was left.                              *)
LEMMA EmittedGoesFirst ==
    ASSUME NEW p, Emitted(p), NEW q \in Seq(Good), NEW w, Recorded(q, w)
    PROVE  p \o q \in Seq(Good) /\ Recorded(p \o q, w)
<1> DEFINE r == p \o q
<1>1. p \in Seq(Good)
  BY DEF Emitted
<1>2. /\ r \in Seq(Good) /\ Len(r) = Len(p) + Len(q) /\ Len(p) \in Nat /\ Len(q) \in Nat
      /\ \A k \in 1..Len(p) : r[k] = p[k]
      /\ \A k \in 1..Len(q) : r[Len(p) + k] = q[k]
  BY <1>1
<1> HIDE DEF r
<1>3. ASSUME NEW k \in 1..Len(r), r[k].op = "probe", r[k].addr \notin w
      PROVE  \E j \in 1..(k - 1) : Writes(r[j]) /\ r[j].addr = r[k].addr
  <2>1. CASE k <= Len(p)
    <3>1. k \in 1..Len(p) /\ p[k].op = "probe"
      BY <1>2, <1>3, <2>1
    <3>2. PICK j \in 1..(k - 1) : Writes(p[j]) /\ p[j].addr = p[k].addr
      BY <3>1 DEF Emitted, Recorded
    <3>3. j \in 1..Len(p)
      BY <1>2, <3>1
    <3> QED BY <1>2, <3>1, <3>2, <3>3
  <2>2. CASE k > Len(p)
    <3>0. k - Len(p) \in 1..Len(q) /\ k = Len(p) + (k - Len(p))
      BY <1>2, <2>2
    <3>1. PICK i \in 1..Len(q) : k = Len(p) + i
      BY <3>0
    <3>2. q[i].op = "probe" /\ q[i].addr \notin w
      BY <1>2, <1>3, <3>1
    <3>3. PICK j \in 1..(i - 1) : Writes(q[j]) /\ q[j].addr = q[i].addr
      BY <3>2 DEF Recorded
    <3>4. j \in 1..Len(q) /\ Len(p) + j \in 1..(k - 1)
      BY <1>2, <3>1
    <3> QED BY <1>2, <3>1, <3>3, <3>4
  <2> QED BY <1>2, <2>1, <2>2
<1> QED
  BY <1>2, <1>3 DEF Recorded, r

(* The lookup of an upsert turns into its write.                           *)
LEMMA FindBecomesWrite ==
    ASSUME NEW q \in Seq(Good), q # <<>>, NEW w, Recorded(q, w),
           NEW e \in Good, Writes(e), e.addr = Head(q).addr
    PROVE  <<e>> \o Tail(q) \in Seq(Good) /\ Recorded(<<e>> \o Tail(q), w)
<1> DEFINE r == <<e>> \o Tail(q)
<1>1. Tail(q) \in Seq(Good) /\ Len(Tail(q)) = Len(q) - 1 /\ Len(q) \in Nat \ {0}
  OBVIOUS
<1>2. r \in Seq(Good) /\ Len(r) = Len(q) /\ r[1] = e /\ \A k \in 2..Len(q) : r[k] = q[k]
  BY <1>1
<1> HIDE DEF r
<1>3. ASSUME NEW k \in 1..Len(r), r[k].op = "probe", r[k].addr \notin w
      PROVE  \E j \in 1..(k - 1) : Writes(r[j]) /\ r[j].addr = r[k].addr
  <2>1. k # 1
    BY <1>2, <1>3 DEF Writes
  <2>2. k \in 2..Len(q) /\ q[k].op = "probe" /\ q[k].addr \notin w
    BY <1>1, <1>2, <1>3, <2>1
  <2>3. PICK j \in 1..(k - 1) : Writes(q[j]) /\ q[j].addr = q[k].addr
    BY <1>1, <2>2 DEF Recorded
  <2>4. CASE j = 1
    BY <1>1, <1>2, <2>2, <2>3, <2>4
  <2>5. CASE j # 1
    <3>1. j \in 2..Len(q)
      BY <1>1, <2>2, <2>5
    <3> QED BY <1>2, <2>2, <2>3, <3>1
  <2> QED BY <2>4, <2>5
<1> QED
  BY <1>2, <1>3 DEF Recorded, r

-----------------------------------------------------------------------------
(* The effects.                                                            *)

LEMMA EffectIsGood ==
    ASSUME NEW op \in Ops, NEW a \in Addrs \cup {NoAddr}, op \in AddrOps => a \in Addrs
    PROVE  /\ Effect(op, a) \in Good /\ Effect(op, a).op = op /\ Effect(op, a).addr = a
           /\ op # "probe" => Effect(op, a) \in Calm
<1>1. 0 \in 0..MaxRecords
  BY AddPeerAssumption
<1>2. Effect(op, a) \in Effects
  BY <1>1 DEF Effect, Effects, Stages
<1> QED
  BY <1>2 DEF Effect, Good, Calm

LEMMA UpsertIsCalm ==
    ASSUME NEW a \in Addrs, NEW s \in Stages
    PROVE  Upsert(a, s) \in Calm /\ Writes(Upsert(a, s)) /\ Upsert(a, s).addr = a
<1>1. Effect("find", a) \in Effects
  BY EffectIsGood DEF Ops, AddrOps, Good
<1>2. Upsert(a, s) \in Effects /\ Upsert(a, s).op = "find" /\ Upsert(a, s).addr = a
  BY <1>1 DEF Upsert, Effects, Effect
<1> QED
  BY <1>2 DEF Good, Calm, Writes

LEMMA EmptyIsCalm == <<>> \in Seq(Calm) /\ Emitted(<<>>)
<1>1. <<>> \in Seq(Calm)
  OBVIOUS
<1> QED
  BY <1>1, CalmIsEmitted

LEMMA UpsertIsEmitted ==
    ASSUME NEW a \in Addrs, NEW s \in Stages
    PROVE  Emitted(<<Upsert(a, s)>>)
<1>1. <<Upsert(a, s)>> \in Seq(Calm)
  BY UpsertIsCalm
<1> QED
  BY <1>1, CalmIsEmitted

LEMMA DeleteIsCalm ==
    ASSUME NEW i \in 0..MaxRecords
    PROVE  Delete(i) \in Calm
<1>1. Effect("delete", NoAddr) \in Effects
  BY EffectIsGood DEF Ops, AddrOps, Good
<1>2. Delete(i) \in Effects /\ Delete(i).op = "delete"
  BY <1>1 DEF Delete, Effects, Effect
<1> QED
  BY <1>2 DEF Good, Calm, AddrOps

LEMMA CompletedIsCalm ==
    ASSUME NEW a \in Addrs \cup {NoAddr}
    PROVE  Completed(a) \in Seq(Calm)
<1>1. /\ Effect("deleteAddr", a) \in Calm /\ Effect("load", NoAddr) \in Calm
      /\ Effect("timer", NoAddr) \in Calm
  BY EffectIsGood DEF Ops, AddrOps
<1> QED
  BY <1>1 DEF Completed

(* The list of a new attempt: its address is recorded, then probed.        *)
LEMMA AttemptIsEmitted ==
    ASSUME NEW a \in Addrs
    PROVE  Emitted(<<Upsert(a, "testing"), Effect("probe", a)>>)
<1> DEFINE u == Upsert(a, "testing")
           e == Effect("probe", a)
           q == <<u, e>>
<1>1. u \in Calm /\ Writes(u) /\ u.addr = a
  BY UpsertIsCalm DEF Stages
<1>2. e \in Good /\ e.op = "probe" /\ e.addr = a
  BY EffectIsGood DEF Ops, AddrOps
<1> HIDE DEF u, e
<1>3. q \in Seq(Good) /\ Len(q) = 2 /\ q[1] = u /\ q[2] = e
  BY <1>1, <1>2 DEF Calm
<1>4. Recorded(q, {})
  <2> HIDE DEF q
  <2>1. 1 \in 1..(2 - 1) /\ \A k \in 1..2 : k = 1 \/ k = 2
    OBVIOUS
  <2>2. u.op # "probe"
    BY <1>1 DEF Writes
  <2> QED
    BY <1>1, <1>2, <1>3, <2>1, <2>2 DEF Recorded
<1> QED
  BY <1>3, <1>4 DEF Emitted, u, e

-----------------------------------------------------------------------------
(* The machine: from a sound context, every outcome leads to a sound one.  *)

LEMMA SoundParts ==
    ASSUME NEW rows, NEW c, Sound(c, rows), NEW q, Emitted(q)
    PROVE  SoundResult(Result(c, q), rows)
  BY DEF SoundResult, Result

LEMMA InitialIsSound ==
    ASSUME NEW rows
    PROVE  Sound(InitialContext, rows)
  BY AddPeerAssumption DEF Sound, InitialContext, Contexts

LEMMA UrlInputIsSound ==
    ASSUME NEW rows, Sound(ctx, rows)
    PROVE  /\ Sound(UrlInput, rows) /\ Sound([UrlInput EXCEPT !.retry = NoRecord], rows)
  BY DEF Sound, UrlInput, Contexts

LEMMA SubmittedIsSound ==
    ASSUME NEW rows, Sound(ctx, rows), NEW a \in Addrs, NEW player \in BOOLEAN
    PROVE  SoundResult(Submitted(a, player), rows)
<1> DEFINE next == [ctx EXCEPT !.step = "testing", !.addr = a, !.knocks = FALSE,
                               !.retry = NoRecord, !.existing = NoAddr, !.player = player]
<1>1. Sound(next, rows)
  BY DEF Sound, Contexts
<1>2. <<Effect("duplicate", a)>> \in Seq(Calm)
  BY EffectIsGood DEF Ops, AddrOps
<1> QED
  BY <1>1, <1>2, CalmIsEmitted DEF Submitted, SoundResult, Result

LEMMA OnDuplicateIsSound ==
    ASSUME NEW rows, Sound(ctx, rows), NEW x \in rows \cup {NoAddr}, rows \subseteq Addrs
    PROVE  SoundResult(OnDuplicate(x), rows)
<1>1. CASE ctx.step # "testing"
  BY <1>1, EmptyIsCalm DEF OnDuplicate, Ignored, SoundResult, Result
<1>2. CASE ctx.step = "testing" /\ x # NoAddr /\ ctx.addr \in Http
  BY <1>2, EmptyIsCalm, UrlInputIsSound DEF OnDuplicate, SoundResult, Result
<1>3. CASE ctx.step = "testing" /\ ~(x # NoAddr /\ ctx.addr \in Http)
  <2>1. ctx.addr \in Addrs /\ ctx \in Contexts
    BY <1>3 DEF Sound
  <2>2. Sound([ctx EXCEPT !.existing = x], rows)
    BY <1>3 DEF Sound, Contexts
  <2>3. OnDuplicate(x) = Result([ctx EXCEPT !.existing = x],
                                <<Upsert(ctx.addr, "testing"), Effect("probe", ctx.addr)>>)
    BY <1>3 DEF OnDuplicate
  <2> QED
    BY <2>1, <2>2, <2>3, AttemptIsEmitted DEF SoundResult, Result
<1> QED
  BY <1>1, <1>2, <1>3

LEMMA OnConnectionIsSound ==
    ASSUME NEW rows, Sound(ctx, rows), NEW o \in Outcomes
    PROVE  SoundResult(OnConnection(o), rows)
<1> DEFINE reached == [ctx EXCEPT !.knocks = o.knocks]
           form    == [reached EXCEPT !.step = "url", !.sub = "knock_form"]
           auth    == [reached EXCEPT !.step = "auth"]
           done    == [ctx EXCEPT !.step = "complete", !.remote = ctx.existing]
<1>1. CASE ctx.step # "testing"
  BY <1>1, EmptyIsCalm DEF OnConnection, Ignored, SoundResult, Result
<1>2. CASE ctx.step = "testing"
  <2>1. ctx \in Contexts /\ ctx.addr \in Addrs /\ o.knocks \in BOOLEAN
    BY <1>2 DEF Sound, Outcomes
  <2>2. Sound(reached, rows) /\ Sound(form, rows) /\ Sound(auth, rows) /\ Sound(UrlInput, rows)
    BY <1>2, <2>1 DEF Sound, Contexts, UrlInput
  <2>3. ctx.existing # NoAddr => Sound(done, rows)
    BY <1>2, <2>1 DEF Sound, Contexts
  <2>4. /\ Emitted(<<Upsert(ctx.addr, "failed")>>) /\ Emitted(<<Upsert(ctx.addr, "connected")>>)
    BY <2>1, UpsertIsEmitted DEF Stages
  <2>5. Emitted(Completed(ctx.addr)) /\ Emitted(<<Effect("create", ctx.addr)>>)
    <3>1. <<Effect("create", ctx.addr)>> \in Seq(Calm)
      BY <2>1, EffectIsGood DEF Ops, AddrOps
    <3> QED BY <2>1, <3>1, CompletedIsCalm, CalmIsEmitted
  <2> HIDE DEF reached, form, auth, done
  <2>6. CASE o.kind = "failed"
    <3>1. OnConnection(o) = Result(UrlInput, <<Upsert(ctx.addr, "failed")>>)
      BY <1>2, <2>6 DEF OnConnection
    <3> QED BY <2>2, <2>4, <3>1 DEF SoundResult, Result
  <2>7. CASE o.kind # "failed" /\ o.player
    <3>1. \/ OnConnection(o) = Result(form, <<Upsert(ctx.addr, "connected")>>)
          \/ OnConnection(o) = Result(auth, <<Upsert(ctx.addr, "connected")>>)
      BY <1>2, <2>7 DEF OnConnection, form, auth, reached
    <3> QED BY <2>2, <2>4, <3>1 DEF SoundResult, Result
  <2>8. CASE o.kind # "failed" /\ ~o.player
    <3>1. \/ ctx.existing # NoAddr /\ OnConnection(o) = Result(done, Completed(ctx.addr))
          \/ OnConnection(o) = Result(reached, <<Effect("create", ctx.addr)>>)
          \/ OnConnection(o) = Result(form, <<Upsert(ctx.addr, "connected")>>)
          \/ OnConnection(o) = Result(auth, <<Upsert(ctx.addr, "connected")>>)
      BY <1>2, <2>8 DEF OnConnection, form, auth, reached, done
    <3> QED BY <2>2, <2>3, <2>4, <2>5, <3>1 DEF SoundResult, Result
  <2> QED BY <2>6, <2>7, <2>8
<1> QED
  BY <1>1, <1>2

LEMMA OnKnockSentIsSound ==
    ASSUME NEW rows, Sound(ctx, rows), NEW ok \in BOOLEAN
    PROVE  SoundResult(OnKnockSent(ok), rows)
<1>1. CASE KnockForm /\ ok
  <2>1. ctx.addr \in Addrs /\ ctx \in Contexts
    BY <1>1 DEF Sound, KnockForm
  <2>2. Sound([ctx EXCEPT !.step = "knock_sent"], rows)
    BY <2>1 DEF Sound, Contexts
  <2>3. Emitted(<<Upsert(ctx.addr, "knock_pending")>>)
    BY <2>1, UpsertIsEmitted DEF Stages
  <2> QED
    BY <1>1, <2>2, <2>3 DEF OnKnockSent, SoundResult, Result
<1>2. CASE ~(KnockForm /\ ok)
  BY <1>2, EmptyIsCalm DEF OnKnockSent, Ignored, SoundResult, Result
<1> QED
  BY <1>1, <1>2

LEMMA OnStatusIsSound ==
    ASSUME NEW rows, Sound(ctx, rows), NEW kind \in Statuses, NEW knocks \in BOOLEAN
    PROVE  SoundResult(OnStatus(kind, knocks), rows)
<1> DEFINE was  == ctx.retry
           gone == IF was = NoRecord THEN <<>> ELSE <<Delete(was.id)>>
           told == [ctx EXCEPT !.retry = NoRecord, !.knocks = knocks]
           auth == [told EXCEPT !.step = "auth"]
           bare == [UrlInput EXCEPT !.retry = NoRecord]
           mark == IF was = NoRecord THEN <<>> ELSE <<Upsert(was.addr, "knock_rejected")>>
<1>1. CASE ctx.step # "testing"
  BY <1>1, EmptyIsCalm DEF OnStatus, Ignored, SoundResult, Result
<1>2. CASE ctx.step = "testing"
  <2>1. ctx \in Contexts /\ ctx.addr \in Addrs
    BY <1>2 DEF Sound
  <2>2. Sound(told, rows) /\ Sound(auth, rows)
    BY <1>2, <2>1 DEF Sound, Contexts
  <2>3. Sound(bare, rows)
    BY UrlInputIsSound
  <2>4. was # NoRecord => was.id \in 0..MaxRecords /\ was.addr \in Addrs
    BY <2>1, AddPeerAssumption DEF Contexts, Records
  <2>5. gone \in Seq(Calm)
    BY <2>4, DeleteIsCalm
  <2>6. <<Effect("create", ctx.addr)>> \in Seq(Calm)
    BY <2>1, EffectIsGood DEF Ops, AddrOps
  <2>7. Emitted(gone) /\ Emitted(gone \o <<Effect("create", ctx.addr)>>)
    <3>1. gone \o <<Effect("create", ctx.addr)>> \in Seq(Calm)
      BY <2>5, <2>6
    <3> QED BY <2>5, <3>1, CalmIsEmitted
  <2>8. Emitted(mark)
    <3>1. was # NoRecord => Emitted(<<Upsert(was.addr, "knock_rejected")>>)
      BY <2>4, UpsertIsEmitted DEF Stages
    <3> QED BY <3>1, EmptyIsCalm
  <2> HIDE DEF was, gone, told, auth, bare, mark
  <2>9. \/ OnStatus(kind, knocks) = Result(told, gone \o <<Effect("create", ctx.addr)>>)
        \/ OnStatus(kind, knocks) = Result(auth, gone)
        \/ OnStatus(kind, knocks) = Result(bare, mark)
        \/ OnStatus(kind, knocks) = Result(bare, <<>>)
    BY <1>2 DEF OnStatus, was, gone, told, auth, bare, mark
  <2> QED
    <3>1. /\ SoundResult(Result(told, gone \o <<Effect("create", ctx.addr)>>), rows)
          /\ SoundResult(Result(auth, gone), rows)
      BY <2>2, <2>7, SoundParts
    <3>2. SoundResult(Result(bare, mark), rows) /\ SoundResult(Result(bare, <<>>), rows)
      BY <2>3, <2>8, EmptyIsCalm, SoundParts
    <3> QED BY <2>9, <3>1, <3>2
<1> QED
  BY <1>1, <1>2

LEMMA OnAuthIsSound ==
    ASSUME NEW rows, Sound(ctx, rows), NEW ok \in BOOLEAN
    PROVE  SoundResult(OnAuth(ok), rows)
<1>1. CASE ctx.step = "auth" /\ ok
  <2>1. <<Effect("create", ctx.addr)>> \in Seq(Calm)
    BY <1>1, EffectIsGood DEF Ops, AddrOps, Sound
  <2> QED
    BY <1>1, <2>1, CalmIsEmitted DEF OnAuth, SoundResult, Result
<1>2. CASE ~(ctx.step = "auth" /\ ok)
  BY <1>2, EmptyIsCalm DEF OnAuth, Ignored, SoundResult, Result
<1> QED
  BY <1>1, <1>2

LEMMA OnCreatedIsSound ==
    ASSUME NEW rows, Sound(ctx, rows), NEW ok \in BOOLEAN, NEW a \in Addrs, ok => a \in rows
    PROVE  SoundResult(OnCreated(ok, a), rows)
<1>1. CASE ok
  <2>1. Sound([ctx EXCEPT !.step = "complete", !.remote = a], rows)
    BY <1>1 DEF Sound, Contexts
  <2>2. Emitted(Completed(ctx.addr))
    BY CompletedIsCalm, CalmIsEmitted DEF Sound, Contexts
  <2> QED
    BY <1>1, <2>1, <2>2 DEF OnCreated, SoundResult, Result
<1>2. CASE ~ok
  BY <1>2, EmptyIsCalm, UrlInputIsSound DEF OnCreated, SoundResult, Result
<1> QED
  BY <1>1, <1>2

-----------------------------------------------------------------------------
(* The runner.                                                             *)

LEMMA HeadIsGood ==
    ASSUME IInv, NEW c \in Chains, todo[c] # <<>>
    PROVE  Head(todo[c]) \in Good
  BY DEF IInv, ListsAreGood

(* The head of a list has ended: its upsert, if it was one, is recorded.   *)
EndsRecorded(c) ==
    /\ written \subseteq written'
    /\ todo[c] # <<>> /\ Writes(Head(todo[c])) => Head(todo[c]).addr \in written'

LEMMA RestIsRecorded ==
    ASSUME IInv, NEW c \in Chains, EndsRecorded(c)
    PROVE  Rest(c) \in Seq(Good) /\ Recorded(Rest(c), written')
<1>1. todo[c] \in Seq(Good) /\ Recorded(todo[c], written')
  BY MoreIsWritten DEF IInv, ListsAreGood, EndsRecorded
<1>2. CASE todo[c] = <<>>
  BY <1>1, <1>2 DEF Rest
<1>3. CASE todo[c] # <<>>
  BY <1>1, <1>3, TailIsRecorded DEF Rest, EndsRecorded
<1> QED
  BY <1>2, <1>3

LEMMA ListsStayGood ==
    ASSUME IInv, NEW c \in Chains, NEW q \in Seq(Good), Recorded(q, written'),
           written \subseteq written', Continue(c, q)
    PROVE  ListsAreGood'
<1>1. todo \in [Chains -> Seq(Good)] /\ current \in Chains \cup {NoChain}
  BY DEF IInv, ListsAreGood
<1>2. todo' = [todo EXCEPT ![c] = q] /\ current' \in Chains \cup {NoChain}
  BY <1>1 DEF Continue
<1>3. todo' \in [Chains -> Seq(Good)] /\ todo'[c] = q /\ \A d \in Chains \ {c} : todo'[d] = todo[d]
  BY <1>1, <1>2
<1>4. \A d \in Chains \ {c} : Recorded(todo[d], written')
  BY MoreIsWritten DEF IInv, ListsAreGood
<1> QED
  BY <1>2, <1>3, <1>4 DEF ListsAreGood

(* An outcome is fed to the context, and what it emits goes first.         *)
LEMMA FeedKeepsInvariant ==
    ASSUME IInv, NEW c \in Chains, EndsRecorded(c),
           NEW r, SoundResult(r, Rows'), Feed(c, r), RestTypes'
    PROVE  IInv'
<1>1. /\ r.effects \o Rest(c) \in Seq(Good) /\ Recorded(r.effects \o Rest(c), written')
  BY RestIsRecorded, EmittedGoesFirst DEF SoundResult
<1>2. ListsAreGood'
  BY <1>1, ListsStayGood DEF Feed, EndsRecorded
<1>3. Sound(ctx', Rows')
  BY DEF Feed, SoundResult
<1> QED
  BY <1>2, <1>3 DEF IInv, Sound, Contexts

(* A chain goes on, or ends, without an outcome for the context.           *)
LEMMA DropKeepsInvariant ==
    ASSUME IInv, NEW c \in Chains, EndsRecorded(c), Continue(c, Rest(c)),
           Sound(ctx', Rows'), RestTypes'
    PROVE  IInv'
<1>1. ListsAreGood'
  BY RestIsRecorded, ListsStayGood DEF EndsRecorded
<1> QED
  BY <1>1 DEF IInv, Sound, Contexts

LEMMA ReplaceKeepsInvariant ==
    ASSUME IInv, NEW c \in Chains, NEW q \in Seq(Calm), Continue(c, q),
           written' = written, Sound(ctx', Rows'), RestTypes'
    PROVE  IInv'
<1>1. q \in Seq(Good) /\ Recorded(q, {})
  BY CalmIsEmitted DEF Emitted
<1>2. Recorded(q, written')
  BY <1>1, MoreIsWritten
<1> QED
  BY <1>1, <1>2, ListsStayGood DEF IInv, Sound, Contexts

LEMMA RowsStay ==
    ASSUME IInv
    PROVE  /\ Rows \subseteq Addrs
           /\ \A a \in Addrs : (IF saved[a] > 0 THEN a ELSE NoAddr) \in Rows \cup {NoAddr}
           /\ UNCHANGED <<saved, deleted>> => Rows' = Rows
           /\ Sound(ctx, Rows)
  BY DEF Saved, Rows, IInv, RestTypes

(* A row more changes nothing of what was sound.                           *)
LEMMA MoreRowsAreSound ==
    ASSUME NEW c, NEW rows, NEW more, rows \subseteq more, Sound(c, rows)
    PROVE  Sound(c, more)
  BY DEF Sound

LEMMA LoadKeepsInvariant ==
    ASSUME IInv, NEW c \in Chains, Load(c)
    PROVE  IInv'
<1>1. RestTypes' /\ EndsRecorded(c) /\ Rows' = Rows
  BY RowsStay DEF IInv, RestTypes, Load, Store, Bounds, EndsRecorded, Running, Writes
<1>2. Sound([ctx EXCEPT !.known = pending], Rows')
  BY <1>1 DEF IInv, Sound, Contexts, RestTypes
<1>3. SoundResult(Result([ctx EXCEPT !.known = pending], <<>>), Rows')
  BY <1>2, EmptyIsCalm, SoundParts
<1> QED
  BY <1>1, <1>3, FeedKeepsInvariant DEF Load

LEMMA CheckDuplicateKeepsInvariant ==
    ASSUME IInv, NEW c \in Chains, CheckDuplicate(c)
    PROVE  IInv'
<1>1. RestTypes' /\ EndsRecorded(c) /\ Rows' = Rows
  BY RowsStay DEF IInv, RestTypes, CheckDuplicate, Store, Bounds, EndsRecorded, Running, Writes
<1> DEFINE a == Head(todo[c]).addr
           x == IF saved[a] > 0 THEN a ELSE NoAddr
<1>2. a \in Addrs
  BY HeadIsGood DEF CheckDuplicate, Running, Good, AddrOps
<1>3. x \in Rows \cup {NoAddr}
  BY <1>2, RowsStay
<1>4. Feed(c, OnDuplicate(x))
  BY DEF CheckDuplicate
<1> HIDE DEF x
<1>5. SoundResult(OnDuplicate(x), Rows')
  BY <1>1, <1>3, RowsStay, OnDuplicateIsSound
<1> QED
  BY <1>1, <1>4, <1>5, FeedKeepsInvariant

LEMMA AnswersKeepInvariant ==
    ASSUME IInv, NEW c \in Chains,
           ProbeAnswers(c) \/ StatusAnswers(c) \/ KnockAnswers(c) \/ AuthAnswers(c)
    PROVE  IInv'
<1>1. UNCHANGED <<open, timer, Store, written, Bounds>>
  BY DEF ProbeAnswers, StatusAnswers, KnockAnswers, AuthAnswers
<1>2. RestTypes' /\ EndsRecorded(c) /\ Rows' = Rows /\ Sound(ctx, Rows')
  BY <1>1, RowsStay DEF IInv, RestTypes, Store, Bounds, EndsRecorded, Running, Writes,
     ProbeAnswers, StatusAnswers, KnockAnswers, AuthAnswers
<1>3. CASE Continue(c, Rest(c)) /\ UNCHANGED ctx
  BY <1>2, <1>3, DropKeepsInvariant
<1>4. ASSUME NEW o \in Outcomes, Feed(c, OnConnection(o)) PROVE IInv'
  BY <1>2, <1>4, OnConnectionIsSound, FeedKeepsInvariant
<1>5. ASSUME NEW kind \in Statuses, NEW knocks \in BOOLEAN, Feed(c, OnStatus(kind, knocks)) PROVE IInv'
  BY <1>2, <1>5, OnStatusIsSound, FeedKeepsInvariant
<1>6. ASSUME NEW ok \in BOOLEAN, Feed(c, OnKnockSent(ok)) PROVE IInv'
  BY <1>2, <1>6, OnKnockSentIsSound, FeedKeepsInvariant
<1>7. ASSUME NEW ok \in BOOLEAN, Feed(c, OnAuth(ok)) PROVE IInv'
  BY <1>2, <1>7, OnAuthIsSound, FeedKeepsInvariant
<1> QED
  BY <1>3, <1>4, <1>5, <1>6, <1>7 DEF ProbeAnswers, StatusAnswers, KnockAnswers, AuthAnswers

LEMMA SetStageIsTyped ==
    ASSUME RestTypes, NEW i, NEW s \in Stages
    PROVE  SetStage(i, s) \in SUBSET Records
<1>1. \A r \in Records : [r EXCEPT !.stage = s] \in Records
  BY DEF Records
<1> QED
  BY <1>1 DEF SetStage, RestTypes

LEMMA UpsertFindsKeepsInvariant ==
    ASSUME IInv, NEW c \in Chains, UpsertFinds(c)
    PROVE  IInv'
<1> DEFINE e == Head(todo[c])
           found == {r.id : r \in {p \in pending : p.addr = e.addr}}
<1>1. todo[c] # <<>> /\ e \in Good /\ e.op = "find"
  BY HeadIsGood DEF UpsertFinds, Running
<1>2. found \subseteq 1..MaxRecords
  BY DEF IInv, RestTypes, Records
<1>3. PICK i \in (IF found = {} THEN {0} ELSE found) :
          Continue(c, <<[e EXCEPT !.op = "write", !.id = i]>> \o Rest(c))
  BY DEF UpsertFinds
<1>4. i \in 0..MaxRecords
  BY <1>2, <1>3, AddPeerAssumption
<1> DEFINE w == [e EXCEPT !.op = "write", !.id = i]
<1>5. w \in Good /\ Writes(w) /\ w.addr = e.addr
  BY <1>1, <1>4 DEF Good, Effects, Ops, AddrOps, Writes
<1> HIDE DEF w
<1>6. Rest(c) = Tail(todo[c])
  BY <1>1 DEF Rest
<1>7. <<w>> \o Rest(c) \in Seq(Good) /\ Recorded(<<w>> \o Rest(c), written)
  BY <1>1, <1>5, <1>6, FindBecomesWrite DEF IInv, ListsAreGood
<1>8. UNCHANGED <<ctx, open, timer, Store, written, Bounds>>
  BY DEF UpsertFinds
<1>9. ListsAreGood'
  BY <1>3, <1>7, <1>8, ListsStayGood DEF w
<1> QED
  BY <1>8, <1>9, RowsStay DEF IInv, RestTypes, Store, Bounds, Sound, Contexts

LEMMA UpsertWritesKeepsInvariant ==
    ASSUME IInv, NEW c \in Chains, UpsertWrites(c)
    PROVE  IInv'
<1> DEFINE e == Head(todo[c])
<1>1. todo[c] # <<>> /\ e \in Good /\ e.op = "write"
  BY HeadIsGood DEF UpsertWrites, Running
<1>2. e.addr \in Addrs /\ e.stage \in Stages
  BY <1>1 DEF Good, Effects, AddrOps
<1>3. written' = written \cup {e.addr} /\ UNCHANGED <<ctx, open, timer, checking, saved, deleted, Bounds>>
  BY DEF UpsertWrites
<1>4. pending' \in SUBSET Records
  <2>1. CASE e.id # 0 /\ pending' = SetStage(e.id, e.stage)
    BY <1>2, <2>1, SetStageIsTyped DEF IInv
  <2>2. CASE /\ FreshIds # {}
             /\ pending' = pending \cup
                    {[id |-> CHOOSE i \in FreshIds : TRUE, addr |-> e.addr, stage |-> e.stage]}
    <3>1. PICK i \in 1..MaxRecords : i = CHOOSE j \in FreshIds : TRUE
      BY <2>2 DEF FreshIds
    <3>2. [id |-> i, addr |-> e.addr, stage |-> e.stage] \in Records
      BY <1>2 DEF Records
    <3> QED
      BY <2>2, <3>1, <3>2 DEF IInv, RestTypes
  <2> QED
    BY <2>1, <2>2 DEF UpsertWrites
<1>5. RestTypes'
  BY <1>2, <1>3, <1>4 DEF IInv, RestTypes, Bounds
<1>6. EndsRecorded(c)
  BY <1>3 DEF EndsRecorded
<1>7. <<Effect("reload", NoAddr)>> \in Seq(Calm)
  BY EffectIsGood DEF Ops, AddrOps
<1>8. /\ <<Effect("reload", NoAddr)>> \o Rest(c) \in Seq(Good)
      /\ Recorded(<<Effect("reload", NoAddr)>> \o Rest(c), written')
  BY <1>6, <1>7, CalmIsEmitted, RestIsRecorded, EmittedGoesFirst
<1>9. ListsAreGood'
  BY <1>6, <1>8, ListsStayGood DEF UpsertWrites, EndsRecorded
<1> QED
  BY <1>3, <1>5, <1>9, RowsStay DEF IInv, Sound, Contexts

LEMMA StoreFailsKeepsInvariant ==
    ASSUME IInv, NEW c \in Chains, StoreFails(c)
    PROVE  IInv'
<1> DEFINE e == Head(todo[c])
<1>1. todo[c] # <<>> /\ e \in Good
  BY HeadIsGood DEF StoreFails
<1>2. /\ UNCHANGED <<open, timer, pending, checking, saved, deleted, events>>
      /\ faults < MaxFaults /\ faults' = faults + 1
      /\ written' = IF e.op \in {"find", "write"} THEN written \cup {e.addr} ELSE written
  BY DEF StoreFails, Store
<1>3. faults' \in 0..MaxFaults
  BY <1>2, AddPeerAssumption DEF IInv, RestTypes
<1>4. written' \in SUBSET Addrs /\ EndsRecorded(c)
  BY <1>1, <1>2 DEF IInv, RestTypes, Good, AddrOps, EndsRecorded, Writes
<1>5. RestTypes'
  BY <1>2, <1>3, <1>4 DEF IInv, RestTypes
<1>6. Rows' = Rows /\ Sound(ctx, Rows')
  BY <1>2, RowsStay
<1>7. CASE e.op = "duplicate"
  <2>1. Feed(c, OnDuplicate(NoAddr))
    BY <1>7 DEF StoreFails
  <2>2. SoundResult(OnDuplicate(NoAddr), Rows')
    BY <1>6, RowsStay, OnDuplicateIsSound
  <2> QED
    BY <1>4, <1>5, <2>1, <2>2, FeedKeepsInvariant
<1>8. CASE e.op # "duplicate"
  <2>1. Continue(c, Rest(c)) /\ ctx' = IF e.op = "load" THEN [ctx EXCEPT !.known = {}] ELSE ctx
    BY <1>8 DEF StoreFails
  <2>2. Sound([ctx EXCEPT !.known = {}], Rows')
    BY <1>6 DEF Sound, Contexts
  <2>3. Sound(ctx', Rows')
    BY <1>6, <2>1, <2>2
  <2> QED
    BY <1>4, <1>5, <2>1, <2>3, DropKeepsInvariant
<1> QED
  BY <1>7, <1>8

LEMMA DeletesKeepInvariant ==
    ASSUME IInv, NEW c \in Chains, DeletePending(c) \/ DeletePendingByAddr(c) \/ ScheduleTimer(c)
                                     \/ AcceptPending(c)
    PROVE  IInv'
<1>1. UNCHANGED <<ctx, open, checking, saved, deleted, written, Bounds>> /\ Continue(c, Rest(c))
  BY DEF DeletePending, DeletePendingByAddr, ScheduleTimer, AcceptPending, Store
<1>2. EndsRecorded(c)
  BY <1>1 DEF EndsRecorded, Writes, Running, DeletePending, DeletePendingByAddr, ScheduleTimer, AcceptPending
<1>3. pending' \in SUBSET Records
  <2>1. pending \in SUBSET Records
    BY DEF IInv, RestTypes
  <2>2. CASE AcceptPending(c)
    BY <2>2, SetStageIsTyped DEF AcceptPending, IInv, Stages
  <2> QED
    BY <2>1, <2>2 DEF DeletePending, DeletePendingByAddr, ScheduleTimer, Store
<1>4. timer' \in BOOLEAN
  BY DEF DeletePending, DeletePendingByAddr, ScheduleTimer, AcceptPending, IInv, RestTypes
<1>5. RestTypes'
  BY <1>1, <1>3, <1>4 DEF IInv, RestTypes, Bounds
<1> QED
  BY <1>1, <1>2, <1>5, RowsStay, DropKeepsInvariant

(* What follows createRemote, which says ok only with a row.               *)
LEMMA AfterCreateKeepsInvariant ==
    ASSUME IInv, NEW c \in Chains, NEW ok \in BOOLEAN, AfterCreate(c, ok),
           todo[c] # <<>>, Head(todo[c]).op \in {"create", "save"},
           Rows \subseteq Rows', ok => Head(todo[c]).addr \in Rows',
           written' = written, RestTypes'
    PROVE  IInv'
<1> DEFINE e == Head(todo[c])
<1>1. e \in Good /\ e.addr \in Addrs
  BY HeadIsGood DEF Good, AddrOps
<1>2. Sound(ctx, Rows') /\ EndsRecorded(c)
  BY MoreRowsAreSound DEF IInv, EndsRecorded, Writes
<1>3. e.id \in 0..MaxRecords /\ e.by \in {"flow", "app", "auto", "boot"}
  BY <1>1 DEF Good, Effects
<1>4. CASE e.by = "flow"
  <2>1. Feed(c, OnCreated(ok, e.addr))
    BY <1>4 DEF AfterCreate
  <2>2. SoundResult(OnCreated(ok, e.addr), Rows')
    BY <1>1, <1>2, OnCreatedIsSound
  <2> QED
    BY <1>2, <2>1, <2>2, FeedKeepsInvariant
<1>5. CASE e.by = "app"
  <2>1. Continue(c, IF ok THEN <<Effect("deleteAddr", e.addr)>> ELSE <<>>) /\ UNCHANGED ctx
    BY <1>5 DEF AfterCreate
  <2>2. <<Effect("deleteAddr", e.addr)>> \in Seq(Calm)
    BY <1>1, EffectIsGood DEF Ops, AddrOps
  <2>3. (IF ok THEN <<Effect("deleteAddr", e.addr)>> ELSE <<>>) \in Seq(Calm)
    BY <2>2, EmptyIsCalm
  <2> QED
    BY <1>2, <2>1, <2>3, ReplaceKeepsInvariant
<1>6. CASE e.by = "auto"
  <2>1. Continue(c, <<Effect("deleteAddr", e.addr)>>) /\ UNCHANGED ctx
    BY <1>6 DEF AfterCreate
  <2>2. <<Effect("deleteAddr", e.addr)>> \in Seq(Calm)
    BY <1>1, EffectIsGood DEF Ops, AddrOps
  <2> QED
    BY <1>2, <2>1, <2>2, ReplaceKeepsInvariant
<1>7. CASE e.by = "boot"
  <2> DEFINE next == IF ok THEN Delete(e.id) ELSE [Effect("accept", e.addr) EXCEPT !.id = e.id]
  <2>1. Continue(c, <<next>>) /\ UNCHANGED ctx
    BY <1>7 DEF AfterCreate
  <2>2. Effect("accept", e.addr) \in Good /\ Effect("accept", e.addr).op = "accept"
    BY <1>1, EffectIsGood DEF Ops, AddrOps
  <2>3. [Effect("accept", e.addr) EXCEPT !.id = e.id] \in Calm
    BY <1>3, <2>2 DEF Good, Calm, Effects, AddrOps
  <2>4. next \in Calm
    BY <1>3, <2>3, DeleteIsCalm
  <2> HIDE DEF next
  <2>5. <<next>> \in Seq(Calm)
    BY <2>4
  <2> QED
    BY <1>2, <2>1, <2>5, ReplaceKeepsInvariant
<1> QED
  BY <1>3, <1>4, <1>5, <1>7, <1>6

LEMMA CreateKeepsInvariant ==
    ASSUME IInv, NEW c \in Chains, CreateChecks(c) \/ CreateSaves(c)
    PROVE  IInv'
<1> DEFINE e == Head(todo[c])
<1>1. todo[c] # <<>> /\ e.op \in {"create", "save"} /\ e \in Good /\ e.addr \in Addrs
  BY HeadIsGood DEF CreateChecks, CreateSaves, Running, Good, AddrOps
<1>2. saved \in [Addrs -> Nat]
  BY DEF IInv, RestTypes
<1>3. CASE CreateChecks(c)
  <2>1. UNCHANGED <<open, timer, Store, written, Bounds>>
    BY <1>3 DEF CreateChecks
  <2>2. RestTypes' /\ Rows' = Rows
    BY <2>1, RowsStay DEF IInv, RestTypes, Store, Bounds
  <2>3. CASE saved[e.addr] > 0
    <3>1. AfterCreate(c, FALSE)
      BY <1>3, <2>3 DEF CreateChecks
    <3> QED
      BY <1>1, <2>1, <2>2, <3>1, AfterCreateKeepsInvariant
  <2>4. CASE ~(saved[e.addr] > 0)
    <3> DEFINE n == [e EXCEPT !.op = "save"]
    <3>1. Continue(c, <<n>> \o Rest(c)) /\ UNCHANGED ctx
      BY <1>3, <2>4 DEF CreateChecks
    <3>2. n \in Calm
      BY <1>1 DEF Good, Calm, Effects, Ops
    <3> HIDE DEF n
    <3>3. <<n>> \in Seq(Calm)
      BY <3>2
    <3>4. EndsRecorded(c)
      BY <1>1, <2>1 DEF EndsRecorded, Writes
    <3>5. <<n>> \o Rest(c) \in Seq(Good) /\ Recorded(<<n>> \o Rest(c), written')
      BY <3>3, <3>4, CalmIsEmitted, RestIsRecorded, EmittedGoesFirst
    <3>6. ListsAreGood'
      BY <3>1, <3>4, <3>5, ListsStayGood DEF EndsRecorded
    <3> QED
      BY <2>2, <3>1, <3>6, RowsStay DEF IInv, Sound, Contexts
  <2> QED
    BY <2>3, <2>4
<1>4. CASE CreateSaves(c)
  <2>1. PICK ok \in BOOLEAN :
            /\ saved' = IF ok THEN [saved EXCEPT ![e.addr] = @ + 1] ELSE saved
            /\ AfterCreate(c, ok)
    BY <1>4 DEF CreateSaves
  <2>2. /\ saved' \in [Addrs -> Nat]
        /\ ok => saved'[e.addr] > 0
        /\ \A a \in Addrs : saved[a] > 0 => saved'[a] > 0
    BY <1>1, <1>2, <2>1
  <2>3. UNCHANGED <<open, timer, pending, checking, deleted, written, Bounds>>
    BY <1>4 DEF CreateSaves
  <2>4. /\ Rows \subseteq Rows'
        /\ ok => e.addr \in Rows'
    BY <1>1, <2>2, <2>3 DEF Rows, Saved
  <2>5. RestTypes'
    BY <2>2, <2>3 DEF IInv, RestTypes, Bounds
  <2> QED
    BY <1>1, <2>1, <2>4, <2>3, <2>5, AfterCreateKeepsInvariant
<1> QED
  BY <1>3, <1>4

-----------------------------------------------------------------------------
(* The user and the app.                                                   *)

LEMMA DrainKeepsInvariant ==
    ASSUME IInv, NEW r, SoundResult(r, Rows'), Drain(r),
           open' \in BOOLEAN, events' \in 0..MaxEvents, deleted' \in SUBSET Addrs
    PROVE  IInv'
<1>1. PICK c \in Idle : Feed(c, r)
  BY DEF Drain
<1>2. c \in Chains /\ todo[c] = <<>>
  BY DEF Idle
<1>3. UNCHANGED <<timer, pending, checking, saved, written, faults>>
  BY DEF Drain
<1>4. RestTypes' /\ EndsRecorded(c)
  BY <1>2, <1>3 DEF IInv, RestTypes, EndsRecorded
<1> QED
  BY <1>1, <1>2, <1>4, FeedKeepsInvariant

LEMMA DispatchKeepsInvariant ==
    ASSUME IInv, NEW r, SoundResult(r, Rows), Dispatch(r), open' = open
    PROVE  IInv'
<1>1. open' \in BOOLEAN /\ events' \in 0..MaxEvents /\ deleted' \in SUBSET Addrs
  BY AddPeerAssumption DEF IInv, RestTypes, Dispatch
<1>2. Rows' = Rows
  BY RowsStay DEF Dispatch, Drain
<1> QED
  BY <1>1, <1>2, DrainKeepsInvariant DEF Dispatch

(* An event that emits nothing.                                            *)
LEMMA MoveKeepsInvariant ==
    ASSUME IInv, Sound(ctx', Rows'), open' \in BOOLEAN, timer' \in BOOLEAN,
           current' \in {current, NoChain}, deleted' \in SUBSET Addrs,
           events' \in 0..MaxEvents,
           UNCHANGED <<todo, pending, checking, saved, written, faults>>
    PROVE  IInv'
<1>1. RestTypes'
  BY DEF IInv, RestTypes
<1>2. ListsAreGood'
  BY DEF IInv, ListsAreGood
<1> QED
  BY <1>1, <1>2 DEF IInv, Sound, Contexts

LEMMA ModalKeepsInvariant ==
    ASSUME IInv, ModalOpen \/ ModalClose \/ HostCloses \/ BackFromTesting \/ TimerFires
    PROVE  IInv'
<1>0. /\ open \in BOOLEAN /\ timer \in BOOLEAN /\ deleted \in SUBSET Addrs
      /\ events \in 0..MaxEvents /\ {} \in SUBSET Addrs
  BY DEF IInv, RestTypes
<1>1. CASE ModalOpen
  <2>1. <<Effect("load", NoAddr)>> \in Seq(Calm)
    BY EffectIsGood DEF Ops, AddrOps
  <2>2. SoundResult(Result(InitialContext, <<Effect("load", NoAddr)>>), Rows')
    BY <2>1, InitialIsSound, CalmIsEmitted, SoundParts
  <2>3. open' \in BOOLEAN /\ events' \in 0..MaxEvents /\ deleted' \in SUBSET Addrs
    BY <1>0, <1>1 DEF ModalOpen
  <2> QED
    BY <1>1, <2>2, <2>3, DrainKeepsInvariant DEF ModalOpen
<1>2. CASE ModalClose
  <2>1. Sound(ctx', Rows')
    BY <1>2, InitialIsSound DEF ModalClose, Cancel
  <2> QED
    BY <1>0, <1>2, <2>1, MoveKeepsInvariant DEF ModalClose, Cancel, Bounds
<1>3. CASE BackFromTesting
  <2>1. Rows' = Rows /\ Sound(ctx', Rows')
    BY <1>3, RowsStay, UrlInputIsSound DEF BackFromTesting, Cancel
  <2> QED
    BY <1>0, <1>3, <2>1, MoveKeepsInvariant DEF BackFromTesting, Cancel, Bounds
<1>4. CASE HostCloses
  <2>1. Rows' = Rows /\ Sound(ctx', Rows')
    BY <1>4, RowsStay DEF HostCloses, Store, Sound, Contexts
  <2>2. events' \in 0..MaxEvents
    BY <1>0, <1>4, AddPeerAssumption DEF HostCloses
  <2> QED
    BY <1>0, <1>4, <2>1, <2>2, MoveKeepsInvariant DEF HostCloses, Store
<1>5. CASE TimerFires
  <2>1. CASE ctx.step = "complete"
    <3>1. ctx' = InitialContext /\ deleted' = {}
      BY <1>5, <2>1 DEF TimerFires
    <3>2. Sound(ctx', Rows')
      BY <3>1, InitialIsSound
    <3> QED
      BY <1>0, <1>5, <3>1, <3>2, MoveKeepsInvariant DEF TimerFires, Bounds
  <2>2. CASE ctx.step # "complete"
    <3>1. UNCHANGED <<ctx, deleted>> /\ saved' = saved
      BY <1>5, <2>2 DEF TimerFires
    <3>2. Sound(ctx', Rows')
      BY <3>1, RowsStay DEF Sound, Contexts
    <3> QED
      BY <1>0, <1>5, <3>1, <3>2, MoveKeepsInvariant DEF TimerFires, Bounds
  <2> QED
    BY <2>1, <2>2
<1> QED
  BY <1>1, <1>2, <1>3, <1>4, <1>5

LEMMA MovesKeepInvariant ==
    ASSUME IInv, Back \/ UseInviteCode \/ RequestAccess
    PROVE  IInv'
<1>1. Sound(ctx, Rows)
  BY DEF IInv
<1>2. Sound(ctx', Rows)
  <2>1. CASE Back
    BY <1>1, <2>1, UrlInputIsSound DEF Back, Move
  <2>2. CASE UseInviteCode
    BY <1>1, <2>2 DEF UseInviteCode, Move, KnockForm, Sound, Contexts
  <2>3. CASE RequestAccess
    BY <1>1, <2>3 DEF RequestAccess, Move, Sound, Contexts
  <2> QED
    BY <2>1, <2>2, <2>3
<1>3. UNCHANGED <<open, todo, current, timer, Store, written, Bounds>>
  BY DEF Back, UseInviteCode, RequestAccess, Move
<1>4. Rows' = Rows
  BY <1>3, RowsStay DEF Store
<1>5. /\ open' \in BOOLEAN /\ timer' \in BOOLEAN /\ deleted' \in SUBSET Addrs
      /\ events' \in 0..MaxEvents
  BY <1>3 DEF IInv, RestTypes, Store, Bounds
<1> QED
  BY <1>2, <1>3, <1>4, <1>5, MoveKeepsInvariant DEF Store, Bounds

LEMMA EventsKeepInvariant ==
    ASSUME IInv,
           \/ \E a \in Addrs, player \in BOOLEAN : SubmitUrl(a, player)
           \/ SubmitKnock \/ SubmitAuth
           \/ \E r \in ctx.known : RetryPending(r) \/ RemovePending(r)
    PROVE  IInv'
<1>1. Sound(ctx, Rows) /\ ctx \in Contexts
  BY DEF IInv, Sound
<1>2. ASSUME NEW a \in Addrs, NEW player \in BOOLEAN, SubmitUrl(a, player) PROVE IInv'
  BY <1>1, <1>2, SubmittedIsSound, DispatchKeepsInvariant DEF SubmitUrl, UserEvent
<1>3. CASE SubmitKnock
  <2>1. ctx.addr \in Addrs
    BY <1>1, <1>3 DEF SubmitKnock, KnockForm, Sound
  <2>2. <<Effect("knock", ctx.addr)>> \in Seq(Calm)
    BY <2>1, EffectIsGood DEF Ops, AddrOps
  <2>3. SoundResult(Result(ctx, <<Effect("knock", ctx.addr)>>), Rows)
    BY <1>1, <2>2, CalmIsEmitted, SoundParts
  <2>4. Rows' = Rows
    BY <1>3, RowsStay DEF SubmitKnock, Drain
  <2> QED
    BY <1>3, <2>3, <2>4, DrainKeepsInvariant DEF SubmitKnock, IInv, RestTypes
<1>4. CASE SubmitAuth
  <2>1. ctx.addr \in Addrs
    BY <1>1, <1>4 DEF SubmitAuth, UserEvent, Sound
  <2>2. <<Effect("auth", ctx.addr)>> \in Seq(Calm)
    BY <2>1, EffectIsGood DEF Ops, AddrOps
  <2>3. SoundResult(Result(ctx, <<Effect("auth", ctx.addr)>>), Rows)
    BY <1>1, <2>2, CalmIsEmitted, SoundParts
  <2> QED
    BY <1>4, <2>3, DispatchKeepsInvariant DEF SubmitAuth, UserEvent
<1>5. ASSUME NEW r \in ctx.known, RetryPending(r) PROVE IInv'
  <2>1. r \in Records /\ r.addr \in Addrs
    BY <1>1 DEF Contexts, Records
  <2>2. CASE r.stage \notin KnockStages
    <3>1. Dispatch(Submitted(r.addr, FALSE)) /\ open' = open
      BY <1>5, <2>2 DEF RetryPending, UserEvent
    <3> QED
      BY <1>1, <2>1, <3>1, SubmittedIsSound, DispatchKeepsInvariant
  <2>3. CASE r.stage \in KnockStages
    <3> DEFINE next == [ctx EXCEPT !.step = "testing", !.addr = r.addr, !.retry = r]
    <3>1. Dispatch(Result(next, <<Effect("status", r.addr)>>)) /\ open' = open
      BY <1>5, <2>3 DEF RetryPending, UserEvent
    <3>2. Sound(next, Rows)
      BY <1>1, <2>1 DEF Sound, Contexts
    <3>3. <<Effect("status", r.addr)>> \in Seq(Calm)
      BY <2>1, EffectIsGood DEF Ops, AddrOps
    <3> HIDE DEF next
    <3>4. SoundResult(Result(next, <<Effect("status", r.addr)>>), Rows)
      BY <3>2, <3>3, CalmIsEmitted, SoundParts
    <3> QED
      BY <3>1, <3>4, DispatchKeepsInvariant
  <2> QED
    BY <2>2, <2>3
<1>6. ASSUME NEW r \in ctx.known, RemovePending(r) PROVE IInv'
  <2>1. r.id \in 0..MaxRecords
    BY <1>1, AddPeerAssumption DEF Contexts, Records
  <2>2. <<Delete(r.id), Effect("load", NoAddr)>> \in Seq(Calm)
    <3>1. Delete(r.id) \in Calm /\ Effect("load", NoAddr) \in Calm
      BY <2>1, DeleteIsCalm, EffectIsGood DEF Ops, AddrOps
    <3> QED BY <3>1
  <2>3. SoundResult(Result(ctx, <<Delete(r.id), Effect("load", NoAddr)>>), Rows)
    BY <1>1, <2>2, CalmIsEmitted, SoundParts
  <2> QED
    BY <1>6, <2>3, DispatchKeepsInvariant DEF RemovePending, UserEvent
<1> QED
  BY <1>2, <1>3, <1>4, <1>5, <1>6

LEMMA PushesKeepInvariant ==
    ASSUME IInv, NEW a \in Addrs, PeerCompletes(a) \/ PushWhileClosed(a)
    PROVE  IInv'
<1>1. Sound(ctx, Rows) /\ ctx \in Contexts
  BY DEF IInv, Sound
<1>2. CASE PeerCompletes(a)
  <2> DEFINE next == [ctx EXCEPT !.step = "testing", !.addr = a]
  <2>1. Sound(next, Rows)
    BY <1>1 DEF Sound, Contexts
  <2>2. <<Effect("create", a)>> \in Seq(Calm)
    BY EffectIsGood DEF Ops, AddrOps
  <2>3. Dispatch(Result(next, <<Effect("create", a)>>)) /\ open' = open
    BY <1>2 DEF PeerCompletes, UserEvent
  <2> HIDE DEF next
  <2> QED
    BY <2>1, <2>2, <2>3, CalmIsEmitted, SoundParts, DispatchKeepsInvariant
<1>3. CASE PushWhileClosed(a)
  <2> DEFINE m == [Effect("create", a) EXCEPT !.by = "app"]
             d == Effect("deleteAddr", a)
  <2>1. Effect("create", a) \in Good /\ Effect("create", a).op = "create" /\ Effect("create", a).addr = a
    BY EffectIsGood DEF Ops, AddrOps
  <2>2. m \in Calm
    BY <2>1 DEF Good, Calm, Effects
  <2>3. d \in Calm
    BY EffectIsGood DEF Ops, AddrOps
  <2>4. PICK effects \in (IF saved[a] = 0 THEN {<<m>>} ELSE {<<d>>, <<>>}) :
            Dispatch(Result(ctx, effects)) /\ open' = open
    BY <1>3 DEF PushWhileClosed
  <2> HIDE DEF m, d
  <2>5. <<m>> \in Seq(Calm) /\ <<d>> \in Seq(Calm)
    BY <2>2, <2>3
  <2>6. effects \in Seq(Calm)
    BY <2>4, <2>5, EmptyIsCalm
  <2> QED
    BY <1>1, <2>4, <2>6, CalmIsEmitted, SoundParts, DispatchKeepsInvariant
<1> QED
  BY <1>2, <1>3

LEMMA PairPlayerKeepsInvariant ==
    ASSUME IInv, PairPlayer
    PROVE  IInv'
<1>1. PICK by \in {"app", "auto"} :
          Dispatch(Result(ctx, IF saved[ctx.addr] = 0
                               THEN <<[Effect("create", ctx.addr) EXCEPT !.by = by]>>
                               ELSE <<Effect("deleteAddr", ctx.addr)>>))
  BY DEF PairPlayer
<1>2. Sound(ctx, Rows) /\ ctx.addr \in Addrs
  BY DEF IInv, Sound, PairPlayer, KnockForm
<1> DEFINE m == [Effect("create", ctx.addr) EXCEPT !.by = by]
           d == Effect("deleteAddr", ctx.addr)
           q == IF saved[ctx.addr] = 0 THEN <<m>> ELSE <<d>>
<1>3. /\ Effect("create", ctx.addr) \in Good /\ Effect("create", ctx.addr).op = "create"
      /\ Effect("create", ctx.addr).addr = ctx.addr
  BY <1>2, EffectIsGood DEF Ops, AddrOps
<1>4. m \in Calm
  BY <1>2, <1>3 DEF Good, Calm, Effects
<1>5. d \in Calm
  BY <1>2, EffectIsGood DEF Ops, AddrOps
<1>6. Dispatch(Result(ctx, q)) /\ open' = open
  BY <1>1 DEF PairPlayer
<1> HIDE DEF m, d
<1>7. q \in Seq(Calm)
  BY <1>4, <1>5
<1> HIDE DEF q
<1> QED
  BY <1>2, <1>6, <1>7, CalmIsEmitted, SoundParts, DispatchKeepsInvariant

(* A row that is deleted may still be shown.                               *)
LEMMA DeleteRemoteKeepsInvariant ==
    ASSUME IInv, NEW a \in Addrs, DeleteRemote(a)
    PROVE  IInv'
<1>1. /\ saved \in [Addrs -> Nat] /\ saved[a] > 0 /\ saved' = [saved EXCEPT ![a] = @ - 1]
      /\ deleted' = deleted \cup {a}
      /\ UNCHANGED <<ctx, open, todo, current, timer, pending, checking, written, events>>
  BY DEF DeleteRemote, IInv, RestTypes
<1>2. saved' \in [Addrs -> Nat] /\ \A b \in Addrs \ {a} : saved'[b] = saved[b]
  BY <1>1
<1>3. Rows \subseteq Rows'
  BY <1>1, <1>2 DEF Rows, Saved
<1>4. faults' \in 0..MaxFaults
  BY AddPeerAssumption DEF DeleteRemote, IInv, RestTypes
<1>5. RestTypes'
  BY <1>1, <1>2, <1>4 DEF IInv, RestTypes
<1>6. ListsAreGood'
  BY <1>1 DEF IInv, ListsAreGood
<1>7. Sound(ctx, Rows')
  BY <1>3, MoreRowsAreSound DEF IInv
<1> QED
  BY <1>1, <1>5, <1>6, <1>7 DEF IInv, Sound, Contexts

LEMMA RestartKeepsInvariant ==
    ASSUME IInv, Restart
    PROVE  IInv'
<1>1. todo' = [c \in Chains |-> <<>>] /\ current' = NoChain /\ ctx' = InitialContext
  BY DEF Restart
<1>2. ListsAreGood'
  <2>1. <<>> \in Seq(Good) /\ Recorded(<<>>, written')
    BY DEF Recorded
  <2> QED
    BY <1>1, <2>1 DEF ListsAreGood
<1>3. faults' \in 0..MaxFaults
  BY AddPeerAssumption DEF Restart, IInv, RestTypes
<1>4. RestTypes'
  BY <1>3 DEF Restart, IInv, RestTypes
<1>5. Sound(ctx', Rows')
  BY <1>1, InitialIsSound
<1> QED
  BY <1>2, <1>4, <1>5 DEF IInv, Sound, Contexts

LEMMA KnockCheckKeepsInvariant ==
    ASSUME IInv, NEW r \in checking, KnockCheckAnswers(r)
    PROVE  IInv'
<1>1. r \in Records /\ r.addr \in Addrs /\ r.id \in 0..MaxRecords
  BY AddPeerAssumption DEF IInv, RestTypes, Records
<1>2. checking' = checking \ {r} /\ UNCHANGED <<open, timer, saved, deleted, written, Bounds>>
  BY DEF KnockCheckAnswers
<1>3. pending' \in SUBSET Records
  <2>1. SetStage(r.id, "knock_rejected") \in SUBSET Records
    BY SetStageIsTyped DEF IInv, Stages
  <2> QED
    BY <2>1 DEF KnockCheckAnswers, IInv, RestTypes
<1>4. RestTypes' /\ Rows' = Rows /\ Sound(ctx, Rows')
  BY <1>2, <1>3, RowsStay DEF IInv, RestTypes, Bounds
<1>5. CASE UNCHANGED <<ctx, todo, current>>
  <2>1. ListsAreGood'
    BY <1>2, <1>5 DEF IInv, ListsAreGood
  <2> QED
    BY <1>4, <1>5, <2>1 DEF IInv, Sound, Contexts
<1>6. ASSUME NEW c \in Idle,
             Feed(c, Result(ctx, <<[Effect("create", r.addr) EXCEPT !.by = "boot", !.id = r.id]>>))
      PROVE  IInv'
  <2> DEFINE m == [Effect("create", r.addr) EXCEPT !.by = "boot", !.id = r.id]
  <2>1. /\ Effect("create", r.addr) \in Good /\ Effect("create", r.addr).op = "create"
        /\ Effect("create", r.addr).addr = r.addr
    BY <1>1, EffectIsGood DEF Ops, AddrOps
  <2>2. m \in Calm
    BY <1>1, <2>1 DEF Good, Calm, Effects
  <2> HIDE DEF m
  <2>3. <<m>> \in Seq(Calm)
    BY <2>2
  <2>4. c \in Chains /\ EndsRecorded(c)
    BY <1>2 DEF Idle, EndsRecorded
  <2>5. SoundResult(Result(ctx, <<m>>), Rows')
    BY <1>4, <2>3, CalmIsEmitted, SoundParts
  <2>6. Feed(c, Result(ctx, <<m>>))
    BY <1>6 DEF m
  <2> QED
    BY <1>4, <2>4, <2>5, <2>6, FeedKeepsInvariant
<1> QED
  BY <1>5, <1>6 DEF KnockCheckAnswers

-----------------------------------------------------------------------------
(* The invariant.                                                          *)

LEMMA InvariantHoldsAtFirst == Init => IInv
<1> SUFFICES ASSUME Init PROVE IInv
  OBVIOUS
<1>1. ListsAreGood
  <2>1. <<>> \in Seq(Good) /\ Recorded(<<>>, written)
    BY DEF Recorded
  <2> QED
    BY <2>1 DEF Init, ListsAreGood
<1>2. RestTypes
  <2>1. saved \in [Addrs -> Nat]
    BY DEF Init
  <2>2. events \in 0..MaxEvents /\ faults \in 0..MaxFaults
    BY AddPeerAssumption DEF Init
  <2> QED
    BY <2>1, <2>2 DEF Init, RestTypes
<1> QED
  BY <1>1, <1>2, InitialIsSound DEF Init, IInv

LEMMA StepsKeepInvariant == IInv /\ [Next]_vars => IInv'
<1> SUFFICES ASSUME IInv, [Next]_vars PROVE IInv'
  OBVIOUS
<1>1. ASSUME NEW c \in Chains, EffectEnds(c) PROVE IInv'
  BY <1>1, LoadKeepsInvariant, CheckDuplicateKeepsInvariant, UpsertFindsKeepsInvariant,
     UpsertWritesKeepsInvariant, DeletesKeepInvariant, AnswersKeepInvariant, CreateKeepsInvariant
     DEF EffectEnds
<1>2. ASSUME NEW c \in Chains, StoreFails(c) PROVE IInv'
  BY <1>2, StoreFailsKeepsInvariant
<1>3. CASE TimerFires \/ ModalOpen \/ ModalClose \/ HostCloses \/ BackFromTesting
  BY <1>3, ModalKeepsInvariant
<1>4. CASE \/ \E a \in Addrs, player \in BOOLEAN : SubmitUrl(a, player)
           \/ SubmitKnock \/ SubmitAuth
           \/ \E r \in ctx.known : RetryPending(r) \/ RemovePending(r)
  BY <1>4, EventsKeepInvariant
<1>5. CASE Back \/ UseInviteCode \/ RequestAccess
  BY <1>5, MovesKeepInvariant
<1>6. ASSUME NEW a \in Addrs, PeerCompletes(a) \/ PushWhileClosed(a) \/ DeleteRemote(a) PROVE IInv'
  BY <1>6, PushesKeepInvariant, DeleteRemoteKeepsInvariant
<1>7. CASE Restart \/ PairPlayer
  BY <1>7, RestartKeepsInvariant, PairPlayerKeepsInvariant
<1>8. ASSUME NEW r \in checking, KnockCheckAnswers(r) PROVE IInv'
  BY <1>8, KnockCheckKeepsInvariant
<1>9. CASE UNCHANGED vars
  <2>1. Sound(ctx', Rows')
    BY <1>9, RowsStay DEF vars, Sound, Contexts
  <2> QED
    BY <1>9, <2>1, MoveKeepsInvariant DEF vars, IInv, RestTypes
<1> QED
  BY <1>1, <1>2, <1>3, <1>4, <1>5, <1>6, <1>7, <1>8, <1>9 DEF Next

LEMMA InvariantHolds == Spec => []IInv
  BY InvariantHoldsAtFirst, StepsKeepInvariant, PTL DEF Spec

-----------------------------------------------------------------------------
(* The theorems.                                                           *)

(* The context of the machine, the effects of every dispatch that is       *)
(* draining and the stores behind them keep their types: an effect that    *)
(* touches a row names a peer, also after CANCEL_IN_FLIGHT or MODAL_CLOSE. *)
THEOREM TypeCorrect == Spec => []TypeOK
<1>1. IInv => TypeOK
  <2> SUFFICES ASSUME IInv PROVE TypeOK
    OBVIOUS
  <2>1. Good \subseteq Effects
    BY DEF Good
  <2>2. todo \in [Chains -> Seq(Effects)]
    BY <2>1 DEF IInv, ListsAreGood
  <2>3. ctx \in Contexts
    BY DEF IInv, Sound
  <2> QED
    BY <2>2, <2>3 DEF IInv, ListsAreGood, RestTypes, TypeOK, Contexts
<1> QED
  BY <1>1, InvariantHolds, PTL

(* The runner probes a peer only after the upsert of its pending record    *)
(* has ended, whichever dispatches drain at once and whichever operations  *)
(* of the store fail.                                                      *)
THEOREM ProbesAreRecorded == Spec => []ProbedAfterRecorded
<1>1. IInv => ProbedAfterRecorded
  <2> SUFFICES ASSUME IInv, NEW c \in Chains, Running(c, "probe")
               PROVE  Head(todo[c]).addr \in written
    BY DEF ProbedAfterRecorded
  <2>1. todo[c] \in Seq(Good) /\ todo[c] # <<>> /\ Head(todo[c]).op = "probe"
    BY DEF IInv, ListsAreGood, Running
  <2>2. Head(todo[c]) = todo[c][1] /\ 1 \in 1..Len(todo[c]) /\ 1..(1 - 1) = {}
    BY <2>1
  <2> QED
    BY <2>1, <2>2 DEF IInv, ListsAreGood, Recorded
<1> QED
  BY <1>1, InvariantHolds, PTL

(* The machine shows "complete" only for a remote that has a row, be it    *)
(* the one it created or the one it found before the probe, or whose row   *)
(* was deleted after the flow was opened, however late the answer came.    *)
THEOREM CompleteHasARow == Spec => []CompleteIsSaved
<1>1. IInv => CompleteIsSaved
  BY DEF IInv, Sound, CompleteIsSaved, Rows
<1> QED
  BY <1>1, InvariantHolds, PTL
=============================================================================
