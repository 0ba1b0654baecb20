---------------------------- MODULE PlayerProofs -----------------------------
(***************************************************************************)
(* The order in which loads reach the element, for any songs, queues and   *)
(* albums, any number of traversals and any bound on events.               *)
(***************************************************************************)
EXTENDS Player, FiniteSetTheorems, SequenceTheorems, TLAPS

(* Sequences: what RemoveAt, InsertAt and Position return.                 *)

LEMMA RemoveAtProperties ==
    ASSUME NEW S, NEW s \in Seq(S), NEW k \in 1..Len(s)
    PROVE  /\ RemoveAt(s, k) \in Seq(S)
           /\ Len(RemoveAt(s, k)) = Len(s) - 1
           /\ \A i \in 1..(Len(s) - 1) :
                  RemoveAt(s, k)[i] = IF i < k THEN s[i] ELSE s[i + 1]
<1> DEFINE x == SubSeq(s, 1, k - 1)
           y == SubSeq(s, k + 1, Len(s))
<1>1. Len(s) \in Nat /\ k \in Nat \ {0} /\ k <= Len(s)
  OBVIOUS
<1>2. x \in Seq(S) /\ Len(x) = k - 1 /\ \A i \in 1..(k - 1) : x[i] = s[i]
  BY <1>1
<1>3. y \in Seq(S) /\ Len(y) = Len(s) - k /\ \A i \in 1..(Len(s) - k) : y[i] = s[k + i]
  BY <1>1
<1> HIDE DEF x, y
<1>4. /\ x \o y \in Seq(S) /\ Len(x \o y) = Len(s) - 1
      /\ \A i \in 1..(Len(s) - 1) : (x \o y)[i] = IF i < k THEN x[i] ELSE y[i - (k - 1)]
  <2>1. x \o y \in Seq(S) /\ Len(x \o y) = Len(s) - 1
    <3>1. x \o y \in Seq(S) /\ Len(x \o y) = Len(x) + Len(y)
      BY <1>2, <1>3, ConcatProperties
    <3> QED BY <1>1, <1>2, <1>3, <3>1
  <2>2. ASSUME NEW i \in 1..(Len(s) - 1)
        PROVE  (x \o y)[i] = IF i < k THEN x[i] ELSE y[i - (k - 1)]
    <3>1. i \in 1..(Len(x) + Len(y)) /\ (i <= Len(x) <=> i < k)
      BY <1>1, <1>2, <1>3
    <3>2. (x \o y)[i] = IF i <= Len(x) THEN x[i] ELSE y[i - Len(x)]
      BY <1>2, <1>3, <3>1, ConcatProperties
    <3> QED BY <1>2, <3>1, <3>2
  <2> QED BY <2>1, <2>2
<1>5. ASSUME NEW i \in 1..(Len(s) - 1) PROVE (x \o y)[i] = IF i < k THEN s[i] ELSE s[i + 1]
  <2>1. CASE i < k
    BY <1>1, <1>2, <1>4, <2>1
  <2>2. CASE ~(i < k)
    <3>1. i - (k - 1) \in 1..(Len(s) - k) /\ k + (i - (k - 1)) = i + 1
      BY <1>1, <2>2
    <3> QED BY <1>3, <1>4, <2>2, <3>1
  <2> QED BY <2>1, <2>2
<1> QED
  BY <1>4, <1>5 DEF RemoveAt, x, y

LEMMA InsertAtProperties ==
    ASSUME NEW S, NEW s \in Seq(S), NEW k \in 1..(Len(s) + 1), NEW e \in S
    PROVE  InsertAt(s, k, e) \in Seq(S)
<1>1. Len(s) \in Nat /\ k \in Nat \ {0}
  OBVIOUS
<1>2. SubSeq(s, 1, k - 1) \in Seq(S) /\ SubSeq(s, k, Len(s)) \in Seq(S) /\ <<e>> \in Seq(S)
  BY <1>1
<1> QED
  BY <1>2 DEF InsertAt

LEMMA PositionProperties ==
    ASSUME NEW q \in Seq(Songs), NEW s
    PROVE  /\ Position(s, q) \in 0..Len(q)
           /\ Position(s, q) # 0 => s \in Songs /\ q[Position(s, q)] = s
<1>1. DOMAIN q = 1..Len(q) /\ Len(q) \in Nat /\ \A i \in DOMAIN q : q[i] \in Songs
  OBVIOUS
<1>2. CASE \E i \in DOMAIN q : q[i] = s
  <2>1. PICK i \in DOMAIN q : i = Position(s, q) /\ q[i] = s
    BY <1>2 DEF Position
  <2> QED BY <1>1, <2>1
<1>3. CASE ~ \E i \in DOMAIN q : q[i] = s
  BY <1>1, <1>3 DEF Position
<1> QED
  BY <1>2, <1>3

-----------------------------------------------------------------------------
(* The loads under way, the writes that some of them wait for, and the     *)
(* song that is up next.                                                   *)

LoadStages == {"url", "write", "play", "replaced"}
LoadRecord ==
    [id : Nat, song : Songs, current : BOOLEAN, at : LoadStages, overtaken : BOOLEAN,
     auto : BOOLEAN, retry : BOOLEAN]

TaskNames == {"play", "playIfIdle", "removed", "cut", "clear", "empty", "emptied", "forget"}
TaskRecord ==
    {t \in [do : TaskNames, song : Songs \cup {None}, was : Songs \cup {None} \cup Slots] :
        t.do \in {"play", "playIfIdle"} => t.song \in Songs}
WriteRecord ==
    [what : {"load", "queue", "nothing"}, load : Nat, gone : SUBSET Songs, rest : Seq(TaskRecord)]

May(l, p) == l.current /\ p = l.song

UniqueIds(ls) == \A i, j \in DOMAIN ls : ls[i].id = ls[j].id => i = j
OnePlays(ls) == \A i, j \in DOMAIN ls : ls[i].at = "play" /\ ls[j].at = "play" => i = j

WritesHaveLoads(ls, ws) ==
    \A m \in DOMAIN ws : ws[m].what = "load" =>
        \E i \in DOMAIN ls : ls[i].id = ws[m].load /\ ls[i].at = "write"
LoadsHaveWrites(ls, ws) ==
    \A i \in DOMAIN ls : ls[i].at = "write" =>
        \E m \in DOMAIN ws : ws[m].what = "load" /\ ws[m].load = ls[i].id

(* The loads that wait for a write were asked for in the order of the      *)
(* writes; in particular no two writes are of one load.                    *)
InOrder(ls, ws) ==
    \A m, n \in DOMAIN ws : \A i, j \in DOMAIN ls :
        /\ m < n /\ ws[m].what = "load" /\ ws[n].what = "load"
        /\ ls[i].id = ws[m].load /\ ls[j].id = ws[n].load
        => i < j

(* Only the last load asked for may pass the checks.                       *)
LastMayCommit(ls, p) == \A i \in DOMAIN ls : May(ls[i], p) => i = Len(ls)

(* A load that a later one has overtaken is past any check.                *)
OvertakenIsPast(ls, p) ==
    \A i \in DOMAIN ls : ls[i].overtaken => ls[i].at # "write" /\ ~May(ls[i], p)

Core(ls, ws, p) ==
    /\ ls \in Seq(LoadRecord) /\ ws \in Seq(WriteRecord) /\ p \in Songs \cup {None}
    /\ UniqueIds(ls) /\ OnePlays(ls)
    /\ WritesHaveLoads(ls, ws) /\ LoadsHaveWrites(ls, ws) /\ InOrder(ls, ws)
    /\ LastMayCommit(ls, p) /\ OvertakenIsPast(ls, p)

(* Nothing is up next any more.                                            *)
LEMMA ChoiceDropped ==
    ASSUME NEW ls, NEW ws, NEW p, Core(ls, ws, p)
    PROVE  Core(ls, ws, None)
<1>1. ASSUME NEW i \in DOMAIN ls PROVE ls[i].song # None
  <2>1. ls[i] \in LoadRecord
    BY DEF Core
  <2> QED BY <2>1, PlayerAssumption DEF LoadRecord
<1> QED
  BY <1>1 DEF Core, LastMayCommit, OvertakenIsPast, May

(* A write that no load waits for is made.                                 *)
LEMMA OtherWriteMade ==
    ASSUME NEW ls, NEW ws, NEW p, Core(ls, ws, p), NEW w \in WriteRecord, w.what # "load"
    PROVE  Core(ls, Append(ws, w), p)
<1> DEFINE vs == Append(ws, w)
<1>1. /\ vs \in Seq(WriteRecord) /\ Len(vs) = Len(ws) + 1 /\ Len(ws) \in Nat
      /\ \A m \in 1..Len(ws) : vs[m] = ws[m]
      /\ vs[Len(ws) + 1] = w
      /\ DOMAIN ws = 1..Len(ws) /\ DOMAIN vs = 1..(Len(ws) + 1)
  BY DEF Core
<1> HIDE DEF vs
<1>2. \A m \in DOMAIN vs : vs[m].what = "load" => m \in DOMAIN ws /\ vs[m] = ws[m]
  BY <1>1
<1>3. \A m \in DOMAIN ws : m \in DOMAIN vs /\ vs[m] = ws[m]
  BY <1>1
<1>4. WritesHaveLoads(ls, vs)
  BY <1>2 DEF Core, WritesHaveLoads
<1>5. LoadsHaveWrites(ls, vs)
  BY <1>3 DEF Core, LoadsHaveWrites
<1>6. InOrder(ls, vs)
  BY <1>2 DEF Core, InOrder
<1> QED
  BY <1>1, <1>4, <1>5, <1>6 DEF Core, vs

(* It is committed.                                                        *)
LEMMA OtherWriteCommitted ==
    ASSUME NEW ls, NEW ws, NEW p, Core(ls, ws, p), ws # <<>>, ws[1].what # "load"
    PROVE  Core(ls, Tail(ws), p)
<1> DEFINE vs == Tail(ws)
<1>1. /\ vs \in Seq(WriteRecord) /\ Len(vs) = Len(ws) - 1 /\ Len(ws) \in Nat \ {0}
      /\ \A m \in 1..(Len(ws) - 1) : vs[m] = ws[m + 1]
      /\ DOMAIN ws = 1..Len(ws) /\ DOMAIN vs = 1..(Len(ws) - 1)
  BY DEF Core
<1> HIDE DEF vs
<1>2. \A m \in DOMAIN vs : m + 1 \in DOMAIN ws /\ vs[m] = ws[m + 1]
  BY <1>1
<1>3. \A m \in DOMAIN ws : m # 1 => m - 1 \in DOMAIN vs /\ vs[m - 1] = ws[m]
  BY <1>1
<1>4. WritesHaveLoads(ls, vs)
  BY <1>2 DEF Core, WritesHaveLoads
<1>5. LoadsHaveWrites(ls, vs)
  BY <1>3 DEF Core, LoadsHaveWrites
<1>6. InOrder(ls, vs)
  <2>1. \A m, n \in DOMAIN vs : m < n => m + 1 < n + 1
    BY <1>1
  <2> QED
    BY <1>2, <2>1 DEF Core, InOrder
<1> QED
  BY <1>1, <1>4, <1>5, <1>6 DEF Core, vs

(* A load that waits for no write ends.                                    *)
LEMMA LoadRemoved ==
    ASSUME NEW ls, NEW ws, NEW p, Core(ls, ws, p), NEW k \in DOMAIN ls, ls[k].at # "write"
    PROVE  Core(RemoveAt(ls, k), ws, p)
<1> DEFINE ms == RemoveAt(ls, k)
           From(i) == IF i < k THEN i ELSE i + 1
           To(i) == IF i < k THEN i ELSE i - 1
<1>1. ls \in Seq(LoadRecord) /\ DOMAIN ls = 1..Len(ls) /\ Len(ls) \in Nat /\ k \in 1..Len(ls)
  BY DEF Core
<1>2. /\ ms \in Seq(LoadRecord) /\ Len(ms) = Len(ls) - 1
      /\ DOMAIN ms = 1..(Len(ls) - 1)
      /\ \A i \in 1..(Len(ls) - 1) : ms[i] = ls[From(i)]
  <2>1. /\ ms \in Seq(LoadRecord) /\ Len(ms) = Len(ls) - 1
        /\ \A i \in 1..(Len(ls) - 1) : ms[i] = IF i < k THEN ls[i] ELSE ls[i + 1]
    BY <1>1, RemoveAtProperties
  <2>2. DOMAIN ms = 1..(Len(ls) - 1)
    BY <2>1
  <2> HIDE DEF ms
  <2>3. \A i \in 1..(Len(ls) - 1) : ms[i] = ls[From(i)]
    BY <2>1
  <2> QED BY <2>1, <2>2, <2>3
<1> HIDE DEF ms
<1>3. \A i \in DOMAIN ms : From(i) \in DOMAIN ls /\ From(i) # k /\ ms[i] = ls[From(i)]
  BY <1>1, <1>2
<1>4. \A i \in DOMAIN ls \ {k} : To(i) \in DOMAIN ms /\ ms[To(i)] = ls[i]
  BY <1>1, <1>2
<1>5. \A i, j \in DOMAIN ms : (From(i) = From(j) => i = j) /\ (From(i) < From(j) => i < j)
  BY <1>1, <1>2
<1>6. \A i \in DOMAIN ms : From(i) = Len(ls) => i = Len(ms)
  BY <1>1, <1>2
<1> HIDE DEF From, To
<1>7. UniqueIds(ms) /\ OnePlays(ms)
  BY <1>3, <1>5 DEF Core, UniqueIds, OnePlays
<1>8. WritesHaveLoads(ms, ws)
  BY <1>4 DEF Core, WritesHaveLoads
<1>9. LoadsHaveWrites(ms, ws)
  BY <1>3 DEF Core, LoadsHaveWrites
<1>10. InOrder(ms, ws)
  BY <1>3, <1>5 DEF Core, InOrder
<1>11. LastMayCommit(ms, p) /\ OvertakenIsPast(ms, p)
  BY <1>3, <1>6 DEF Core, LastMayCommit, OvertakenIsPast
<1> QED
  BY <1>2, <1>7, <1>8, <1>9, <1>10, <1>11 DEF Core, ms

(* A load of a song that has left is no longer current, nor one of a song  *)
(* that is loaded again.                                                   *)
Outdate(ls, gone) == [i \in DOMAIN ls |-> [ls[i] EXCEPT !.current = @ /\ ls[i].song \notin gone]]

LEMMA LoadsOutdated ==
    ASSUME NEW ls, NEW ws, NEW p, Core(ls, ws, p), NEW gone
    PROVE  /\ Core(Outdate(ls, gone), ws, p)
           /\ DOMAIN Outdate(ls, gone) = DOMAIN ls
           /\ \A i \in DOMAIN ls :
                /\ Outdate(ls, gone)[i].id = ls[i].id
                /\ \A s \in gone : ~May(Outdate(ls, gone)[i], s)
<1> DEFINE ms == Outdate(ls, gone)
<1>1. ls \in Seq(LoadRecord) /\ DOMAIN ls = 1..Len(ls) /\ Len(ls) \in Nat
  BY DEF Core
<1>2. DOMAIN ms = DOMAIN ls
  BY DEF Outdate
<1>3. ASSUME NEW i \in DOMAIN ls
      PROVE  /\ ms[i] \in LoadRecord
             /\ ms[i].id = ls[i].id /\ ms[i].song = ls[i].song /\ ms[i].at = ls[i].at
             /\ ms[i].overtaken = ls[i].overtaken
             /\ ms[i].current => ls[i].current /\ ls[i].song \notin gone
  <2>1. ls[i] \in LoadRecord
    BY <1>1
  <2> QED BY <2>1 DEF Outdate, LoadRecord
<1> HIDE DEF ms
<1>4. ms \in Seq(LoadRecord) /\ Len(ms) = Len(ls)
  <2>1. \A i \in 1..Len(ls) : ms[i] \in LoadRecord
    BY <1>1, <1>3
  <2>2. ms = [i \in 1..Len(ls) |-> ms[i]]
    BY <1>1, <1>2 DEF ms, Outdate
  <2>3. ms \in [1..Len(ls) -> LoadRecord]
    BY <2>1, <2>2
  <2> QED BY <1>1, <2>3
<1>5. \A i \in DOMAIN ls : \A q : May(ms[i], q) => May(ls[i], q) /\ q \notin gone
  BY <1>3 DEF May
<1>6. UniqueIds(ms) /\ OnePlays(ms)
  BY <1>2, <1>3 DEF Core, UniqueIds, OnePlays
<1>7. WritesHaveLoads(ms, ws) /\ LoadsHaveWrites(ms, ws)
  BY <1>2, <1>3 DEF Core, WritesHaveLoads, LoadsHaveWrites
<1>8. InOrder(ms, ws)
  BY <1>2, <1>3 DEF Core, InOrder
<1>9. LastMayCommit(ms, p) /\ OvertakenIsPast(ms, p)
  BY <1>2, <1>3, <1>4, <1>5 DEF Core, LastMayCommit, OvertakenIsPast
<1> QED
  BY <1>2, <1>3, <1>4, <1>5, <1>6, <1>7, <1>8, <1>9 DEF Core, ms

(* A load begins.                                                          *)
LEMMA LoadAsked ==
    ASSUME NEW ls, NEW ws, NEW p, Core(ls, ws, p), NEW l \in LoadRecord,
           l.at = "url", ~l.overtaken,
           \A i \in DOMAIN ls : ls[i].id # l.id /\ ~May(ls[i], l.song)
    PROVE  Core(Append(ls, l), ws, l.song)
<1> DEFINE ms == Append(ls, l)
<1>1. /\ ms \in Seq(LoadRecord) /\ Len(ms) = Len(ls) + 1 /\ Len(ls) \in Nat
      /\ \A i \in 1..Len(ls) : ms[i] = ls[i]
      /\ ms[Len(ls) + 1] = l
      /\ DOMAIN ls = 1..Len(ls) /\ DOMAIN ms = 1..(Len(ls) + 1)
  BY DEF Core
<1> HIDE DEF ms
<1>2. \A i \in DOMAIN ms : (i \in DOMAIN ls /\ ms[i] = ls[i]) \/ (i = Len(ms) /\ ms[i] = l)
  BY <1>1
<1>3. \A i \in DOMAIN ls : i \in DOMAIN ms /\ ms[i] = ls[i]
  BY <1>1
<1>4. UniqueIds(ms)
  BY <1>2 DEF Core, UniqueIds
<1>5. OnePlays(ms)
  BY <1>2 DEF Core, OnePlays
<1>6. WritesHaveLoads(ms, ws)
  BY <1>3 DEF Core, WritesHaveLoads
<1>7. LoadsHaveWrites(ms, ws)
  BY <1>2 DEF Core, LoadsHaveWrites
<1>8. InOrder(ms, ws)
  <2> SUFFICES ASSUME NEW m \in DOMAIN ws, NEW n \in DOMAIN ws,
                      NEW i \in DOMAIN ms, NEW j \in DOMAIN ms, m < n,
                      ws[m].what = "load", ws[n].what = "load",
                      ms[i].id = ws[m].load, ms[j].id = ws[n].load
               PROVE  i < j
    BY DEF InOrder
  <2>1. \E a \in DOMAIN ls : ls[a].id = ws[m].load
    BY DEF Core, WritesHaveLoads
  <2>2. \E b \in DOMAIN ls : ls[b].id = ws[n].load
    BY DEF Core, WritesHaveLoads
  <2>3. i \in DOMAIN ls /\ j \in DOMAIN ls /\ ms[i] = ls[i] /\ ms[j] = ls[j]
    BY <1>2, <2>1, <2>2
  <2> QED BY <2>3 DEF Core, InOrder
<1>9. LastMayCommit(ms, l.song) /\ OvertakenIsPast(ms, l.song)
  BY <1>2 DEF Core, LastMayCommit, OvertakenIsPast
<1>10. l.song \in Songs
  BY DEF LoadRecord
<1> QED
  BY <1>1, <1>4, <1>5, <1>6, <1>7, <1>8, <1>9, <1>10 DEF Core, ms

(* There is always a number for the next load.                             *)
LEMMA NumberIsFree ==
    ASSUME NEW ls \in Seq(LoadRecord)
    PROVE  \E n \in 1..(Len(ls) + 1) : \A i \in DOMAIN ls : ls[i].id # n
<1> DEFINE D == 1..Len(ls)
           E == 1..(Len(ls) + 1)
           f == [n \in E |-> CHOOSE i \in D : ls[i].id = n]
<1>1. Len(ls) \in Nat /\ DOMAIN ls = D
  OBVIOUS
<1>2. IsFiniteSet(D) /\ Cardinality(D) = Len(ls)
  BY <1>1, FS_Interval
<1>3. IsFiniteSet(E) /\ Cardinality(E) = Len(ls) + 1
  BY <1>1, FS_Interval
<1>4. ASSUME \A n \in E : \E i \in D : ls[i].id = n PROVE FALSE
  <2>1. \A n \in E : f[n] \in D /\ ls[f[n]].id = n
    BY <1>4
  <2>2. f \in [E -> D]
    BY <2>1
  <2>3. Cardinality(D) < Cardinality(E)
    BY <1>1, <1>2, <1>3
  <2> HIDE DEF f, D, E
  <2>4. \E m, n \in E : m # n /\ f[m] = f[n]
    BY <1>2, <1>3, <2>2, <2>3, FS_PigeonHole
  <2> QED BY <2>1, <2>4
<1> QED
  BY <1>1, <1>4

(* The url of the last load has come: it waits for its write.              *)
LEMMA LoadWrites ==
    ASSUME NEW ls, NEW ws, NEW p, Core(ls, ws, p), NEW k \in DOMAIN ls,
           ls[k].at = "url", May(ls[k], p),
           NEW w \in WriteRecord, w.what = "load", w.load = ls[k].id
    PROVE  Core([ls EXCEPT ![k].at = "write"], Append(ws, w), None)
<1> DEFINE ms == [ls EXCEPT ![k].at = "write"]
           vs == Append(ws, w)
<1>1. ls \in Seq(LoadRecord) /\ DOMAIN ls = 1..Len(ls) /\ Len(ls) \in Nat /\ k = Len(ls)
  BY DEF Core, LastMayCommit
<1>2. DOMAIN ms = DOMAIN ls
  OBVIOUS
<1>3. ASSUME NEW i \in DOMAIN ls
      PROVE  /\ ms[i] \in LoadRecord
             /\ ms[i].id = ls[i].id /\ ms[i].song = ls[i].song
             /\ ms[i].overtaken = ls[i].overtaken
             /\ ms[i].at = IF i = k THEN "write" ELSE ls[i].at
  <2>1. ls[i] \in LoadRecord /\ ls[k] \in LoadRecord
    BY <1>1
  <2> QED BY <2>1 DEF LoadRecord, LoadStages
<1>4. ms \in Seq(LoadRecord) /\ Len(ms) = Len(ls)
  <2>1. ms \in [1..Len(ls) -> LoadRecord]
    BY <1>1, <1>2, <1>3
  <2> QED BY <1>1, <2>1
<1> HIDE DEF ms
<1>5. /\ vs \in Seq(WriteRecord) /\ Len(vs) = Len(ws) + 1 /\ Len(ws) \in Nat
      /\ \A m \in 1..Len(ws) : vs[m] = ws[m]
      /\ vs[Len(ws) + 1] = w
      /\ DOMAIN ws = 1..Len(ws) /\ DOMAIN vs = 1..(Len(ws) + 1)
  BY DEF Core
<1> HIDE DEF vs
<1>6. \A m \in DOMAIN vs : (m \in DOMAIN ws /\ vs[m] = ws[m]) \/ (m = Len(vs) /\ vs[m] = w)
  BY <1>5
<1>7. \A m \in DOMAIN ws : m \in DOMAIN vs /\ vs[m] = ws[m] /\ m < Len(vs)
  BY <1>5
<1>8. Len(vs) \in DOMAIN vs /\ vs[Len(vs)] = w
  BY <1>5
<1>9. UniqueIds(ms) /\ OnePlays(ms)
  BY <1>2, <1>3 DEF Core, UniqueIds, OnePlays
<1>10. WritesHaveLoads(ms, vs)
  BY <1>2, <1>3, <1>6 DEF Core, WritesHaveLoads
<1>11. LoadsHaveWrites(ms, vs)
  BY <1>2, <1>3, <1>7, <1>8 DEF Core, LoadsHaveWrites
<1>12. InOrder(ms, vs)
  <2> SUFFICES ASSUME NEW m \in DOMAIN vs, NEW n \in DOMAIN vs,
                      NEW i \in DOMAIN ms, NEW j \in DOMAIN ms, m < n,
                      vs[m].what = "load", vs[n].what = "load",
                      ms[i].id = vs[m].load, ms[j].id = vs[n].load
               PROVE  i < j
    BY DEF InOrder
  <2>1. m \in DOMAIN ws /\ vs[m] = ws[m]
    BY <1>5, <1>6
  <2>2. i \in DOMAIN ls /\ ls[i].at = "write"
    BY <1>2, <1>3, <2>1 DEF Core, WritesHaveLoads, UniqueIds
  <2>3. CASE n \in DOMAIN ws /\ vs[n] = ws[n]
    BY <1>2, <1>3, <2>1, <2>3 DEF Core, InOrder
  <2>4. CASE vs[n] = w
    <3>1. j = k
      BY <1>2, <1>3, <2>4 DEF Core, UniqueIds
    <3> QED BY <1>1, <2>2, <3>1
  <2> QED BY <1>6, <2>3, <2>4
<1>13. \A i \in DOMAIN ms : ~May(ms[i], None)
  <2>1. \A i \in DOMAIN ms : ms[i].song \in Songs
    BY <1>2, <1>3 DEF LoadRecord
  <2> QED BY <2>1, PlayerAssumption DEF May
<1>14. LastMayCommit(ms, None) /\ OvertakenIsPast(ms, None)
  BY <1>2, <1>3, <1>13 DEF Core, LastMayCommit, OvertakenIsPast
<1> QED
  BY <1>4, <1>5, <1>9, <1>10, <1>11, <1>12, <1>14 DEF Core, ms, vs

(* The write of a load is committed: it takes the element from the one     *)
(* that had it, and all before it are overtaken.                           *)
Take(ls, k) ==
    [i \in DOMAIN ls |->
        [ls[i] EXCEPT !.at = IF @ = "play" THEN "replaced" ELSE @,
                      !.overtaken = @ \/ i < k]]
Taken(ls, k) == [Take(ls, k) EXCEPT ![k].at = "play"]

LEMMA LoadTakes ==
    ASSUME NEW ls, NEW ws, NEW p, Core(ls, ws, p), ws # <<>>, ws[1].what = "load",
           NEW k \in DOMAIN ls, ls[k].id = ws[1].load
    PROVE  /\ Core(Taken(ls, k), Tail(ws), p)
           /\ DOMAIN Taken(ls, k) = DOMAIN ls /\ Taken(ls, k)[k].at = "play"
<1> DEFINE ms == Taken(ls, k)
           vs == Tail(ws)
<1>1. ls \in Seq(LoadRecord) /\ DOMAIN ls = 1..Len(ls) /\ Len(ls) \in Nat
  BY DEF Core
<1>2. DOMAIN ms = DOMAIN ls
  BY DEF Taken, Take
<1>3. ASSUME NEW i \in DOMAIN ls
      PROVE  /\ ms[i] \in LoadRecord
             /\ ms[i].id = ls[i].id /\ ms[i].song = ls[i].song /\ ms[i].current = ls[i].current
             /\ ms[i].overtaken = (ls[i].overtaken \/ i < k)
             /\ ms[i].at = IF i = k THEN "play"
                           ELSE IF ls[i].at = "play" THEN "replaced" ELSE ls[i].at
  <2>1. ls[i] \in LoadRecord
    BY <1>1
  <2> DEFINE t == [ls[i] EXCEPT !.at = IF @ = "play" THEN "replaced" ELSE @,
                                !.overtaken = @ \/ i < k]
  <2>2. /\ t \in LoadRecord
        /\ t.id = ls[i].id /\ t.song = ls[i].song /\ t.current = ls[i].current
        /\ t.overtaken = (ls[i].overtaken \/ i < k)
        /\ t.at = IF ls[i].at = "play" THEN "replaced" ELSE ls[i].at
    BY <2>1 DEF LoadRecord, LoadStages
  <2>3. ms[i] = IF i = k THEN [t EXCEPT !.at = "play"] ELSE t
    BY DEF Taken, Take
  <2> HIDE DEF t, ms
  <2> QED BY <2>2, <2>3 DEF LoadRecord, LoadStages
<1>4. ms \in Seq(LoadRecord) /\ Len(ms) = Len(ls)
  <2>1. ms \in [1..Len(ls) -> LoadRecord]
    <3>1. ms = [i \in DOMAIN ls |-> ms[i]]
      BY DEF Taken, Take
    <3> HIDE DEF ms
    <3> QED BY <1>1, <1>3, <3>1
  <2> HIDE DEF ms
  <2> QED BY <1>1, <2>1
<1> HIDE DEF ms
<1>5. /\ vs \in Seq(WriteRecord) /\ Len(ws) \in Nat \ {0}
      /\ \A m \in 1..(Len(ws) - 1) : vs[m] = ws[m + 1]
      /\ DOMAIN ws = 1..Len(ws) /\ DOMAIN vs = 1..(Len(ws) - 1)
  BY DEF Core
<1> HIDE DEF vs
<1>6. \A m \in DOMAIN vs : m + 1 \in DOMAIN ws /\ vs[m] = ws[m + 1] /\ 1 < m + 1
  BY <1>5
<1>7. \A m \in DOMAIN ws : m # 1 => m - 1 \in DOMAIN vs /\ vs[m - 1] = ws[m]
  BY <1>5
<1>8. 1 \in DOMAIN ws
  BY <1>5
<1>9. \A m \in DOMAIN vs : \A i \in DOMAIN ls :
          vs[m].what = "load" /\ ls[i].id = vs[m].load => k < i
  BY <1>6, <1>8 DEF Core, InOrder
<1>10. UniqueIds(ms) /\ OnePlays(ms)
  BY <1>2, <1>3 DEF Core, UniqueIds, OnePlays
<1>11. WritesHaveLoads(ms, vs)
  <2> SUFFICES ASSUME NEW m \in DOMAIN vs, vs[m].what = "load"
               PROVE  \E i \in DOMAIN ms : ms[i].id = vs[m].load /\ ms[i].at = "write"
    BY DEF WritesHaveLoads
  <2>1. PICK i \in DOMAIN ls : ls[i].id = vs[m].load /\ ls[i].at = "write"
    BY <1>6 DEF Core, WritesHaveLoads
  <2>2. k < i
    BY <1>9, <2>1
  <2>3. i # k
    BY <1>1, <2>2
  <2> QED BY <1>2, <1>3, <2>1, <2>3
<1>12. LoadsHaveWrites(ms, vs)
  <2> SUFFICES ASSUME NEW i \in DOMAIN ms, ms[i].at = "write"
               PROVE  \E m \in DOMAIN vs : vs[m].what = "load" /\ vs[m].load = ms[i].id
    BY DEF LoadsHaveWrites
  <2>1. i \in DOMAIN ls /\ ls[i].at = "write" /\ i # k
    BY <1>2, <1>3
  <2>2. PICK m \in DOMAIN ws : ws[m].what = "load" /\ ws[m].load = ls[i].id
    BY <2>1 DEF Core, LoadsHaveWrites
  <2>3. m # 1
    BY <2>1, <2>2 DEF Core, UniqueIds
  <2> QED BY <1>3, <1>7, <2>1, <2>2, <2>3
<1>13. InOrder(ms, vs)
  <2>1. \A m, n \in DOMAIN vs : m < n => m + 1 < n + 1
    BY <1>5
  <2> QED
    BY <1>2, <1>3, <1>6, <2>1 DEF Core, InOrder
<1>14. LastMayCommit(ms, p)
  BY <1>2, <1>3, <1>4 DEF Core, LastMayCommit, May
<1>15. ASSUME NEW i \in DOMAIN ms, ms[i].overtaken
       PROVE  ms[i].at # "write" /\ ~May(ms[i], p)
  <2>1. i \in DOMAIN ls /\ (ls[i].overtaken \/ i < k)
    BY <1>2, <1>3, <1>15
  <2>2. CASE ls[i].overtaken
    BY <1>3, <2>1, <2>2 DEF Core, OvertakenIsPast, May
  <2>3. CASE i < k
    <3>1. ~May(ls[i], p)
      BY <1>1, <2>1, <2>3 DEF Core, LastMayCommit
    <3>2. ls[i].at # "write"
      <4> SUFFICES ASSUME ls[i].at = "write" PROVE FALSE
        OBVIOUS
      <4>1. PICK m \in DOMAIN ws : ws[m].what = "load" /\ ws[m].load = ls[i].id
        BY <2>1 DEF Core, LoadsHaveWrites
      <4>2. m # 1
        BY <1>1, <2>1, <2>3, <4>1 DEF Core, UniqueIds
      <4>3. k < i
        BY <1>7, <1>9, <2>1, <4>1, <4>2
      <4> QED BY <1>1, <2>1, <2>3, <4>3
    <3> QED BY <1>3, <2>1, <3>1, <3>2 DEF May
  <2> QED BY <2>1, <2>2, <2>3
<1>16. OvertakenIsPast(ms, p)
  BY <1>15 DEF OvertakenIsPast
<1> QED
  BY <1>2, <1>3, <1>4, <1>5, <1>10, <1>11, <1>12, <1>13, <1>14, <1>16 DEF Core, ms, vs

(* A load that is not to play gives the element up again at once.          *)
LEMMA LoadTakesPaused ==
    ASSUME NEW ls, NEW ws, NEW p, Core(ls, ws, p), ws # <<>>, ws[1].what = "load",
           NEW k \in DOMAIN ls, ls[k].id = ws[1].load
    PROVE  Core(RemoveAt(Take(ls, k), k), Tail(ws), p)
<1> DEFINE ms == Take(ls, k)
           os == Taken(ls, k)
<1>1. Core(os, Tail(ws), p) /\ DOMAIN os = DOMAIN ls /\ os[k].at = "play"
  BY LoadTakes
<1>2. Core(RemoveAt(os, k), Tail(ws), p)
  <2> HIDE DEF os
  <2> QED BY <1>1, LoadRemoved
<1>3. os \in Seq(LoadRecord) /\ ls \in Seq(LoadRecord)
  BY <1>1 DEF Core
<1>4. Len(os) = Len(ls) /\ Len(ls) \in Nat /\ DOMAIN ls = 1..Len(ls)
  <2> HIDE DEF os
  <2> QED BY <1>1, <1>3
<1>5. ms \in Seq(LoadRecord) /\ Len(ms) = Len(ls) /\ \A i \in DOMAIN ls : i # k => os[i] = ms[i]
  <2>1. ASSUME NEW i \in DOMAIN ls PROVE ms[i] \in LoadRecord
    <3>1. ls[i] \in LoadRecord
      BY <1>3
    <3> QED BY <3>1 DEF Take, LoadRecord, LoadStages
  <2>2. ms \in [1..Len(ls) -> LoadRecord]
    BY <1>4, <2>1 DEF Take
  <2>3. \A i \in DOMAIN ls : i # k => os[i] = ms[i]
    BY DEF Taken, Take
  <2> HIDE DEF ms
  <2> QED BY <1>4, <2>2, <2>3
<1> HIDE DEF os, ms
<1>6. RemoveAt(os, k) = RemoveAt(ms, k)
  <2>1. k \in 1..Len(ls)
    BY <1>4
  <2>2. /\ RemoveAt(os, k) \in Seq(LoadRecord) /\ Len(RemoveAt(os, k)) = Len(ls) - 1
        /\ \A i \in 1..(Len(ls) - 1) : RemoveAt(os, k)[i] = IF i < k THEN os[i] ELSE os[i + 1]
    BY <1>3, <1>4, <2>1, RemoveAtProperties
  <2>3. /\ RemoveAt(ms, k) \in Seq(LoadRecord) /\ Len(RemoveAt(ms, k)) = Len(ls) - 1
        /\ \A i \in 1..(Len(ls) - 1) : RemoveAt(ms, k)[i] = IF i < k THEN ms[i] ELSE ms[i + 1]
    BY <1>5, <2>1, RemoveAtProperties
  <2>4. ASSUME NEW i \in 1..(Len(ls) - 1) PROVE RemoveAt(os, k)[i] = RemoveAt(ms, k)[i]
    <3>1. CASE i < k
      <4>1. i \in DOMAIN ls /\ i # k
        BY <1>4, <2>1, <3>1
      <4> QED BY <1>5, <2>2, <2>3, <3>1, <4>1
    <3>2. CASE ~(i < k)
      <4>1. i + 1 \in DOMAIN ls /\ i + 1 # k
        BY <1>4, <2>1, <3>2
      <4> QED BY <1>5, <2>2, <2>3, <3>2, <4>1
    <3> QED BY <3>1, <3>2
  <2> QED BY <2>2, <2>3, <2>4, SeqEqual
<1> QED
  BY <1>2, <1>6 DEF ms

-----------------------------------------------------------------------------
(* The inductive invariant                                                 *)

Stages == {"idle", "called", "pick", "load", "delay", "clearing", "returned"}
NextRecord ==
    {r \in [pc : Stages, ended : Songs \cup {None}, q : Seq(Songs), at : Nat,
            attempts : Nat, tries : Nat, load : Nat] :
        r.pc \in {"load", "delay"} => r.at \in 1..Len(r.q)}

QueueTypes == queue \in Seq(Songs) /\ current \in Songs \cup {None}
TaskTypes == tasks \in Seq(TaskRecord)
NextTypes == next \in [Slots -> NextRecord]
FacadeTypes ==
    /\ retries \subseteq Songs /\ retried \in Songs \cup {None}
    /\ paused \in BOOLEAN
ElementTypes ==
    /\ audio \in {"playing", "paused", "stopped"} /\ snap \in {"playing", "paused", "stopped"}
    /\ loaded \in Songs \cup {None}

IInv ==
    /\ Core(loads, writes, pending)
    /\ QueueTypes /\ TaskTypes /\ NextTypes /\ FacadeTypes /\ ElementTypes

LEMMA InvariantIsTyped == IInv => TypeOK
<1> SUFFICES ASSUME IInv PROVE TypeOK
  OBVIOUS
<1>1. loads \in Seq(LoadRecord) /\ writes \in Seq(WriteRecord) /\ pending \in Songs \cup {None}
  BY DEF IInv, Core
<1>2. ASSUME NEW w \in ToSet(writes)
      PROVE  w.what \in {"load", "queue", "nothing"} /\ w.gone \subseteq Songs
  <2>1. w \in WriteRecord
    BY <1>1 DEF ToSet
  <2> QED BY <2>1 DEF WriteRecord
<1>3. ASSUME NEW l \in ToSet(loads)
      PROVE  l.song \in Songs /\ l.at \in {"url", "write", "play", "replaced"}
  <2>1. l \in LoadRecord
    BY <1>1 DEF ToSet
  <2> QED BY <2>1 DEF LoadRecord, LoadStages
<1>4. \A i, j \in DOMAIN loads : loads[i].id = loads[j].id => i = j
  BY DEF IInv, Core, UniqueIds
<1>5. \A i, j \in DOMAIN loads : loads[i].at = "play" /\ loads[j].at = "play" => i = j
  BY DEF IInv, Core, OnePlays
<1>6. {l.id : l \in {l \in ToSet(loads) : l.at = "write"}} =
          {w.load : w \in {w \in ToSet(writes) : w.what = "load"}}
  <2>1. \A i \in DOMAIN loads : loads[i].at = "write" =>
            \E m \in DOMAIN writes : writes[m].what = "load" /\ writes[m].load = loads[i].id
    BY DEF IInv, Core, LoadsHaveWrites
  <2>2. \A m \in DOMAIN writes : writes[m].what = "load" =>
            \E i \in DOMAIN loads : loads[i].id = writes[m].load /\ loads[i].at = "write"
    BY DEF IInv, Core, WritesHaveLoads
  <2> QED BY <2>1, <2>2 DEF ToSet
<1>7. \A n \in Slots :
          next[n].pc \in {"idle", "called", "pick", "load", "delay", "clearing", "returned"}
  BY DEF IInv, NextTypes, NextRecord, Stages
<1> QED
  BY <1>1, <1>2, <1>3, <1>4, <1>5, <1>6, <1>7
     DEF IInv, TypeOK, QueueTypes, FacadeTypes, ElementTypes

LEMMA InvariantIsOrdered == IInv => NeverGoesBack
  BY DEF IInv, Core, OvertakenIsPast, NeverGoesBack, ToSet

LEMMA StartIsSound == Init => IInv
<1> SUFFICES ASSUME Init PROVE IInv
  OBVIOUS
<1>1. StartQueue \in Seq(Songs) /\ StartQueue # <<>> /\ StartQueue[1] \in Songs
  BY PlayerAssumption
<1>2. Core(loads, writes, pending)
  BY DEF Init, Core, UniqueIds, OnePlays, WritesHaveLoads, LoadsHaveWrites, InOrder,
         LastMayCommit, OvertakenIsPast
<1>3. Idle \in NextRecord
  BY DEF Idle, NextRecord, Stages
<1>4. NextTypes
  BY <1>3 DEF Init, NextTypes
<1>5. TaskTypes
  BY DEF Init, TaskTypes
<1> QED
  BY <1>1, <1>2, <1>4, <1>5
     DEF Init, IInv, QueueTypes, FacadeTypes, ElementTypes

-----------------------------------------------------------------------------
(* What the actions share                                                  *)

LEMMA RestIsTyped ==
    ASSUME NEW do \in TaskNames, NEW s \in Songs \cup {None},
           NEW c \in Songs \cup {None} \cup Slots, do \in {"play", "playIfIdle"} => s \in Songs
    PROVE  Rest(do, s, c) \in Seq(TaskRecord)
<1>1. [do |-> do, song |-> s, was |-> c] \in TaskRecord
  BY DEF TaskRecord
<1> QED
  BY <1>1 DEF Rest

LEMMA AwaitIsTyped ==
    /\ Unawaited \in WriteRecord /\ Unawaited.what = "nothing"
    /\ \A n \in Nat : /\ WriteOf(n) \in WriteRecord
                      /\ WriteOf(n).what = "load" /\ WriteOf(n).load = n
    /\ \A rest \in Seq(TaskRecord) : /\ [Unawaited EXCEPT !.rest = rest] \in WriteRecord
                                    /\ [Unawaited EXCEPT !.rest = rest].what = "nothing"
  BY DEF Unawaited, WriteOf, Await, WriteRecord

LEMMA QueueSetIsTyped ==
    ASSUME queue \in Seq(Songs), NEW q, NEW rest \in Seq(TaskRecord)
    PROVE  QueueSet(q, rest) \in WriteRecord /\ QueueSet(q, rest).what = "queue"
<1>1. ToSet(queue) \ ToSet(q) \subseteq Songs
  BY DEF ToSet
<1> QED
  BY <1>1 DEF QueueSet, WriteRecord

(* A write that no load awaits.                                            *)
LEMMA WritesOther ==
    ASSUME IInv, NEW w \in WriteRecord, w.what # "load",
           writes' = Append(writes, w), loads' = loads, pending' \in {pending, None}
    PROVE  Core(loads, writes, pending)'
<1>1. Core(loads, Append(writes, w), pending)
  BY OtherWriteMade DEF IInv
<1>2. Core(loads, Append(writes, w), None)
  BY <1>1, ChoiceDropped
<1> QED
  BY <1>1, <1>2

LEMMA FreeIdIsFree ==
    IInv => FreeId \in Nat /\ \A i \in DOMAIN loads : loads[i].id # FreeId
<1> SUFFICES ASSUME IInv PROVE FreeId \in Nat /\ \A i \in DOMAIN loads : loads[i].id # FreeId
  OBVIOUS
<1>1. loads \in Seq(LoadRecord)
  BY DEF IInv, Core
<1>2. \E n \in 1..(Len(loads) + 1) : \A i \in DOMAIN loads : loads[i].id # n
  BY <1>1, NumberIsFree
<1>3. FreeId \in 1..(Len(loads) + 1) /\ \A i \in DOMAIN loads : loads[i].id # FreeId
  BY <1>2 DEF FreeId
<1> QED
  BY <1>1, <1>3

LEMMA BeginKeeps ==
    ASSUME IInv, NEW s \in Songs, NEW u \in BOOLEAN, NEW r \in BOOLEAN,
           Begin(s, u, r), writes' = writes
    PROVE  Core(loads, writes, pending)' /\ paused' \in BOOLEAN
<1> DEFINE os == Outdate(loads, {s})
<1>1. PICK l : l = [id |-> FreeId, song |-> s, current |-> TRUE, at |-> "url", overtaken |-> FALSE,
                    auto |-> u \/ ~paused, retry |-> r]
  OBVIOUS
<1>2. FreeId \in Nat /\ \A i \in DOMAIN loads : loads[i].id # FreeId
  BY FreeIdIsFree
<1>3. paused \in BOOLEAN
  BY DEF IInv, FacadeTypes
<1>4. l \in LoadRecord /\ l.at = "url" /\ ~l.overtaken /\ l.song = s /\ l.id = FreeId
  BY <1>1, <1>2, <1>3 DEF LoadRecord, LoadStages
<1>5. Core(loads, writes, pending)
  BY DEF IInv
<1>6. /\ Core(os, writes, pending) /\ DOMAIN os = DOMAIN loads
      /\ \A i \in DOMAIN loads : os[i].id = loads[i].id /\ ~May(os[i], s)
  BY <1>5, LoadsOutdated
<1>7. loads' = Append(os, l) /\ pending' = s
  BY <1>1 DEF Begin, Outdated, Outdate
<1>8. Core(Append(os, l), writes, s)
  <2> HIDE DEF os
  <2>1. \A i \in DOMAIN os : os[i].id # l.id /\ ~May(os[i], l.song)
    BY <1>2, <1>4, <1>6
  <2>2. Core(Append(os, l), writes, l.song)
    BY <1>4, <1>6, <2>1, LoadAsked
  <2> QED BY <1>4, <2>2
<1>9. paused' \in BOOLEAN
  BY <1>3 DEF Begin
<1> QED
  BY <1>7, <1>8, <1>9

LEMMA ToldIsTyped ==
    ASSUME IInv, NEW l, next' = Told(l)
    PROVE  NextTypes'
<1>1. \A n \in Slots : next[n] \in NextRecord
  BY DEF IInv, NextTypes
<1>2. \A n \in Slots : [next[n] EXCEPT !.pc = "returned"] \in NextRecord
  BY <1>1 DEF NextRecord, Stages
<1> QED
  BY <1>1, <1>2 DEF Told, NextTypes

LEMMA FailedIsTyped ==
    ASSUME NEW r \in NextRecord, r.pc = "load"
    PROVE  Failed(r) \in NextRecord
  BY DEF NextRecord, Stages, Failed

LEMMA CalledIsTyped ==
    ASSUME NEW e \in Songs \cup {None}
    PROVE  Idle \in NextRecord /\ Called(e) \in NextRecord
<1>1. Idle \in NextRecord
  BY DEF Idle, NextRecord, Stages
<1>2. Called(e) \in NextRecord
  <2>1. PICK r \in NextRecord : r = Idle
    BY <1>1
  <2>2. [r EXCEPT !.pc = "called", !.ended = e] \in NextRecord
    BY DEF NextRecord, Stages
  <2> QED BY <2>1, <2>2 DEF Called
<1> QED
  BY <1>1, <1>2

-----------------------------------------------------------------------------
(* Loads and writes                                                        *)

LEMMA UrlResolvesKeeps ==
    ASSUME IInv, NEW k \in DOMAIN loads, UrlResolves(k) PROVE IInv'
<1>1. Core(loads, writes, pending) /\ loads[k].at = "url"
  BY DEF IInv, UrlResolves
<1>2. loads[k] \in LoadRecord
  BY <1>1 DEF Core
<1>3. UNCHANGED <<queue, tasks, facade, audio, loaded, playEvent>>
  BY DEF UrlResolves
<1>4. TaskTypes' /\ FacadeTypes'
  BY <1>3 DEF IInv, TaskTypes, FacadeTypes, facade
<1>5. CASE MayCommit(loads[k])
  <2>1. /\ pending' = None /\ current' = loads[k].song
        /\ snap' = IF snap = "playing" THEN snap ELSE "stopped"
        /\ writes' = Append(writes, WriteOf(loads[k].id))
        /\ loads' = [loads EXCEPT ![k].at = "write"]
        /\ next' = next
    BY <1>5 DEF UrlResolves
  <2>2. May(loads[k], pending)
    BY <1>5 DEF MayCommit, May
  <2>3. /\ WriteOf(loads[k].id) \in WriteRecord
        /\ WriteOf(loads[k].id).what = "load" /\ WriteOf(loads[k].id).load = loads[k].id
    BY <1>2, AwaitIsTyped DEF LoadRecord
  <2>4. Core(loads, writes, pending)'
    BY <1>1, <2>1, <2>2, <2>3, LoadWrites
  <2>5. QueueTypes' /\ NextTypes' /\ ElementTypes'
    BY <1>2, <1>3, <2>1 DEF IInv, QueueTypes, NextTypes, ElementTypes, LoadRecord
  <2> QED BY <1>4, <2>4, <2>5 DEF IInv
<1>6. CASE ~MayCommit(loads[k])
  <2>1. Returned(k) /\ UNCHANGED <<pending, snap, current, writes>>
    BY <1>6 DEF UrlResolves
  <2>2. Core(loads, writes, pending)'
    BY <1>1, <2>1, LoadRemoved DEF Returned
  <2>3. NextTypes'
    BY <2>1, ToldIsTyped DEF Returned
  <2>4. QueueTypes' /\ ElementTypes'
    BY <1>3, <2>1 DEF IInv, QueueTypes, ElementTypes
  <2> QED BY <1>4, <2>2, <2>3, <2>4 DEF IInv
<1> QED
  BY <1>5, <1>6

LEMMA ThrewKeeps ==
    ASSUME IInv, NEW k \in DOMAIN loads, loads[k].at # "write", Threw(k), writes' = writes
    PROVE  Core(loads, writes, pending)' /\ NextTypes' /\ snap' = "stopped"
<1>1. Core(RemoveAt(loads, k), writes, pending)
  BY LoadRemoved DEF IInv
<1>2. Core(loads, writes, pending)'
  BY <1>1, ChoiceDropped DEF Threw
<1>3. PICK free \in Slots :
        next' = [n \in Slots |->
                    IF Owner(loads[k], n) THEN Failed(next[n])
                    ELSE IF loads[k].retry /\ n = free THEN Called(None) ELSE next[n]]
  BY DEF Threw
<1>4. ASSUME NEW n \in Slots
      PROVE  /\ next[n] \in NextRecord
             /\ Owner(loads[k], n) => Failed(next[n]) \in NextRecord
  <2>1. next[n] \in NextRecord
    BY DEF IInv, NextTypes
  <2> QED BY <2>1, FailedIsTyped DEF Owner
<1>5. Called(None) \in NextRecord
  BY CalledIsTyped
<1>6. NextTypes'
  BY <1>3, <1>4, <1>5 DEF NextTypes
<1> QED
  BY <1>2, <1>6 DEF Threw

LEMMA LoadsKeep ==
    ASSUME IInv, NEW k \in DOMAIN loads, UrlFails(k) \/ PlayResolves(k) \/ PlayRejects(k)
    PROVE  IInv'
<1>1. UNCHANGED <<state, tasks, retries, retried, paused, loaded>>
  BY DEF UrlFails, PlayResolves, PlayRejects, facade
<1>2. QueueTypes' /\ TaskTypes' /\ FacadeTypes' /\ writes' = writes
  BY <1>1 DEF IInv, QueueTypes, TaskTypes, FacadeTypes, state
<1>3. CASE UrlFails(k)
  <2>1. Core(loads, writes, pending)' /\ NextTypes' /\ snap' = "stopped"
    BY <1>2, <1>3, ThrewKeeps DEF UrlFails
  <2>2. ElementTypes'
    BY <1>3, <2>1 DEF IInv, ElementTypes, UrlFails
  <2> QED BY <1>2, <2>1, <2>2 DEF IInv
<1>4. CASE PlayResolves(k)
  <2>1. Core(loads, writes, pending)'
    BY <1>2, <1>4, LoadRemoved DEF IInv, PlayResolves, Returned
  <2>2. NextTypes'
    BY <1>4, ToldIsTyped DEF PlayResolves, Returned
  <2>3. ElementTypes'
    BY <1>4 DEF IInv, ElementTypes, PlayResolves
  <2> QED BY <1>2, <2>1, <2>2, <2>3 DEF IInv
<1>5. CASE PlayRejects(k)
  <2>1. Core(loads, writes, pending)' /\ NextTypes' /\ snap' = "stopped"
    BY <1>2, <1>5, ThrewKeeps DEF PlayRejects
  <2>2. ElementTypes'
    BY <1>5, <2>1 DEF IInv, ElementTypes, PlayRejects
  <2> QED BY <1>2, <2>1, <2>2 DEF IInv
<1> QED
  BY <1>3, <1>4, <1>5

LEMMA FirstWrite ==
    ASSUME IInv, writes # <<>>
    PROVE  /\ Head1 \in WriteRecord /\ Head1.rest \in Seq(TaskRecord)
           /\ Head1.what # "load" => Core(loads, Tail(writes), pending)
           /\ tasks' = tasks \o Head1.rest => TaskTypes'
<1>1. writes \in Seq(WriteRecord) /\ tasks \in Seq(TaskRecord)
  BY DEF IInv, Core, TaskTypes
<1>2. Head1 \in WriteRecord
  BY <1>1 DEF Head1
<1>3. Head1.rest \in Seq(TaskRecord)
  BY <1>2 DEF WriteRecord
<1>4. tasks \o Head1.rest \in Seq(TaskRecord)
  BY <1>1, <1>3
<1>5. Head1.what # "load" => Core(loads, Tail(writes), pending)
  BY OtherWriteCommitted DEF IInv, Head1
<1> QED
  BY <1>2, <1>3, <1>4, <1>5 DEF TaskTypes

LEMMA LoadCommittedKeeps ==
    ASSUME IInv, LoadCommitted PROVE IInv'
<1>1. /\ writes # <<>> /\ writes[1].what = "load" /\ writes' = Tail(writes)
      /\ UNCHANGED <<queue, current, tasks, pending, facade>>
  BY DEF LoadCommitted, Head1
<1>2. PICK k \in DOMAIN loads :
        /\ loads[k].id = writes[1].load
        /\ loaded' = loads[k].song
        /\ IF loads[k].auto
           THEN /\ audio' = "playing" /\ playEvent' = TRUE
                /\ loads' = [Replaced(k) EXCEPT ![k].at = "play"]
                /\ UNCHANGED <<next, snap>>
           ELSE /\ audio' = "paused" /\ playEvent' = FALSE /\ snap' = "paused"
                /\ loads' = RemoveAt(Replaced(k), k)
                /\ next' = Told(loads[k])
  BY DEF LoadCommitted, Head1
<1>3. Core(loads, writes, pending)
  BY DEF IInv
<1>4. loads[k] \in LoadRecord
  BY <1>3 DEF Core
<1>5. Replaced(k) = Take(loads, k)
  BY DEF Replaced, Take
<1>6. QueueTypes' /\ TaskTypes' /\ FacadeTypes'
  BY <1>1 DEF IInv, QueueTypes, TaskTypes, FacadeTypes, facade
<1>7. CASE loads[k].auto
  <2>1. Core(Taken(loads, k), Tail(writes), pending)
    BY <1>1, <1>2, <1>3, LoadTakes
  <2>2. loads' = Taken(loads, k)
    BY <1>2, <1>5, <1>7 DEF Taken
  <2>3. Core(loads, writes, pending)'
    BY <1>1, <2>1, <2>2
  <2>4. NextTypes' /\ ElementTypes'
    BY <1>2, <1>4, <1>7 DEF IInv, NextTypes, ElementTypes, LoadRecord
  <2> QED BY <1>6, <2>3, <2>4 DEF IInv
<1>8. CASE ~loads[k].auto
  <2>1. Core(RemoveAt(Take(loads, k), k), Tail(writes), pending)
    BY <1>1, <1>2, <1>3, LoadTakesPaused
  <2>2. Core(loads, writes, pending)'
    BY <1>1, <1>2, <1>5, <1>8, <2>1
  <2>3. NextTypes'
    BY <1>2, <1>8, ToldIsTyped
  <2>4. ElementTypes'
    BY <1>2, <1>4, <1>8 DEF IInv, ElementTypes, LoadRecord
  <2> QED BY <1>6, <2>2, <2>3, <2>4 DEF IInv
<1> QED
  BY <1>7, <1>8

LEMMA QueueCommittedKeeps ==
    ASSUME IInv, QueueCommitted PROVE IInv'
<1>1. /\ writes # <<>> /\ Head1.what = "queue"
      /\ loads' = Outdate(loads, Head1.gone)
      /\ tasks' = tasks \o Head1.rest
      /\ UNCHANGED <<queue, next, facade, loaded, playEvent>>
  BY DEF QueueCommitted, CancelMediaLoads, Outdated, Outdate
<1>2. TaskTypes' /\ Core(loads, Tail(writes), pending)
  BY <1>1, FirstWrite
<1>3. Core(loads', Tail(writes), pending)
  BY <1>1, <1>2, LoadsOutdated
<1>4. NextTypes' /\ FacadeTypes'
  BY <1>1 DEF IInv, NextTypes, FacadeTypes, facade
<1>5. CASE current \in Head1.gone
  <2>1. /\ audio' = "stopped" /\ snap' = "stopped" /\ current' = None /\ pending' = None
        /\ writes' = Append(Tail(writes), Unawaited)
    BY <1>5 DEF QueueCommitted, Stop
  <2>2. Core(loads', Append(Tail(writes), Unawaited), None)
    BY <1>3, ChoiceDropped, OtherWriteMade, AwaitIsTyped
  <2>3. QueueTypes' /\ ElementTypes'
    BY <1>1, <2>1 DEF IInv, QueueTypes, ElementTypes
  <2> QED BY <1>2, <1>4, <2>1, <2>2, <2>3 DEF IInv
<1>6. CASE current \notin Head1.gone
  <2>1. writes' = Tail(writes) /\ UNCHANGED <<audio, snap, current, pending>>
    BY <1>6 DEF QueueCommitted
  <2>2. QueueTypes' /\ ElementTypes'
    BY <1>1, <2>1 DEF IInv, QueueTypes, ElementTypes
  <2> QED BY <1>2, <1>3, <1>4, <2>1, <2>2 DEF IInv
<1> QED
  BY <1>5, <1>6

LEMMA OtherCommittedKeeps ==
    ASSUME IInv, OtherCommitted PROVE IInv'
<1>1. /\ writes # <<>> /\ Head1.what # "load"
      /\ tasks' = tasks \o Head1.rest /\ writes' = Tail(writes)
      /\ UNCHANGED <<queue, current, pending, loads, next, facade, element>>
  BY DEF OtherCommitted, loading
<1>2. TaskTypes' /\ Core(loads, Tail(writes), pending)
  BY <1>1, FirstWrite
<1>3. QueueTypes' /\ NextTypes' /\ FacadeTypes' /\ ElementTypes'
  BY <1>1 DEF IInv, QueueTypes, NextTypes, FacadeTypes, ElementTypes, facade, element
<1> QED
  BY <1>1, <1>2, <1>3 DEF IInv

-----------------------------------------------------------------------------
(* playNext                                                                *)

LEMMA ClearQueueStateKeeps ==
    ASSUME IInv, NEW rest \in Seq(TaskRecord), ClearQueueState(rest), loads' = loads
    PROVE  Core(loads, writes, pending)' /\ current' = None
<1>1. [Unawaited EXCEPT !.rest = rest] \in WriteRecord /\ [Unawaited EXCEPT !.rest = rest].what # "load"
  BY AwaitIsTyped
<1> QED
  BY <1>1, WritesOther DEF ClearQueueState

LEMMA FinishQueueKeeps ==
    ASSUME IInv, NEW n \in Slots, FinishQueue(n) PROVE IInv'
<1>1. /\ audio' = "stopped" /\ snap' = "stopped"
      /\ UNCHANGED <<queue, tasks, loads, retries, retried, paused, loaded>>
  BY DEF FinishQueue, Stop
<1>2. TaskTypes' /\ FacadeTypes' /\ ElementTypes'
  BY <1>1 DEF IInv, TaskTypes, FacadeTypes, ElementTypes
<1>3. \A c \in {"clearing", "returned"} : [next[n] EXCEPT !.pc = c] \in NextRecord
  <2>1. next[n] \in NextRecord
    BY DEF IInv, NextTypes
  <2> QED BY <2>1 DEF NextRecord, Stages
<1>4. NextTypes'
  BY <1>3 DEF IInv, NextTypes, FinishQueue
<1>5. CASE ActivePlayer
  <2>1. Rest("empty", None, n) \in Seq(TaskRecord)
    BY RestIsTyped DEF TaskNames
  <2>2. Core(loads, writes, pending)' /\ current' = None
    BY <1>1, <1>5, <2>1, ClearQueueStateKeeps DEF FinishQueue
  <2>3. QueueTypes'
    BY <1>1, <2>2 DEF IInv, QueueTypes
  <2> QED BY <1>2, <1>4, <2>2, <2>3 DEF IInv
<1>6. CASE ~ActivePlayer
  <2>1. UNCHANGED <<current, pending, writes>>
    BY <1>6 DEF FinishQueue
  <2> QED BY <1>1, <1>2, <1>4, <2>1 DEF IInv, QueueTypes
<1> QED
  BY <1>5, <1>6

LEMMA StartTraversalKeeps ==
    ASSUME IInv, NEW n \in Slots, StartTraversal(n) PROVE IInv'
<1>1. CASE CanGoNext
  <2>1. /\ next' = [next EXCEPT ![n] = [@ EXCEPT !.pc = "pick", !.q = queue,
                                                 !.at = Position(current, queue)]]
        /\ UNCHANGED <<state, tasks, loading, facade, element>>
    BY <1>1 DEF StartTraversal
  <2>2. queue \in Seq(Songs) /\ Position(current, queue) \in Nat
    BY <1>1, PositionProperties DEF IInv, QueueTypes, CanGoNext
  <2>3. next[n] \in NextRecord
    BY DEF IInv, NextTypes
  <2>4. PICK a \in Nat : a = Position(current, queue)
    BY <2>2
  <2>5. [next[n] EXCEPT !.pc = "pick", !.q = queue, !.at = a] \in NextRecord
    BY <2>2, <2>3 DEF NextRecord, Stages
  <2>6. NextTypes'
    BY <2>1, <2>4, <2>5 DEF IInv, NextTypes
  <2> QED
    BY <2>1, <2>6 DEF IInv, QueueTypes, TaskTypes, FacadeTypes, ElementTypes,
                      state, loading, facade, element
<1>2. CASE ~CanGoNext
  BY <1>2, FinishQueueKeeps DEF StartTraversal
<1> QED
  BY <1>1, <1>2

LEMMA AttemptKeeps ==
    ASSUME IInv, NEW n \in Slots, NEW p \in NextRecord, p.at \in 1..Len(p.q), Attempt(n, p)
    PROVE  IInv'
<1>1. p.q \in Seq(Songs)
  BY DEF NextRecord
<1>2. PICK s \in Songs : s = p.q[p.at]
  BY <1>1
<1>3. Begin(s, TRUE, FALSE) /\ UNCHANGED <<state, tasks, retries, retried, element>>
  BY <1>2 DEF Attempt
<1>4. Core(loads, writes, pending)' /\ paused' \in BOOLEAN
  BY <1>3, BeginKeeps DEF state
<1>5. PICK f \in Nat : f = FreeId
  BY FreeIdIsFree
<1>6. [p EXCEPT !.pc = "load", !.load = f] \in NextRecord
  BY DEF NextRecord, Stages
<1>7. NextTypes'
  BY <1>5, <1>6 DEF IInv, NextTypes, Attempt
<1> QED
  BY <1>3, <1>4, <1>7 DEF IInv, QueueTypes, TaskTypes, FacadeTypes, ElementTypes, state, element

LEMMA PickNextKeeps ==
    ASSUME IInv, NEW n \in Slots, PickNext(n) PROVE IInv'
<1>1. PICK p \in NextRecord : p = next[n]
  BY DEF IInv, NextTypes
<1>2. CASE p.at < Len(p.q) /\ p.attempts < MaxAttempts
  <2>1. PICK r : r = [p EXCEPT !.at = @ + 1, !.attempts = @ + 1, !.tries = 0]
    OBVIOUS
  <2>2. p.at \in Nat /\ p.q \in Seq(Songs)
    BY DEF NextRecord
  <2>3. PICK a \in Nat, t \in Nat : a = p.at + 1 /\ t = p.attempts + 1
    BY <2>2 DEF NextRecord
  <2>4. a \in 1..Len(p.q)
    BY <1>2, <2>2, <2>3
  <2>5. r = [p EXCEPT !.at = a, !.attempts = t, !.tries = 0]
    BY <2>1, <2>3
  <2>6. r \in NextRecord /\ r.at = a /\ r.q = p.q
    BY <2>4, <2>5 DEF NextRecord, Stages
  <2>7. Attempt(n, r)
    BY <1>1, <1>2, <2>1 DEF PickNext
  <2> QED BY <2>4, <2>6, <2>7, AttemptKeeps
<1>3. CASE ~(p.at < Len(p.q) /\ p.attempts < MaxAttempts)
  <2>1. FinishQueue(n)
    BY <1>1, <1>3 DEF PickNext
  <2> QED BY <2>1, FinishQueueKeeps
<1> QED
  BY <1>2, <1>3

LEMMA TimersKeep ==
    ASSUME IInv, NEW n \in Slots, Timers(n) PROVE IInv'
<1>1. PICK p \in NextRecord : p = next[n]
  BY DEF IInv, NextTypes
<1>2. CASE AttemptTimesOut(n)
  <2>1. Failed(p) \in NextRecord
    BY <1>1, <1>2, FailedIsTyped DEF AttemptTimesOut
  <2>2. /\ next' = [next EXCEPT ![n] = Failed(p)]
        /\ UNCHANGED <<state, tasks, loading, facade, element>>
    BY <1>1, <1>2 DEF AttemptTimesOut
  <2> QED
    BY <2>1, <2>2 DEF IInv, QueueTypes, TaskTypes, NextTypes, FacadeTypes, ElementTypes,
                      state, loading, facade, element
<1>3. CASE RetryAttempt(n)
  <2>1. p.pc = "delay" /\ p.at \in 1..Len(p.q)
    BY <1>1, <1>3 DEF RetryAttempt, NextRecord
  <2>2. CASE Attempt(n, p)
    BY <2>1, <2>2, AttemptKeeps
  <2>3. CASE /\ next' = [next EXCEPT ![n] = [p EXCEPT !.pc = "pick"]]
             /\ UNCHANGED <<state, tasks, loading, facade, element>>
    <3>1. [p EXCEPT !.pc = "pick"] \in NextRecord
      BY DEF NextRecord, Stages
    <3> QED
      BY <2>3, <3>1 DEF IInv, QueueTypes, TaskTypes, NextTypes, FacadeTypes, ElementTypes,
                        state, loading, facade, element
  <2> QED BY <1>1, <1>3, <2>2, <2>3 DEF RetryAttempt
<1> QED
  BY <1>2, <1>3 DEF Timers

LEMMA SetQueueKeeps ==
    ASSUME IInv, NEW q \in Seq(Songs), NEW rest \in Seq(TaskRecord), SetQueue(q, rest),
           loads' = loads, pending' \in {pending, None}, current' = current
    PROVE  Core(loads, writes, pending)' /\ QueueTypes'
<1>1. QueueSet(q, rest) \in WriteRecord /\ QueueSet(q, rest).what = "queue"
  BY QueueSetIsTyped DEF IInv, QueueTypes
<1>2. Core(loads, writes, pending)'
  BY <1>1, WritesOther DEF SetQueue
<1> QED
  BY <1>2 DEF IInv, SetQueue, QueueTypes

LEMMA AfterNextKeeps ==
    ASSUME IInv, NEW n \in Slots, AfterNext(n) PROVE IInv'
<1>1. /\ next' = [next EXCEPT ![n] = Idle]
      /\ UNCHANGED <<current, tasks, loading, facade, element>>
  BY DEF AfterNext
<1>2. Idle \in NextRecord
  BY CalledIsTyped
<1>3. TaskTypes' /\ NextTypes' /\ FacadeTypes' /\ ElementTypes'
  BY <1>1, <1>2 DEF IInv, TaskTypes, NextTypes, FacadeTypes, ElementTypes, facade, element
<1>4. PICK s : s = next[n].ended
  OBVIOUS
<1>5. CASE ActivePlayer /\ s # None /\ Position(s, queue) # 0
  <2>1. PICK q, rest :
          /\ q = RemoveAt(queue, Position(s, queue))
          /\ rest = IF current = s /\ Len(queue) = 1 THEN Rest("forget", s, None) ELSE <<>>
    OBVIOUS
  <2>2. queue \in Seq(Songs) /\ Position(s, queue) \in 1..Len(queue) /\ s \in Songs
    BY <1>5, PositionProperties DEF IInv, QueueTypes
  <2>3. q \in Seq(Songs)
    BY <2>1, <2>2, RemoveAtProperties
  <2>4. Rest("forget", s, None) \in Seq(TaskRecord)
    BY <2>2, RestIsTyped DEF TaskNames
  <2>5. rest \in Seq(TaskRecord)
    BY <2>1, <2>4
  <2>6. SetQueue(q, rest)
    BY <1>4, <1>5, <2>1 DEF AfterNext
  <2>7. Core(loads, writes, pending)' /\ QueueTypes'
    BY <1>1, <2>3, <2>5, <2>6, SetQueueKeeps DEF loading
  <2> QED BY <1>3, <2>7 DEF IInv
<1>6. CASE ~(ActivePlayer /\ s # None /\ Position(s, queue) # 0)
  <2>1. UNCHANGED <<queue, writes>>
    BY <1>4, <1>6 DEF AfterNext
  <2> QED BY <1>1, <1>3, <2>1 DEF IInv, QueueTypes, loading
<1> QED
  BY <1>5, <1>6

-----------------------------------------------------------------------------
(* What awaited a write                                                    *)

LEMMA TaskTaken ==
    ASSUME IInv, NEW do, Task(do)
    PROVE  /\ tasks[1] \in TaskRecord /\ tasks[1].do = do /\ TaskTypes'
           /\ tasks[1].song \in Songs \cup {None}
           /\ tasks[1].was \in Songs \cup {None} \cup Slots
           /\ do \in {"play", "playIfIdle"} => tasks[1].song \in Songs
<1>1. tasks \in Seq(TaskRecord) /\ tasks # <<>> /\ tasks[1].do = do /\ tasks' = Tail(tasks)
  BY DEF IInv, TaskTypes, Task
<1>2. tasks[1] \in TaskRecord /\ Tail(tasks) \in Seq(TaskRecord)
  BY <1>1
<1> QED
  BY <1>1, <1>2 DEF TaskTypes, TaskRecord

LEMMA PlayAddedKeeps ==
    ASSUME IInv, PlayAdded PROVE IInv'
<1>1. TaskTypes' /\ tasks[1].song \in Songs
  <2>1. CASE Task("play")
    BY <2>1, TaskTaken
  <2>2. CASE Task("playIfIdle")
    BY <2>2, TaskTaken
  <2> QED BY <2>1, <2>2 DEF PlayAdded
<1>2. UNCHANGED <<state, next, retries, retried, element>>
  BY DEF PlayAdded
<1>3. PICK s \in Songs : s = tasks[1].song
  BY <1>1
<1>4. Begin(s, TRUE, FALSE) \/ UNCHANGED <<loading, playbackEnded, paused>>
  BY <1>3 DEF PlayAdded
<1>5. Core(loads, writes, pending)' /\ paused' \in BOOLEAN
  <2>1. CASE Begin(s, TRUE, FALSE)
    BY <1>2, <2>1, BeginKeeps DEF state
  <2>2. CASE UNCHANGED <<loading, playbackEnded, paused>>
    BY <1>2, <2>2 DEF IInv, FacadeTypes, state, loading
  <2> QED BY <1>4, <2>1, <2>2
<1> QED
  BY <1>1, <1>2, <1>5 DEF IInv, QueueTypes, NextTypes, FacadeTypes, ElementTypes, state, element

LEMMA AfterRemoveKeeps ==
    ASSUME IInv, AfterRemove PROVE IInv'
<1>1. TaskTypes' /\ tasks[1].song \in Songs \cup {None}
  BY TaskTaken DEF AfterRemove
<1>2. UNCHANGED <<queue, loads, next, facade, loaded>>
  BY DEF AfterRemove
<1>3. NextTypes' /\ FacadeTypes'
  BY <1>2 DEF IInv, NextTypes, FacadeTypes, facade
<1>4. CASE tasks[1].song = tasks[1].was
  <2>1. PICK rest : rest = Rest("cut", tasks[1].song, None)
    OBVIOUS
  <2>2. /\ audio' = "stopped" /\ snap' = "stopped" /\ current' = None /\ pending' = pending
        /\ writes' = Append(writes, [Unawaited EXCEPT !.rest = rest])
    BY <1>4, <2>1 DEF AfterRemove, Stop
  <2>3. rest \in Seq(TaskRecord)
    BY <1>1, <2>1, RestIsTyped DEF TaskNames
  <2>4. Core(loads, writes, pending)'
    <3>1. PICK w \in WriteRecord : w = [Unawaited EXCEPT !.rest = rest] /\ w.what = "nothing"
      BY <2>3, AwaitIsTyped
    <3> QED BY <1>2, <2>2, <3>1, WritesOther
  <2>5. QueueTypes' /\ ElementTypes'
    BY <1>2, <2>2 DEF IInv, QueueTypes, ElementTypes
  <2> QED BY <1>1, <1>3, <2>4, <2>5 DEF IInv
<1>5. CASE tasks[1].song # tasks[1].was
  <2>1. /\ pending' \in {pending, None}
        /\ UNCHANGED <<audio, snap, current, writes>>
    BY <1>5 DEF AfterRemove
  <2>2. Core(loads, writes, pending)'
    BY <1>2, <2>1, ChoiceDropped DEF IInv
  <2>3. QueueTypes' /\ ElementTypes'
    BY <1>2, <2>1 DEF IInv, QueueTypes, ElementTypes
  <2> QED BY <1>1, <1>3, <2>2, <2>3 DEF IInv
<1> QED
  BY <1>4, <1>5

LEMMA AfterCutKeeps ==
    ASSUME IInv, AfterCut PROVE IInv'
<1>1. TaskTypes'
  BY TaskTaken DEF AfterCut
<1>2. pending' \in {pending, None} /\ UNCHANGED <<state, loads, next, facade, element>>
  BY DEF AfterCut
<1>3. Core(loads, writes, pending)'
  BY <1>2, ChoiceDropped DEF IInv, state
<1> QED
  BY <1>1, <1>2, <1>3
     DEF IInv, QueueTypes, NextTypes, FacadeTypes, ElementTypes, state, facade, element

LEMMA AfterStationKeeps ==
    ASSUME IInv, AfterStation PROVE IInv'
<1>1. TaskTypes'
  BY TaskTaken DEF AfterStation
<1>2. UNCHANGED <<queue, loads, next, facade, element>>
  BY DEF AfterStation
<1>3. Rest("empty", None, None) \in Seq(TaskRecord)
  BY RestIsTyped DEF TaskNames
<1>4. Core(loads, writes, pending)' /\ current' = None
  BY <1>2, <1>3, ClearQueueStateKeeps DEF AfterStation
<1> QED
  BY <1>1, <1>2, <1>4
     DEF IInv, QueueTypes, NextTypes, FacadeTypes, ElementTypes, facade, element

LEMMA EmptyQueueKeeps ==
    ASSUME IInv, EmptyQueue PROVE IInv'
<1>1. TaskTypes' /\ tasks[1].was \in Songs \cup {None} \cup Slots
  BY TaskTaken DEF EmptyQueue
<1>2. UNCHANGED <<current, loading, next, facade, element>>
  BY DEF EmptyQueue
<1>3. Rest("emptied", None, tasks[1].was) \in Seq(TaskRecord)
  BY <1>1, RestIsTyped DEF TaskNames
<1>4. Core(loads, writes, pending)' /\ QueueTypes'
  <2>1. PICK rest \in Seq(TaskRecord) : rest = Rest("emptied", None, tasks[1].was)
    BY <1>3
  <2>2. <<>> \in Seq(Songs) /\ SetQueue(<<>>, rest)
    BY <2>1 DEF EmptyQueue
  <2> QED BY <1>2, <2>2, SetQueueKeeps DEF loading
<1> QED
  BY <1>1, <1>2, <1>4 DEF IInv, NextTypes, FacadeTypes, ElementTypes, facade, element

LEMMA AfterEmptyKeeps ==
    ASSUME IInv, AfterEmpty PROVE IInv'
<1>1. TaskTypes'
  BY TaskTaken DEF AfterEmpty
<1>2. \A n \in Slots : next[n] \in NextRecord /\ [next[n] EXCEPT !.pc = "returned"] \in NextRecord
  BY DEF IInv, NextTypes, NextRecord, Stages
<1>3. NextTypes'
  BY <1>2 DEF AfterEmpty, NextTypes
<1> QED
  BY <1>1, <1>3 DEF AfterEmpty, IInv, QueueTypes, FacadeTypes, ElementTypes,
                    state, loading, facade, element

LEMMA AfterEndedKeeps ==
    ASSUME IInv, AfterEnded PROVE IInv'
<1>1. TaskTypes'
  BY TaskTaken DEF AfterEnded
<1>2. /\ current' = None /\ writes' = Append(writes, Unawaited)
      /\ UNCHANGED <<queue, loading, next, facade, element>>
  BY DEF AfterEnded
<1>3. Core(loads, writes, pending)'
  BY <1>2, WritesOther, AwaitIsTyped DEF loading
<1> QED
  BY <1>1, <1>2, <1>3
     DEF IInv, QueueTypes, NextTypes, FacadeTypes, ElementTypes, facade, element

-----------------------------------------------------------------------------
(* The element and the user                                                *)

LEMMA CallNextTyped ==
    ASSUME IInv, NEW n \in Slots, NEW e \in Songs \cup {None}, CallNext(n, e)
    PROVE  NextTypes'
<1>1. Called(e) \in NextRecord
  BY CalledIsTyped
<1> QED
  BY <1>1 DEF IInv, NextTypes, CallNext

LEMMA PlayEventKeeps ==
    ASSUME IInv, PlayEvent PROVE IInv'
<1>1. /\ UNCHANGED <<queue, tasks, loading, next, facade, audio, loaded>>
      /\ snap' = IF audio = "playing" THEN "playing" ELSE snap
  BY DEF PlayEvent
<1>2. TaskTypes' /\ NextTypes' /\ FacadeTypes' /\ ElementTypes'
  BY <1>1 DEF IInv, TaskTypes, NextTypes, FacadeTypes, ElementTypes, facade
<1>3. CASE current # loaded
  <2>1. current' = loaded /\ writes' = Append(writes, Unawaited)
    BY <1>3 DEF PlayEvent
  <2>2. Core(loads, writes, pending)'
    BY <1>1, <2>1, WritesOther, AwaitIsTyped DEF loading
  <2>3. QueueTypes'
    BY <1>1, <2>1 DEF IInv, QueueTypes, ElementTypes
  <2> QED BY <1>2, <2>2, <2>3 DEF IInv
<1>4. CASE current = loaded
  BY <1>1, <1>2, <1>4 DEF PlayEvent, IInv, QueueTypes, loading
<1> QED
  BY <1>3, <1>4

LEMMA ElementEventsKeep ==
    ASSUME IInv, ElementEvents PROVE IInv'
<1>1. CASE PlayEvent
  BY <1>1, PlayEventKeeps
<1>2. CASE NetworkError
  <2>1. /\ UNCHANGED <<state, tasks, loading, next, paused, loaded, snap>>
        /\ audio' = "stopped" /\ retried' = current /\ retries' = retries \cup {current}
        /\ Position(current, queue) # 0
    BY <1>2 DEF NetworkError
  <2>2. current \in Songs
    BY <2>1, PositionProperties DEF IInv, QueueTypes
  <2> QED
    BY <2>1, <2>2 DEF IInv, QueueTypes, TaskTypes, NextTypes, FacadeTypes, ElementTypes, state, loading
<1>3. ASSUME NEW n \in Slots, Ended(n) PROVE IInv'
  <2>1. /\ UNCHANGED <<state, tasks, loading, facade, loaded>>
        /\ audio' = "stopped" /\ snap' \in {snap, "stopped"}
    BY <1>3 DEF Ended
  <2>2. NextTypes'
    BY <1>3, CallNextTyped DEF Ended, IInv, QueueTypes
  <2> QED
    BY <2>1, <2>2 DEF IInv, QueueTypes, TaskTypes, FacadeTypes, ElementTypes, state, loading, facade
<1>4. ASSUME NEW n \in Slots, ElementError(n) PROVE IInv'
  <2>1. /\ UNCHANGED <<state, tasks, loading, facade, loaded, snap>> /\ audio' = "stopped"
    BY <1>4 DEF ElementError
  <2>2. NextTypes'
    BY <1>4, CallNextTyped DEF ElementError
  <2> QED
    BY <2>1, <2>2 DEF IInv, QueueTypes, TaskTypes, FacadeTypes, ElementTypes, state, loading, facade
<1> QED
  BY <1>1, <1>2, <1>3, <1>4 DEF ElementEvents

LEMMA PlaysKeeps ==
    ASSUME IInv, NEW s \in Songs, Plays(s) PROVE IInv'
<1>1. Begin(s, TRUE, FALSE) /\ UNCHANGED <<state, tasks, next, retries, retried, element>>
  BY DEF Plays
<1>2. Core(loads, writes, pending)' /\ paused' \in BOOLEAN
  BY <1>1, BeginKeeps DEF state
<1> QED
  BY <1>1, <1>2
     DEF IInv, QueueTypes, TaskTypes, NextTypes, FacadeTypes, ElementTypes, state, element

LEMMA NetworkRetryKeeps ==
    ASSUME IInv, NEW s \in Songs, NetworkRetry(s) PROVE IInv'
<1>1. /\ UNCHANGED <<state, tasks, next, retried, element>> /\ retries' = retries \ {s}
      /\ Begin(s, FALSE, TRUE) \/ UNCHANGED <<loading, playbackEnded, paused>>
  BY DEF NetworkRetry
<1>2. Core(loads, writes, pending)' /\ paused' \in BOOLEAN
  <2>1. CASE Begin(s, FALSE, TRUE)
    BY <1>1, <2>1, BeginKeeps DEF state
  <2>2. CASE UNCHANGED <<loading, playbackEnded, paused>>
    BY <1>1, <2>2 DEF IInv, FacadeTypes, state, loading
  <2> QED BY <1>1, <2>1, <2>2
<1> QED
  BY <1>1, <1>2
     DEF IInv, QueueTypes, TaskTypes, NextTypes, FacadeTypes, ElementTypes, state, element

LEMMA ControlsKeep ==
    ASSUME IInv, Controls PROVE IInv'
<1>1. queue \in Seq(Songs) /\ current \in Songs \cup {None} /\ Position(current, queue) \in 0..Len(queue)
  BY PositionProperties DEF IInv, QueueTypes
<1>2. CASE UserPrevious
  <2>1. PICK s : s = queue[Position(current, queue) - 1]
    OBVIOUS
  <2>2. Position(current, queue) > 1
    BY <1>2 DEF UserPrevious
  <2>3. Position(current, queue) - 1 \in 1..Len(queue)
    BY <1>1, <2>2
  <2>4. s \in Songs
    BY <1>1, <2>1, <2>3
  <2> QED BY <1>2, <2>1, <2>4, PlaysKeeps DEF UserPrevious
<1>3. CASE TogglePauses \/ ToggleResumes
  <2>1. /\ UNCHANGED <<state, tasks, loading, next, retries, retried, loaded>>
        /\ paused' \in BOOLEAN
        /\ audio' \in {audio, "paused", "playing"} /\ snap' \in {snap, "paused"}
    BY <1>3 DEF TogglePauses, ToggleResumes
  <2> QED
    BY <2>1 DEF IInv, QueueTypes, TaskTypes, NextTypes, FacadeTypes, ElementTypes, state, loading
<1>4. CASE ToggleLoads
  <2>1. CASE current # None /\ Plays(current)
    BY <1>1, <2>1, PlaysKeeps
  <2>2. CASE queue # <<>> /\ Plays(queue[1])
    BY <1>1, <2>2, PlaysKeeps
  <2> QED BY <1>4, <2>1, <2>2 DEF ToggleLoads
<1>5. CASE Restart
  BY <1>1, <1>5, PlaysKeeps DEF Restart
<1>6. ASSUME NEW s \in Songs, UserPlays(s) PROVE IInv'
  BY <1>6, PlaysKeeps DEF UserPlays
<1>7. ASSUME NEW n \in Slots, UserNext(n) PROVE IInv'
  <2>1. NextTypes'
    BY <1>7, CallNextTyped DEF UserNext
  <2> QED
    BY <1>7, <2>1 DEF UserNext, IInv, QueueTypes, TaskTypes, FacadeTypes, ElementTypes,
                      state, loading, facade, element
<1> QED
  BY <1>2, <1>3, <1>4, <1>5, <1>6, <1>7 DEF Controls

-----------------------------------------------------------------------------
(* Operations on the queue                                                 *)

LEMMA RewritesKeeps ==
    ASSUME IInv, NEW q \in Seq(Songs), NEW rest \in Seq(TaskRecord), Rewrites(q, rest),
           pending' \in {pending, None}
    PROVE  IInv'
<1>1. SetQueue(q, rest) /\ UNCHANGED <<current, tasks, loads, next, facade, element>>
  BY DEF Rewrites
<1>2. Core(loads, writes, pending)' /\ QueueTypes'
  BY <1>1, SetQueueKeeps
<1> QED
  BY <1>1, <1>2 DEF IInv, TaskTypes, NextTypes, FacadeTypes, ElementTypes, facade, element

LEMMA AddKeeps ==
    ASSUME IInv, NEW s \in Songs, PlayNow(s) \/ AddToQueue(s) PROVE IInv'
<1>1. queue \in Seq(Songs) /\ current \in Songs \cup {None}
  BY DEF IInv, QueueTypes
<1>2. Len(queue) \in Nat /\ AfterCurrent \in 0..Len(queue)
  BY <1>1, PositionProperties DEF AfterCurrent
<1>3. ASSUME NEW k \in 0..Len(queue), NEW do \in {"play", "playIfIdle"}, NEW c \in Songs \cup {None},
             Rewrites(InsertAt(queue, k + 1, s), Rest(do, s, c)), pending' = pending
      PROVE  IInv'
  <2>1. InsertAt(queue, k + 1, s) \in Seq(Songs)
    <3>1. PICK m \in 1..(Len(queue) + 1) : m = k + 1
      BY <1>2
    <3> QED BY <1>1, <3>1, InsertAtProperties
  <2>2. Rest(do, s, c) \in Seq(TaskRecord)
    BY RestIsTyped DEF TaskNames
  <2> QED BY <1>3, <2>1, <2>2, RewritesKeeps
<1>4. CASE PlayNow(s)
  BY <1>2, <1>3, <1>4 DEF PlayNow
<1>5. CASE AddToQueue(s)
  <2>1. PICK at \in {Len(queue), AfterCurrent} :
          Rewrites(InsertAt(queue, at + 1, s), Rest("playIfIdle", s, current))
    BY <1>5 DEF AddToQueue
  <2>2. at \in 0..Len(queue)
    BY <1>2, <2>1
  <2> QED BY <1>1, <1>3, <1>5, <2>1, <2>2 DEF AddToQueue
<1> QED
  BY <1>4, <1>5

LEMMA EditsAtKeep ==
    ASSUME IInv, NEW i \in 1..Len(queue), NEW j \in 1..Len(queue),
           RemoveFromQueue(i) \/ ClearSongsAbove(i) \/ ClearSongsBelow(i) \/ ReorderQueue(i, j)
    PROVE  IInv'
<1>1. queue \in Seq(Songs) /\ current \in Songs \cup {None} /\ Len(queue) \in Nat
  BY DEF IInv, QueueTypes
<1>2. RemoveAt(queue, i) \in Seq(Songs) /\ Len(RemoveAt(queue, i)) = Len(queue) - 1
  BY <1>1, RemoveAtProperties
<1>3. queue[i] \in Songs /\ <<>> \in Seq(TaskRecord)
  BY <1>1
<1>4. CASE RemoveFromQueue(i)
  <2>1. Rest("removed", queue[i], current) \in Seq(TaskRecord)
    BY <1>1, <1>3, RestIsTyped DEF TaskNames
  <2> QED BY <1>2, <1>4, <2>1, RewritesKeeps DEF RemoveFromQueue
<1>5. CASE ClearSongsAbove(i)
  <2>1. SubSeq(queue, i, Len(queue)) \in Seq(Songs)
    BY <1>1
  <2> QED BY <1>3, <1>5, <2>1, RewritesKeeps DEF ClearSongsAbove
<1>6. CASE ClearSongsBelow(i)
  <2>1. SubSeq(queue, 1, i) \in Seq(Songs)
    BY <1>1
  <2>2. PICK rest : rest = [k \in 1..(Len(queue) - i) |-> Rest("cut", queue[i + k], None)[1]]
    OBVIOUS
  <2>3. ASSUME NEW k \in 1..(Len(queue) - i) PROVE rest[k] \in TaskRecord
    <3>1. i + k \in 1..Len(queue)
      BY <1>1
    <3>2. queue[i + k] \in Songs
      BY <1>1, <3>1
    <3>3. rest[k] = [do |-> "cut", song |-> queue[i + k], was |-> None]
      BY <2>2 DEF Rest
    <3> QED BY <3>2, <3>3 DEF TaskRecord, TaskNames
  <2>4. rest \in Seq(TaskRecord)
    <3>1. Len(queue) - i \in Nat
      BY <1>1
    <3>2. rest \in [1..(Len(queue) - i) -> TaskRecord]
      BY <2>2, <2>3
    <3> QED BY <3>1, <3>2
  <2> QED BY <1>6, <2>1, <2>2, <2>4, RewritesKeeps DEF ClearSongsBelow
<1>7. CASE ReorderQueue(i, j)
  <2>1. j \in 1..(Len(RemoveAt(queue, i)) + 1)
    BY <1>1, <1>2
  <2>2. InsertAt(RemoveAt(queue, i), j, queue[i]) \in Seq(Songs)
    BY <1>2, <1>3, <2>1, InsertAtProperties
  <2> QED BY <1>3, <1>7, <2>2, RewritesKeeps DEF ReorderQueue
<1> QED
  BY <1>4, <1>5, <1>6, <1>7

LEMMA EditsKeep ==
    ASSUME IInv, Edits PROVE IInv'
<1>1. CASE ClearQueue
  <2>1. Rest("clear", None, None) \in Seq(TaskRecord)
    BY RestIsTyped DEF TaskNames
  <2>2. PICK w \in WriteRecord :
          w = [Unawaited EXCEPT !.rest = Rest("clear", None, None)] /\ w.what = "nothing"
    BY <2>1, AwaitIsTyped
  <2>3. /\ writes' = Append(writes, w) /\ audio' = "stopped" /\ snap' = "stopped"
        /\ UNCHANGED <<queue, current, tasks, loading, next, facade, loaded>>
    BY <1>1, <2>2 DEF ClearQueue, Stop
  <2>4. Core(loads, writes, pending)'
    BY <2>2, <2>3, WritesOther DEF loading
  <2> QED
    BY <2>3, <2>4 DEF IInv, QueueTypes, TaskTypes, NextTypes, FacadeTypes, ElementTypes, facade
<1>2. CASE RadioTakesOver
  <2>1. Rest("empty", None, None) \in Seq(TaskRecord)
    BY RestIsTyped DEF TaskNames
  <2>2. /\ UNCHANGED <<queue, tasks, loads, next, retries, retried, loaded>>
        /\ audio' \in {audio, "paused"} /\ snap' \in {snap, "paused"} /\ paused' \in BOOLEAN
    BY <1>2 DEF RadioTakesOver
  <2>3. Core(loads, writes, pending)' /\ current' = None
    BY <1>2, <2>1, <2>2, ClearQueueStateKeeps DEF RadioTakesOver
  <2> QED
    BY <2>2, <2>3 DEF IInv, QueueTypes, TaskTypes, NextTypes, FacadeTypes, ElementTypes
<1>3. ASSUME NEW q \in Albums, PlayQueue(q) PROVE IInv'
  <2>1. q \in Seq(Songs) /\ q[1] \in Songs
    BY PlayerAssumption
  <2>2. Rest("play", q[1], None) \in Seq(TaskRecord)
    BY <2>1, RestIsTyped DEF TaskNames
  <2> QED BY <1>3, <2>1, <2>2, RewritesKeeps DEF PlayQueue
<1>4. ASSUME NEW s \in Songs, PlayNow(s) \/ AddToQueue(s) PROVE IInv'
  BY <1>4, AddKeeps
<1>5. ASSUME NEW i \in 1..Len(queue), RemoveFromQueue(i) \/ ClearSongsAbove(i) \/ ClearSongsBelow(i)
      PROVE  IInv'
  BY <1>5, EditsAtKeep
<1>6. ASSUME NEW i \in 1..Len(queue), NEW j \in 1..Len(queue), ReorderQueue(i, j) PROVE IInv'
  BY <1>6, EditsAtKeep
<1> QED
  BY <1>1, <1>2, <1>3, <1>4, <1>5, <1>6 DEF Edits

-----------------------------------------------------------------------------
(* The theorems                                                            *)

LEMMA StepIsSound == IInv /\ [Next]_vars => IInv'
<1> SUFFICES ASSUME IInv, [Next]_vars PROVE IInv'
  OBVIOUS
<1>1. CASE Continuations
  BY <1>1, PlayAddedKeeps, AfterRemoveKeeps, AfterCutKeeps, AfterStationKeeps, EmptyQueueKeeps,
     AfterEmptyKeeps, AfterEndedKeeps, StartTraversalKeeps, PickNextKeeps, AfterNextKeeps
     DEF Continuations
<1>2. CASE Commits
  BY <1>2, LoadCommittedKeeps, QueueCommittedKeeps, OtherCommittedKeeps DEF Commits
<1>3. CASE Loads
  BY <1>3, UrlResolvesKeeps, LoadsKeep DEF Loads
<1>4. CASE ElementEvents \/ Controls \/ Edits
  BY <1>4, ElementEventsKeep, ControlsKeep, EditsKeep
<1>5. ASSUME NEW n \in Slots, Timers(n) PROVE IInv'
  BY <1>5, TimersKeep
<1>6. ASSUME NEW s \in Songs, NetworkRetry(s) PROVE IInv'
  BY <1>6, NetworkRetryKeeps
<1>7. CASE UNCHANGED vars
  BY <1>7 DEF vars, state, loading, facade, element, IInv, QueueTypes, TaskTypes, NextTypes,
              FacadeTypes, ElementTypes
<1> QED
  BY <1>1, <1>2, <1>3, <1>4, <1>5, <1>6, <1>7 DEF Next

(* The variables keep their shape, at most one load has the element, and a *)
(* load waits for a write exactly as long as the write is due              *)
(* (htmlAudio.ts:300-460).                                                 *)
THEOREM TypeCorrect == Spec => []TypeOK
<1>1. Spec => []IInv
  BY StartIsSound, StepIsSound, PTL DEF Spec
<1> QED
  BY <1>1, InvariantIsTyped, PTL

(* A load that answers late never replaces one that was asked for after it *)
(* (htmlAudio.ts:315-320, 358-374): the two checks before the point of no  *)
(* return let only the last load pass, and writes are committed in order.  *)
THEOREM LoadsKeepOrder == Spec => []NeverGoesBack
<1>1. Spec => []IInv
  BY StartIsSound, StepIsSound, PTL DEF Spec
<1> QED
  BY <1>1, InvariantIsOrdered, PTL

-----------------------------------------------------------------------------
(* The mark that the queue ran out: no step but the play event of a song   *)
(* makes a song that plays and the mark meet.                              *)

NonePlays(ls) == \A i \in DOMAIN ls : ls[i].at # "play"

LEMMA StartedMeans ==
    /\ Started <=> audio = "playing" /\ ~playEvent /\ NonePlays(loads)
    /\ Started' <=> audio' = "playing" /\ ~playEvent' /\ NonePlays(loads')
<1>1. (\A l \in ToSet(loads) : l.at # "play") <=> NonePlays(loads)
  BY DEF ToSet, NonePlays
<1>2. (\A l \in ToSet(loads') : l.at # "play") <=> NonePlays(loads')
  BY DEF ToSet, NonePlays
<1> QED
  BY <1>1, <1>2 DEF Started

(* A step that leaves the element and the mark alone, and lets no load     *)
(* that has the element end.                                               *)
LEMMA MarkUntouched ==
    ASSUME UNCHANGED <<audio, playEvent>>, playbackEnded' => playbackEnded,
           NonePlays(loads') => NonePlays(loads), (Started /\ playbackEnded)'
    PROVE  Started /\ playbackEnded
  BY StartedMeans

LEMMA BeginClears ==
    ASSUME NEW s, NEW u, NEW r, Begin(s, u, r) PROVE ~playbackEnded'
  BY DEF Begin

LEMMA RemovedStillPlays ==
    ASSUME IInv, NEW k \in DOMAIN loads, loads[k].at # "play", loads' = RemoveAt(loads, k),
           NonePlays(loads')
    PROVE  NonePlays(loads)
<1>1. loads \in Seq(LoadRecord) /\ Len(loads) \in Nat /\ k \in 1..Len(loads)
  BY DEF IInv, Core
<1>2. /\ RemoveAt(loads, k) \in Seq(LoadRecord) /\ Len(RemoveAt(loads, k)) = Len(loads) - 1
      /\ \A i \in 1..(Len(loads) - 1) :
            RemoveAt(loads, k)[i] = IF i < k THEN loads[i] ELSE loads[i + 1]
  BY <1>1, RemoveAtProperties
<1>3. \A i \in 1..(Len(loads) - 1) : RemoveAt(loads, k)[i].at # "play"
  <2>1. DOMAIN loads' = 1..(Len(loads) - 1)
    BY <1>2
  <2> QED BY <2>1 DEF NonePlays
<1>4. ASSUME NEW i \in DOMAIN loads PROVE loads[i].at # "play"
  <2>1. CASE i < k
    BY <1>1, <1>2, <1>3, <2>1
  <2>2. CASE k < i
    <3>1. i - 1 \in 1..(Len(loads) - 1) /\ ~(i - 1 < k) /\ i - 1 + 1 = i
      BY <1>1, <2>2
    <3> QED BY <1>2, <1>3, <3>1
  <2> QED BY <1>1, <2>1, <2>2
<1> QED
  BY <1>4 DEF NonePlays

LEMMA OutdatedStillPlays ==
    ASSUME IInv, NEW gone
    PROVE  NonePlays(Outdate(loads, gone)) <=> NonePlays(loads)
<1>1. DOMAIN Outdate(loads, gone) = DOMAIN loads
  BY DEF Outdate
<1>2. ASSUME NEW i \in DOMAIN loads PROVE Outdate(loads, gone)[i].at = loads[i].at
  <2>1. loads[i] \in LoadRecord
    BY DEF IInv, Core
  <2> QED BY <2>1 DEF Outdate, LoadRecord
<1> QED
  BY <1>1, <1>2 DEF NonePlays

LEMMA LoadsClear ==
    ASSUME IInv, NEW k \in DOMAIN loads, (Started /\ playbackEnded)',
           UrlResolves(k) \/ UrlFails(k) \/ PlayResolves(k) \/ PlayRejects(k)
    PROVE  Started /\ playbackEnded
<1>1. CASE UrlResolves(k) \/ UrlFails(k)
  <2>1. UNCHANGED <<audio, playEvent, playbackEnded>> /\ loads[k].at = "url"
    BY <1>1 DEF UrlResolves, UrlFails, facade
  <2>2. CASE loads' = RemoveAt(loads, k)
    BY <2>1, <2>2, RemovedStillPlays, StartedMeans
  <2>3. CASE loads' = [loads EXCEPT ![k].at = "write"]
    <3>1. \A i \in DOMAIN loads : i # k => loads'[i] = loads[i]
      BY <2>3
    <3>2. DOMAIN loads' = DOMAIN loads
      BY <2>3
    <3>3. NonePlays(loads') => NonePlays(loads)
      BY <2>1, <3>1, <3>2 DEF NonePlays
    <3> QED BY <2>1, <3>3, StartedMeans
  <2> QED BY <1>1, <2>2, <2>3 DEF UrlResolves, UrlFails, Returned, Threw
<1>2. CASE PlayResolves(k)
  BY <1>2 DEF PlayResolves
<1>3. CASE PlayRejects(k)
  <2>1. /\ UNCHANGED <<playEvent, playbackEnded>> /\ loads' = RemoveAt(loads, k)
        /\ audio' = IF loads[k].at = "play" /\ audio = "playing" THEN "stopped" ELSE audio
    BY <1>3 DEF PlayRejects, Threw, facade
  <2>2. audio' = "playing"
    BY StartedMeans
  <2>3. loads[k].at # "play" /\ audio' = audio
    BY <2>1, <2>2
  <2> QED BY <2>1, <2>3, RemovedStillPlays, StartedMeans
<1> QED
  BY <1>1, <1>2, <1>3

LEMMA CommitsClear ==
    ASSUME IInv, Commits, (Started /\ playbackEnded)' PROVE Started /\ playbackEnded
<1>1. CASE LoadCommitted
  <2>1. PICK k \in DOMAIN loads :
          IF loads[k].auto THEN playEvent' = TRUE ELSE audio' = "paused"
    BY <1>1 DEF LoadCommitted
  <2> QED BY <2>1, StartedMeans
<1>2. CASE QueueCommitted
  <2>1. /\ loads' = Outdate(loads, Head1.gone)
        /\ UNCHANGED <<playbackEnded, playEvent>>
        /\ audio' \in {audio, "stopped"}
    BY <1>2 DEF QueueCommitted, CancelMediaLoads, Outdated, Outdate, Stop, facade
  <2>2. audio' = audio
    BY <2>1, StartedMeans
  <2> QED BY <2>1, <2>2, OutdatedStillPlays, StartedMeans
<1>3. CASE OtherCommitted
  BY <1>3, StartedMeans DEF OtherCommitted, loading, facade, element
<1> QED
  BY <1>1, <1>2, <1>3 DEF Commits

LEMMA TraversalsClear ==
    ASSUME NEW n \in Slots, (Started /\ playbackEnded)',
           StartTraversal(n) \/ PickNext(n) \/ AfterNext(n) \/ Timers(n)
    PROVE  Started /\ playbackEnded
<1>1. \A p : Attempt(n, p) => ~playbackEnded'
  BY BeginClears DEF Attempt
<1>2. ~FinishQueue(n)
  BY StartedMeans DEF FinishQueue, Stop
<1>3. UNCHANGED <<loads, audio, playEvent, playbackEnded>>
  BY <1>1, <1>2 DEF StartTraversal, PickNext, AfterNext, Timers, RetryAttempt, AttemptTimesOut,
                    loading, facade, element
<1> QED
  BY <1>3, StartedMeans

LEMMA TasksClear ==
    ASSUME (Started /\ playbackEnded)',
           PlayAdded \/ AfterRemove \/ AfterCut \/ AfterStation \/ EmptyQueue \/ AfterEmpty \/ AfterEnded
    PROVE  Started /\ playbackEnded
<1>1. CASE PlayAdded
  <2>1. UNCHANGED <<audio, playEvent>> /\ UNCHANGED <<loading, playbackEnded, paused>>
    BY <1>1, BeginClears DEF PlayAdded, element
  <2> QED BY <2>1, StartedMeans DEF loading
<1>2. CASE AfterRemove
  <2>1. UNCHANGED <<loads, playbackEnded, playEvent>> /\ audio' \in {audio, "stopped"}
    BY <1>2 DEF AfterRemove, Stop, facade
  <2> QED BY <2>1, StartedMeans
<1>3. CASE AfterCut \/ AfterStation \/ EmptyQueue \/ AfterEmpty \/ AfterEnded
  <2>1. UNCHANGED <<loads, audio, playEvent, playbackEnded>>
    BY <1>3 DEF AfterCut, AfterStation, EmptyQueue, AfterEmpty, AfterEnded, loading, facade, element
  <2> QED BY <2>1, StartedMeans
<1> QED
  BY <1>1, <1>2, <1>3

LEMMA UserClears ==
    ASSUME (Started /\ playbackEnded)', Controls \/ Edits \/ \E s \in Songs : NetworkRetry(s)
    PROVE  Started /\ playbackEnded
<1>1. \A s : ~Plays(s)
  BY BeginClears DEF Plays
<1>2. CASE Controls
  <2>1. UNCHANGED <<loads, playbackEnded>>
        /\ (UNCHANGED <<audio, playEvent>> \/ TogglePauses \/ ToggleResumes)
    BY <1>1, <1>2 DEF Controls, UserPrevious, TogglePauses, ToggleResumes, ToggleLoads, Restart,
                      UserPlays, UserNext, loading, facade, element
  <2>2. TogglePauses => UNCHANGED playEvent /\ audio' \in {audio, "paused"}
    BY DEF TogglePauses
  <2>3. ~ToggleResumes
    BY StartedMeans DEF ToggleResumes
  <2> QED BY <2>1, <2>2, <2>3, StartedMeans
<1>3. CASE Edits
  <2>1. UNCHANGED <<loads, playbackEnded, playEvent>> /\ audio' \in {audio, "stopped", "paused"}
    BY <1>3 DEF Edits, ClearQueue, RadioTakesOver, PlayQueue, PlayNow, AddToQueue, RemoveFromQueue,
                ClearSongsAbove, ClearSongsBelow, ReorderQueue, Rewrites, Stop,
                loading, facade, element
  <2> QED BY <2>1, StartedMeans
<1>4. ASSUME NEW s \in Songs, NetworkRetry(s) PROVE Started /\ playbackEnded
  <2>1. UNCHANGED <<audio, playEvent>> /\ UNCHANGED <<loading, playbackEnded, paused>>
    BY <1>4, BeginClears DEF NetworkRetry, element
  <2> QED BY <2>1, StartedMeans DEF loading
<1> QED
  BY <1>2, <1>3, <1>4

LEMMA ElementClears ==
    ASSUME (Started /\ playbackEnded)', ElementEvents, ~PlayEvent
    PROVE  FALSE
<1>1. audio' = "stopped"
  BY DEF ElementEvents, NetworkError, Ended, ElementError
<1> QED
  BY <1>1, StartedMeans

(* A song that a load starts has cleared the mark that the queue ran out,  *)
(* also when a traversal sets it while the load is under way               *)
(* (htmlAudio.ts:455-458).                                                 *)
THEOREM MarkIsCleared == Spec => LoadsClearTheMark
<1> DEFINE Step == (Started /\ playbackEnded)' /\ ~(Started /\ playbackEnded) => PlayEvent
<1>1. IInv /\ [Next]_vars => [Step]_vars
  <2> SUFFICES ASSUME IInv, Next, (Started /\ playbackEnded)', ~PlayEvent
               PROVE  Started /\ playbackEnded
    OBVIOUS
  <2>1. CASE Continuations
    BY <2>1, TasksClear, TraversalsClear DEF Continuations
  <2>2. CASE Commits
    BY <2>2, CommitsClear
  <2>3. CASE Loads
    BY <2>3, LoadsClear DEF Loads
  <2>4. CASE ElementEvents
    BY <2>4, ElementClears
  <2>5. CASE Controls \/ Edits \/ \E s \in Songs : NetworkRetry(s)
    BY <2>5, UserClears
  <2>6. ASSUME NEW n \in Slots, Timers(n) PROVE Started /\ playbackEnded
    BY <2>6, TraversalsClear
  <2> QED BY <2>1, <2>2, <2>3, <2>4, <2>5, <2>6 DEF Next
<1>2. Spec => []IInv
  BY StartIsSound, StepIsSound, PTL DEF Spec
<1> QED
  BY <1>1, <1>2, PTL DEF Spec, LoadsClearTheMark

-----------------------------------------------------------------------------
(* What is shown and what plays: they differ only while the write is due   *)
(* whose commit gives the element the url of the song that is shown.       *)

LoadIsDue(ws) == \E m \in DOMAIN ws : ws[m].what = "load"

ShownWaits ==
    audio = "playing" /\ ~playEvent /\ current \notin {None, loaded} => LoadIsDue(writes)

(* A step that lets a load in the writes stand, shows no other song, and   *)
(* starts the element only together with its play event.                   *)
Shows ==
    /\ loaded' = loaded /\ current' \in {current, None}
    /\ LoadIsDue(writes) => LoadIsDue(writes')
    /\ \/ audio' # "playing"
       \/ playEvent' = TRUE
       \/ UNCHANGED <<audio, playEvent>>

LEMMA ShowsWaits == ASSUME ShownWaits, Shows PROVE ShownWaits'
  BY DEF ShownWaits, Shows

LEMMA AppendedIsDue ==
    ASSUME IInv, NEW w
    PROVE  /\ LoadIsDue(writes) => LoadIsDue(Append(writes, w))
           /\ w.what = "load" => LoadIsDue(Append(writes, w))
<1>1. Len(writes) \in Nat /\ DOMAIN writes = 1..Len(writes)
  BY DEF IInv, Core
<1>2. /\ DOMAIN Append(writes, w) = 1..(Len(writes) + 1)
      /\ \A m \in DOMAIN writes : Append(writes, w)[m] = writes[m]
      /\ Append(writes, w)[Len(writes) + 1] = w
  BY DEF IInv, Core
<1>3. LoadIsDue(writes) => LoadIsDue(Append(writes, w))
  BY <1>1, <1>2 DEF LoadIsDue
<1>4. w.what = "load" => LoadIsDue(Append(writes, w))
  BY <1>1, <1>2 DEF LoadIsDue
<1> QED
  BY <1>3, <1>4

LEMMA CommittedIsDue ==
    ASSUME IInv, writes # << >>, Head1.what # "load", LoadIsDue(writes)
    PROVE  LoadIsDue(Tail(writes)) /\ \A w : LoadIsDue(Append(Tail(writes), w))
<1>1. PICK m \in DOMAIN writes : writes[m].what = "load"
  BY DEF LoadIsDue
<1>2. writes \in Seq(WriteRecord) /\ Len(writes) \in Nat /\ m \in 2..Len(writes)
  BY <1>1 DEF IInv, Core, Head1
<1>3. /\ Tail(writes) \in Seq(WriteRecord) /\ Len(Tail(writes)) = Len(writes) - 1
      /\ Tail(writes)[m - 1] = writes[m]
  <2>1. writes # << >> /\ Len(writes) >= 2 /\ m - 1 \in 1..(Len(writes) - 1) /\ (m - 1) + 1 = m
    BY <1>2
  <2>2. Tail(writes) \in Seq(WriteRecord) /\ Len(Tail(writes)) = Len(writes) - 1
    BY <1>2, <2>1
  <2>3. \A i \in 1..(Len(writes) - 1) : Tail(writes)[i] = writes[i + 1]
    BY <1>2, <2>1
  <2> QED BY <2>1, <2>2, <2>3
<1>4. m - 1 \in DOMAIN Tail(writes)
  BY <1>2, <1>3
<1>5. ASSUME NEW w PROVE LoadIsDue(Append(Tail(writes), w))
  <2>1. m - 1 \in DOMAIN Append(Tail(writes), w) /\ Append(Tail(writes), w)[m - 1] = writes[m]
    BY <1>2, <1>3
  <2> QED BY <1>1, <2>1 DEF LoadIsDue
<1> QED
  BY <1>1, <1>3, <1>4, <1>5 DEF LoadIsDue

LEMMA LoadsShow ==
    ASSUME IInv, ShownWaits, Loads PROVE ShownWaits'
<1>1. PICK k \in DOMAIN loads : UrlResolves(k) \/ UrlFails(k) \/ PlayResolves(k) \/ PlayRejects(k)
  BY DEF Loads
<1>2. CASE UrlResolves(k)
  <2>1. CASE MayCommit(loads[k])
    <3>1. writes' = Append(writes, WriteOf(loads[k].id))
      BY <1>2, <2>1 DEF UrlResolves
    <3>2. WriteOf(loads[k].id).what = "load"
      BY DEF WriteOf, Await
    <3> QED BY <3>1, <3>2, AppendedIsDue DEF ShownWaits
  <2>2. CASE ~MayCommit(loads[k])
    BY <1>2, <2>2, ShowsWaits DEF UrlResolves, Shows
  <2> QED BY <2>1, <2>2
<1>3. CASE UrlFails(k) \/ PlayResolves(k) \/ PlayRejects(k)
  <2>1. Shows
    BY <1>3 DEF UrlFails, PlayResolves, PlayRejects, Shows, state
  <2> QED BY <2>1, ShowsWaits
<1> QED
  BY <1>1, <1>2, <1>3

LEMMA CommitsShow ==
    ASSUME IInv, ShownWaits, Commits PROVE ShownWaits'
<1>1. CASE LoadCommitted
  <2>1. playEvent' = TRUE \/ audio' = "paused"
    BY <1>1 DEF LoadCommitted
  <2> QED BY <2>1 DEF ShownWaits
<1>2. CASE QueueCommitted
  <2>1. LoadIsDue(writes) => LoadIsDue(writes')
    BY <1>2, CommittedIsDue DEF QueueCommitted
  <2> QED BY <1>2, <2>1, ShowsWaits DEF QueueCommitted, Stop, Shows
<1>3. CASE OtherCommitted
  <2>1. LoadIsDue(writes) => LoadIsDue(writes')
    BY <1>3, CommittedIsDue DEF OtherCommitted
  <2> QED BY <1>3, <2>1, ShowsWaits DEF OtherCommitted, element, Shows
<1> QED
  BY <1>1, <1>2, <1>3 DEF Commits

LEMMA TraversalsShow ==
    ASSUME IInv, NEW n \in Slots, StartTraversal(n) \/ PickNext(n) \/ AfterNext(n) \/ Timers(n)
    PROVE  Shows
<1>1. \A q, rest : SetQueue(q, rest) /\ LoadIsDue(writes) => LoadIsDue(writes')
  BY AppendedIsDue DEF SetQueue
<1>2. \A rest : ClearQueueState(rest) => current' = None /\ (LoadIsDue(writes) => LoadIsDue(writes'))
  BY AppendedIsDue DEF ClearQueueState
<1>3. FinishQueue(n) => Shows
  BY <1>2 DEF FinishQueue, Stop, Shows
<1>4. \A p : Attempt(n, p) => UNCHANGED <<state, element>>
  BY DEF Attempt
<1>5. UNCHANGED <<state, element>> => Shows
  BY DEF state, element, Shows
<1>6. AfterNext(n) => Shows
  BY <1>1 DEF AfterNext, element, Shows
<1> QED
  BY <1>3, <1>4, <1>5, <1>6 DEF StartTraversal, PickNext, Timers, RetryAttempt, AttemptTimesOut

LEMMA TasksShow ==
    ASSUME IInv, PlayAdded \/ AfterRemove \/ AfterCut \/ AfterStation \/ EmptyQueue
                 \/ AfterEmpty \/ AfterEnded
    PROVE  Shows
<1>1. \A w : writes' = Append(writes, w) /\ LoadIsDue(writes) => LoadIsDue(writes')
  BY AppendedIsDue
<1>2. CASE PlayAdded \/ AfterCut \/ AfterEmpty
  BY <1>2 DEF PlayAdded, AfterCut, AfterEmpty, state, element, Shows
<1>3. CASE AfterRemove
  BY <1>1, <1>3 DEF AfterRemove, Stop, Shows
<1>4. CASE AfterStation \/ EmptyQueue \/ AfterEnded
  BY <1>1, <1>4 DEF AfterStation, ClearQueueState, EmptyQueue, SetQueue, AfterEnded, element, Shows
<1> QED
  BY <1>2, <1>3, <1>4

LEMMA UserShows ==
    ASSUME IInv, Controls \/ Edits \/ \E s \in Songs : NetworkRetry(s)
    PROVE  Shows
<1>1. \A w : writes' = Append(writes, w) /\ LoadIsDue(writes) => LoadIsDue(writes')
  BY AppendedIsDue
<1>2. UNCHANGED <<state, element>> => Shows
  BY DEF state, element, Shows
<1>3. CASE Controls
  <2>1. UNCHANGED <<state, element>> \/ TogglePauses \/ ToggleResumes
    BY <1>3 DEF Controls, UserPrevious, ToggleLoads, Restart, UserPlays, Plays, UserNext
  <2>2. TogglePauses \/ ToggleResumes => Shows
    BY DEF TogglePauses, ToggleResumes, state, Shows
  <2> QED BY <1>2, <2>1, <2>2
<1>4. CASE Edits
  <2>1. CASE ClearQueue \/ RadioTakesOver
    BY <1>1, <2>1 DEF ClearQueue, RadioTakesOver, ClearQueueState, Stop, Shows
  <2>2. CASE \E q, rest : Rewrites(q, rest)
    BY <1>1, <2>2 DEF Rewrites, SetQueue, element, Shows
  <2> QED BY <1>4, <2>1, <2>2 DEF Edits, PlayQueue, PlayNow, AddToQueue, RemoveFromQueue,
                                  ClearSongsAbove, ClearSongsBelow, ReorderQueue
<1>5. CASE \E s \in Songs : NetworkRetry(s)
  BY <1>2, <1>5 DEF NetworkRetry
<1> QED
  BY <1>3, <1>4, <1>5

LEMMA ElementShows ==
    ASSUME ShownWaits, ElementEvents PROVE ShownWaits'
<1>1. CASE PlayEvent
  BY <1>1 DEF PlayEvent, ShownWaits
<1>2. CASE ~PlayEvent
  <2>1. audio' = "stopped"
    BY <1>2 DEF ElementEvents, NetworkError, Ended, ElementError
  <2> QED BY <2>1 DEF ShownWaits
<1> QED
  BY <1>1, <1>2

(* When no write and no event is due, the song that is shown is the one    *)
(* that plays (htmlAudio.ts:358-377, 755-761).                             *)
THEOREM ShownSongPlays == Spec => []ShownIsPlayed
<1>1. Init => ShownWaits
  BY DEF Init, ShownWaits
<1>2. IInv /\ ShownWaits /\ [Next]_vars => ShownWaits'
  <2> SUFFICES ASSUME IInv, ShownWaits, [Next]_vars PROVE ShownWaits'
    OBVIOUS
  <2>1. CASE Continuations
    BY <2>1, TasksShow, TraversalsShow, ShowsWaits DEF Continuations
  <2>2. CASE Commits \/ Loads \/ ElementEvents
    BY <2>2, CommitsShow, LoadsShow, ElementShows
  <2>3. CASE Controls \/ Edits \/ \E s \in Songs : NetworkRetry(s)
    BY <2>3, UserShows, ShowsWaits
  <2>4. ASSUME NEW n \in Slots, Timers(n) PROVE ShownWaits'
    BY <2>4, TraversalsShow, ShowsWaits
  <2>5. CASE UNCHANGED vars
    BY <2>5 DEF vars, state, element, ShownWaits
  <2> QED BY <2>1, <2>2, <2>3, <2>4, <2>5 DEF Next
<1>3. ShownWaits => ShownIsPlayed
  BY DEF ShownWaits, ShownIsPlayed, LoadIsDue
<1>4. Spec => []IInv
  BY StartIsSound, StepIsSound, PTL DEF Spec
<1> QED
  BY <1>1, <1>2, <1>3, <1>4, PTL DEF Spec
=============================================================================
