-------------------------- MODULE ChangeFeedProofs --------------------------
(***************************************************************************)
(* Proofs about ChangeFeed, for every set of files, channel capacity,      *)
(* length of the feed and number of failures.                              *)
(***************************************************************************)
EXTENDS ChangeFeed, TLAPS

-----------------------------------------------------------------------------
(* The inductive invariant.                                                *)

Q(k) == queue[k].changes

(* No entry on its way is ahead of Drive or behind what was applied.       *)
FreshIn(s, l, a, g) ==
    \A i \in 1..Len(s) : /\ s[i].ver <= l[s[i].file]
                         /\ a[s[i].file] <= s[i].ver
                         /\ g[s[i].file] <= s[i].ver

Fresh(s) == FreshIn(s, last, applied, gated)

Older(s, t) == \A i \in 1..Len(s), j \in 1..Len(t) :
                  s[i].file = t[j].file => s[i].ver <= t[j].ver

Sorted(s) == \A i, j \in 1..Len(s) :
                i < j /\ s[i].file = s[j].file => s[i].ver <= s[j].ver

(* Entries travel in the order they were fetched: todo, queue, batch, acc. *)
OrderInv ==
    /\ Fresh(todo) /\ Fresh(batch) /\ Fresh(acc)
    /\ Sorted(todo) /\ Sorted(batch) /\ Sorted(acc)
    /\ Older(todo, batch) /\ Older(todo, acc) /\ Older(batch, acc)
    /\ \A k \in 1..Len(queue) :
          /\ Fresh(Q(k)) /\ Sorted(Q(k))
          /\ Older(todo, Q(k)) /\ Older(Q(k), batch) /\ Older(Q(k), acc)
    /\ \A k, l \in 1..Len(queue) : k < l => Older(Q(k), Q(l))
    /\ \A i \in 1..Len(acc) : filtered[acc[i].file] <= acc[i].ver

(* The feed has one change per position.                                   *)
FeedInv ==
    /\ \A f, g \in Files : last[f] = last[g] /\ last[f] > 0 => f = g
    /\ \A f \in Files : /\ last[f] <= head
                        /\ applied[f] <= last[f]
                        /\ gated[f] <= last[f]
                        /\ filtered[f] <= last[f]

(* Tokens only grow along the pipeline, and each delta starts at a token   *)
(* the cursor has already reached.                                         *)
TokenInv ==
    /\ cursor <= head /\ pos <= head /\ bound <= head
    /\ phase \in {"draining", "resolving", "sending"} => from <= cursor
    /\ phase \in {"resolving", "sending"} =>
          /\ cursor <= pos
          /\ applying => bound <= pos
          /\ \A k \in 1..Len(queue) : queue[k].to <= pos
    /\ applying => /\ cursor <= bound
                   /\ \A k \in 1..Len(queue) : bound <= queue[k].to
    /\ \A k \in 1..Len(queue) : /\ queue[k].from <= cursor
                                /\ cursor <= queue[k].to
                                /\ queue[k].to <= head
    /\ \A k, l \in 1..Len(queue) : k < l => queue[k].to <= queue[l].to

(* The latest change of f is among the entries of s.                       *)
Listed(f, s) == \E i \in 1..Len(s) : s[i].file = f /\ s[i].ver = last[f]

(* Every delta still carries, or has settled, the latest changes of its    *)
(* range that no newer change has superseded.                              *)
CoverInv ==
    /\ phase = "draining" => batch = <<>> /\ \A f \in Files :
          from < last[f] /\ last[f] <= pos => Listed(f, acc)
    /\ phase \in {"resolving", "sending"} => \A f \in Files :
          from < last[f] /\ last[f] <= pos =>
             Listed(f, acc) \/ Listed(f, batch) \/ filtered[f] = last[f]
    /\ phase = "sending" => acc = <<>>
    /\ phase \in {"idle", "dead"} => acc = <<>> /\ batch = <<>>
    /\ \A k \in 1..Len(queue) : \A f \in Files :
          queue[k].from < last[f] /\ last[f] <= queue[k].to =>
             Listed(f, Q(k)) \/ filtered[f] = last[f]
    /\ applying /\ allApplied => \A f \in Files :
          last[f] <= bound => Listed(f, todo) \/ Settled(f)

IInv == /\ TypeOK /\ OrderInv /\ FeedInv /\ TokenInv /\ CoverInv
        /\ CursorPassesOnlySettled

-----------------------------------------------------------------------------
(* Facts about the sequences.                                              *)

LEMMA EmptyFacts == \A S : <<>> \in Seq(S) /\ Len(<<>>) = 0
    OBVIOUS

LEMMA TailFacts ==
    ASSUME NEW S, NEW s \in Seq(S), s # <<>>
    PROVE  /\ Head(s) \in S /\ Head(s) = s[1]
           /\ Tail(s) \in Seq(S)
           /\ Len(s) \in Nat \ {0} /\ Len(Tail(s)) = Len(s) - 1
           /\ \A i \in 1..Len(s) - 1 : Tail(s)[i] = s[i + 1]
    OBVIOUS

LEMMA AppendFacts ==
    ASSUME NEW S, NEW s \in Seq(S), NEW e \in S
    PROVE  /\ Append(s, e) \in Seq(S)
           /\ Len(s) \in Nat /\ Len(Append(s, e)) = Len(s) + 1
           /\ \A i \in 1..Len(s) : Append(s, e)[i] = s[i]
           /\ Append(s, e)[Len(s) + 1] = e
    OBVIOUS

-----------------------------------------------------------------------------
LEMMA HeadIsOldest ==
    ASSUME NEW s \in Seq(Entry), NEW t \in Seq(Entry), s # <<>>
    PROVE  /\ Sorted(s) => \A j \in 1..Len(Tail(s)) :
                 Head(s).file = Tail(s)[j].file => Head(s).ver <= Tail(s)[j].ver
           /\ Older(s, t) => \A j \in 1..Len(t) :
                 Head(s).file = t[j].file => Head(s).ver <= t[j].ver
           /\ Older(t, s) => \A j \in 1..Len(t) :
                 Head(s).file = t[j].file => t[j].ver <= Head(s).ver
    BY TailFacts DEF Sorted, Older

LEMMA TailKeepsOrder ==
    ASSUME NEW s \in Seq(Entry), NEW t \in Seq(Entry), s # <<>>
    PROVE  /\ Sorted(s) => Sorted(Tail(s))
           /\ Older(s, t) => Older(Tail(s), t)
           /\ Older(t, s) => Older(t, Tail(s))
    BY TailFacts DEF Sorted, Older

LEMMA AppendKeepsOrder ==
    ASSUME NEW s \in Seq(Entry), NEW t \in Seq(Entry), NEW e \in Entry
    PROVE  /\ Sorted(s) /\ (\A i \in 1..Len(s) : s[i].file = e.file => s[i].ver <= e.ver)
                 => Sorted(Append(s, e))
           /\ Older(s, t) /\ (\A i \in 1..Len(s) : s[i].file = e.file => s[i].ver <= e.ver)
                 => Older(s, Append(t, e))
           /\ Older(s, t) /\ (\A j \in 1..Len(t) : t[j].file = e.file => e.ver <= t[j].ver)
                 => Older(Append(s, e), t)
<1> DEFINE n == Len(s)
           m == Len(t)
<1>1. n \in Nat /\ m \in Nat /\ e.ver \in Nat /\ Len(Append(s, e)) = n + 1
        /\ Len(Append(t, e)) = m + 1
  BY AppendFacts DEF Entry
<1>2. /\ \A i \in 1..n : Append(s, e)[i] = s[i]
      /\ \A i \in 1..m : Append(t, e)[i] = t[i]
      /\ Append(s, e)[n + 1] = e /\ Append(t, e)[m + 1] = e
  BY AppendFacts
<1>3. \A i \in 1..n + 1 : i \in 1..n \/ i = n + 1
  BY <1>1
<1>4. \A i \in 1..m + 1 : i \in 1..m \/ i = m + 1
  BY <1>1
<1> HIDE DEF n, m
<1>5. ASSUME Sorted(s), \A i \in 1..n : s[i].file = e.file => s[i].ver <= e.ver
      PROVE  Sorted(Append(s, e))
  <2> SUFFICES ASSUME NEW i \in 1..n+1, NEW j \in 1..n+1, i < j,
                      Append(s, e)[i].file = Append(s, e)[j].file
               PROVE  Append(s, e)[i].ver <= Append(s, e)[j].ver
    BY <1>1 DEF Sorted
  <2>1. i \in 1..n BY <1>1
  <2>2. CASE j \in 1..n BY <1>2, <1>5, <2>1, <2>2 DEF Sorted, n
  <2>3. CASE j = n + 1 BY <1>2, <1>5, <2>1, <2>3
  <2> QED BY <1>3, <2>2, <2>3
<1>6. ASSUME Older(s, t), \A i \in 1..n : s[i].file = e.file => s[i].ver <= e.ver
      PROVE  Older(s, Append(t, e))
  <2> SUFFICES ASSUME NEW i \in 1..n, NEW j \in 1..m+1,
                      s[i].file = Append(t, e)[j].file
               PROVE  s[i].ver <= Append(t, e)[j].ver
    BY <1>1 DEF Older, n
  <2>1. CASE j \in 1..m BY <1>2, <1>6, <2>1 DEF Older, n, m
  <2>2. CASE j = m + 1 BY <1>2, <1>6, <2>2
  <2> QED BY <1>4, <2>1, <2>2
<1>7. ASSUME Older(s, t), \A j \in 1..m : t[j].file = e.file => e.ver <= t[j].ver
      PROVE  Older(Append(s, e), t)
  <2> SUFFICES ASSUME NEW i \in 1..n+1, NEW j \in 1..m,
                      Append(s, e)[i].file = t[j].file
               PROVE  Append(s, e)[i].ver <= t[j].ver
    BY <1>1 DEF Older, m
  <2>1. CASE i \in 1..n BY <1>2, <1>7, <2>1 DEF Older, n, m
  <2>2. CASE i = n + 1 BY <1>2, <1>7, <2>2
  <2> QED BY <1>3, <2>1, <2>2
<1> QED BY <1>5, <1>6, <1>7 DEF n, m

(* Every variable keeps its type.                                          *)
LEMMA TypeStep == TypeOK /\ [Next]_vars => TypeOK'
<1> SUFFICES ASSUME TypeOK, [Next]_vars PROVE TypeOK'
    OBVIOUS
<1> USE FeedAssumption DEF TypeOK
<1>u. /\ UNCHANGED drive => DriveOK'
      /\ UNCHANGED poller => PollerOK'
      /\ UNCHANGED queue => QueueOK'
      /\ UNCHANGED consumer => ConsumerOK'
      /\ UNCHANGED engine => EngineOK'
      /\ UNCHANGED fates => FatesOK'
  BY DEF DriveOK, PollerOK, QueueOK, ConsumerOK, EngineOK, FatesOK,
         drive, poller, consumer, engine, fates
<1>f. ASSUME Fault PROVE faults' \in 0..MaxFaults
  BY <1>f DEF Fault
<1>r. ASSUME NEW f \in Files, NEW w \in {"user", "daemon"}, NEW st \in {"live", "gone"},
             Record(f, w, st)
      PROVE  DriveOK'
  BY <1>r DEF Record, DriveOK
<1>1. CASE PollerStep
  <2>1. CASE PollStart BY <1>u, <2>1 DEF PollStart, PollerOK
  <2>2. CASE FetchLast BY <1>u, <2>2 DEF FetchLast, PollerOK, DriveOK
  <2>3. CASE Resolve
    <3>1. acc \in Seq(Entry) /\ acc # <<>> BY <2>3 DEF Resolve, PollerOK
    <3>2. Head(acc) \in Entry /\ Tail(acc) \in Seq(Entry) BY <3>1
    <3>3. Append(batch, Head(acc)) \in Seq(Entry) BY <3>2 DEF PollerOK
    <3>4. Head(acc).file \in Files /\ Head(acc).ver \in Nat BY <3>2 DEF Entry
    <3>5. PollerOK' /\ FatesOK'
      BY <2>3, <3>2, <3>3, <3>4 DEF Resolve, Keep, Skip, PollerOK, FatesOK
    <3> QED BY <1>u, <2>3, <3>5 DEF Resolve
  <2>4. CASE Resolved BY <1>u, <2>4 DEF Resolved, PollerOK
  <2>5. CASE PollSend
    <3>1. [from |-> from, to |-> pos, changes |-> batch] \in Batch
      BY DEF PollerOK, Batch
    <3>2. QueueOK' BY <2>5, <3>1, AppendFacts DEF PollSend, QueueOK
    <3>3. PollerOK' BY <2>5 DEF PollSend, PollerOK
    <3> QED BY <1>u, <2>5, <3>2, <3>3 DEF PollSend
  <2>6. ASSUME NEW f \in Files, FetchPage(f) PROVE TypeOK'
    <3>1. [file |-> f, ver |-> last[f], removed |-> status[f] = "gone"] \in Entry
      BY DEF DriveOK, Entry
    <3>2. PollerOK' BY <2>6, <3>1 DEF FetchPage, PollerOK, DriveOK
    <3> QED BY <1>u, <2>6, <3>2 DEF FetchPage
  <2> QED BY <1>1, <2>1, <2>2, <2>3, <2>4, <2>5, <2>6 DEF PollerStep
<1>2. CASE ConsumerStep
  <2>1. CASE Take
    <3>1. Head(queue) \in Batch /\ Tail(queue) \in Seq(Batch)
            /\ Len(Tail(queue)) <= QueueCap
      BY <2>1, TailFacts DEF Take, QueueOK
    <3>2. ConsumerOK' /\ QueueOK'
      BY <2>1, <3>1 DEF Take, Batch, ConsumerOK, QueueOK
    <3> QED BY <1>u, <2>1, <3>2 DEF Take
  <2>2. CASE Apply
    <3>1. Head(todo) \in Entry /\ Tail(todo) \in Seq(Entry)
      BY <2>2 DEF Apply, ConsumerOK
    <3>2. Head(todo).file \in Files /\ Head(todo).ver \in Nat BY <3>1 DEF Entry
    <3>3. ConsumerOK' BY <2>2, <3>1 DEF Apply, ConsumerOK
    <3>4. FatesOK' BY <2>2, <3>2 DEF Apply, FatesOK
    <3> QED BY <1>u, <2>2, <3>3, <3>4 DEF Apply
  <2>3. CASE Finish BY <1>u, <2>3 DEF Finish, ConsumerOK
  <2> QED BY <1>2, <2>1, <2>2, <2>3 DEF ConsumerStep
<1>3. CASE EnvStep
  BY <1>3, <1>u, <1>r DEF EnvStep, RemoteEdit, RemoteRemove
<1>4. CASE EngineStep
  <2>1. ASSUME NEW f \in Files, OpBegin(f) PROVE TypeOK'
    BY <1>u, <2>1 DEF OpBegin, EngineOK
  <2>2. CASE OpWrite
    BY <1>u, <1>r, <2>2 DEF OpWrite, EngineOK
  <2>3. CASE OpMarkNew BY <1>u, <2>3 DEF OpMarkNew, EngineOK
  <2>4. CASE OpEnd BY <1>u, <2>4 DEF OpEnd, EngineOK
  <2> QED BY <1>4, <2>1, <2>2, <2>3, <2>4 DEF EngineStep
<1>5. CASE FaultStep
  <2>1. CASE PollerDies BY <1>u, <1>f, <2>1 DEF PollerDies, PollerOK
  <2>2. CASE FetchFails BY <1>u, <1>f, <2>2 DEF FetchFails, PollerOK
  <2>3. CASE LookupFails
    <3>1. Head(acc) \in Entry /\ Tail(acc) \in Seq(Entry)
      BY <2>3 DEF LookupFails, PollerOK
    <3>2. Head(acc).file \in Files /\ Head(acc).ver \in Nat BY <3>1 DEF Entry
    <3>3. PollerOK' BY <2>3, <3>1 DEF LookupFails, Skip, PollerOK
    <3>4. FatesOK' BY <2>3, <3>2 DEF LookupFails, Skip, FatesOK
    <3> QED BY <1>u, <1>f, <2>3, <3>3, <3>4 DEF LookupFails
  <2>4. CASE ApplyFails
    <3>2. Tail(todo) \in Seq(Entry) BY <2>4, TailFacts DEF ApplyFails, ConsumerOK
    <3>1. ConsumerOK' BY <2>4, <3>2 DEF ApplyFails, ConsumerOK
    <3> QED BY <1>u, <1>f, <2>4, <3>1 DEF ApplyFails
  <2>5. CASE FinishFails BY <1>u, <1>f, <2>5 DEF FinishFails, ConsumerOK
  <2>6. CASE Crash
    <3>1. PollerOK' /\ ConsumerOK' /\ EngineOK'
      BY <2>6, EmptyFacts DEF Crash, PollerOK, ConsumerOK, EngineOK
    <3>2. QueueOK' BY <2>6, EmptyFacts DEF Crash, QueueOK
    <3> QED BY <1>u, <1>f, <2>6, <3>1, <3>2 DEF Crash
  <2> QED BY <1>5, <2>1, <2>2, <2>3, <2>4, <2>5, <2>6 DEF FaultStep
<1>6. CASE UNCHANGED vars BY <1>u, <1>6 DEF vars
<1> QED BY <1>1, <1>2, <1>3, <1>4, <1>5, <1>6 DEF Next

(* In every reachable state every variable has its type.                   *)
THEOREM TypeCorrect == Spec => []TypeOK
<1>1. ASSUME Init PROVE TypeOK
  <2>1. DriveOK /\ EngineOK /\ FatesOK
    BY <1>1 DEF Init, DriveOK, EngineOK, FatesOK
  <2>2. PollerOK /\ ConsumerOK BY <1>1, EmptyFacts DEF Init, PollerOK, ConsumerOK
  <2>3. QueueOK BY <1>1, EmptyFacts, FeedAssumption DEF Init, QueueOK
  <2> QED BY <1>1, <2>1, <2>2, <2>3, FeedAssumption DEF Init, TypeOK
<1> QED BY <1>1, TypeStep, PTL DEF Spec

-----------------------------------------------------------------------------
(* Which steps touch which part of the state.                              *)

LEMMA FreshFacts ==
    ASSUME NEW s \in Seq(Entry), s # <<>>,
           NEW l \in [Files -> Nat], NEW a \in [Files -> Nat], NEW g \in [Files -> Nat],
           FreshIn(s, l, a, g)
    PROVE  /\ Head(s) \in Entry /\ Head(s).file \in Files /\ Head(s).ver \in Nat
           /\ Head(s).ver <= l[Head(s).file]
           /\ a[Head(s).file] <= Head(s).ver
           /\ g[Head(s).file] <= Head(s).ver
           /\ FreshIn(Tail(s), l, a, g)
<1>1. Head(s) = s[1] /\ 1 \in 1..Len(s) /\ Head(s) \in Entry
  BY TailFacts
<1>2. FreshIn(Tail(s), l, a, g)
  BY TailFacts DEF FreshIn
<1> QED BY <1>1, <1>2 DEF FreshIn, Entry

(* A newer change of a file keeps every entry at most as new as Drive.     *)
LEMMA RecordFacts ==
    ASSUME DriveOK, FeedInv, NEW f \in Files, NEW w, NEW st, Record(f, w, st)
    PROVE  /\ head' = head + 1 /\ last' \in [Files -> Nat]
           /\ last'[f] = head + 1
           /\ \A g \in Files : g # f => last'[g] = last[g]
           /\ \A g \in Files : last[g] <= last'[g] /\ last[g] <= head
    BY DEF Record, DriveOK, FeedInv

LEMMA FeedStep ==
    ASSUME TypeOK, OrderInv, FeedInv, [Next]_vars
    PROVE  FeedInv'
<1> USE DEF TypeOK
<1>1. ASSUME UNCHANGED <<head, last, applied, gated, filtered>> PROVE FeedInv'
  BY <1>1 DEF FeedInv
<1>2. ASSUME NEW f \in Files, NEW w, NEW st, Record(f, w, st), UNCHANGED fates
      PROVE  FeedInv'
  <2>1. UNCHANGED <<applied, gated, filtered>> BY <1>2 DEF fates
  <2>2. \A g \in Files : /\ applied[g] \in Nat /\ gated[g] \in Nat
                         /\ filtered[g] \in Nat /\ last[g] \in Nat
    BY DEF FatesOK, DriveOK
  <2> QED BY <1>2, <2>1, <2>2, RecordFacts DEF FeedInv, DriveOK
<1>3. ASSUME acc # <<>>, Skip, UNCHANGED <<head, last, applied, gated>> PROVE FeedInv'
  <2>1. Head(acc).file \in Files /\ Head(acc).ver \in Nat
          /\ Head(acc).ver <= last[Head(acc).file]
    BY <1>3, FreshFacts DEF OrderInv, Fresh, PollerOK, DriveOK, FatesOK
  <2>2. \A f \in Files : filtered'[f] = IF f = Head(acc).file THEN Head(acc).ver
                                                             ELSE filtered[f]
    BY <1>3 DEF Skip, FatesOK
  <2> QED BY <1>3, <2>1, <2>2 DEF FeedInv
<1>4. CASE Apply
  <2>1. Head(todo).file \in Files /\ Head(todo).ver \in Nat
          /\ Head(todo).ver <= last[Head(todo).file]
    BY <1>4, FreshFacts DEF Apply, OrderInv, Fresh, ConsumerOK, DriveOK, FatesOK
  <2>2. \A f \in Files :
           /\ applied'[f] \in {applied[f], IF f = Head(todo).file THEN Head(todo).ver
                                                                  ELSE applied[f]}
           /\ gated'[f] \in {gated[f], IF f = Head(todo).file THEN Head(todo).ver
                                                              ELSE gated[f]}
    BY <1>4, <2>1 DEF Apply, FatesOK
  <2>3. UNCHANGED <<head, last, filtered>>
    BY <1>4 DEF Apply, drive
  <2> QED BY <2>1, <2>2, <2>3 DEF FeedInv
<1>5. CASE PollerStep
  <2>1. CASE Resolve
    BY <2>1, <1>1, <1>3 DEF Resolve, Keep, Skip, drive
  <2> QED BY <1>5, <2>1, <1>1
      DEF PollerStep, PollStart, FetchLast, Resolved, PollSend, FetchPage, drive, fates
<1>6. CASE ConsumerStep
  BY <1>6, <1>1, <1>4 DEF ConsumerStep, Take, Finish, drive, fates
<1>7. CASE EnvStep
  BY <1>7, <1>2 DEF EnvStep, RemoteEdit, RemoteRemove
<1>8. CASE EngineStep
  <2>1. CASE OpWrite
    <3>1. opFile \in Files BY <2>1 DEF OpWrite, EngineOK
    <3> QED BY <2>1, <3>1, <1>2 DEF OpWrite
  <2> QED BY <1>8, <2>1, <1>1
      DEF EngineStep, OpBegin, OpMarkNew, OpEnd, drive, fates
<1>9. CASE FaultStep
  <2>1. CASE LookupFails BY <2>1, <1>3 DEF LookupFails, drive
  <2> QED BY <1>9, <2>1, <1>1
      DEF FaultStep, PollerDies, FetchFails, ApplyFails, FinishFails, Crash, drive, fates
<1>10. CASE UNCHANGED vars
  BY <1>10, <1>1 DEF vars, drive, fates
<1> QED BY <1>5, <1>6, <1>7, <1>8, <1>9, <1>10 DEF Next

(* Fresh survives a newer change on Drive. *)
LEMMA FreshUnderRecord ==
    ASSUME NEW s \in Seq(Entry), NEW l \in [Files -> Nat], NEW m \in [Files -> Nat],
           NEW a, NEW g, FreshIn(s, l, a, g), \A f \in Files : l[f] <= m[f]
    PROVE  FreshIn(s, m, a, g)
<1> SUFFICES ASSUME NEW i \in 1..Len(s) PROVE s[i].ver <= m[s[i].file]
    BY DEF FreshIn
<1>1. s[i] \in Entry BY DEF FreshIn
<1>2. s[i].file \in Files /\ s[i].ver \in Nat BY <1>1 DEF Entry
<1>3. s[i].ver <= l[s[i].file] /\ l[s[i].file] <= m[s[i].file] BY <1>2 DEF FreshIn
<1>4. l[s[i].file] \in Nat /\ m[s[i].file] \in Nat BY <1>2
<1> QED BY <1>2, <1>3, <1>4

(* Applying the oldest entry leaves the ones behind it fresh. *)
LEMMA FreshUnderApply ==
    ASSUME NEW t \in Seq(Entry), NEW e \in Entry,
           NEW l \in [Files -> Nat], NEW a \in [Files -> Nat], NEW g \in [Files -> Nat],
           FreshIn(t, l, a, g),
           \A j \in 1..Len(t) : e.file = t[j].file => e.ver <= t[j].ver
    PROVE  /\ FreshIn(t, l, [a EXCEPT ![e.file] = e.ver], g)
           /\ FreshIn(t, l, a, [g EXCEPT ![e.file] = e.ver])
<1> SUFFICES ASSUME NEW i \in 1..Len(t)
             PROVE  /\ [a EXCEPT ![e.file] = e.ver][t[i].file] <= t[i].ver
                    /\ [g EXCEPT ![e.file] = e.ver][t[i].file] <= t[i].ver
    BY DEF FreshIn
<1>0. t[i] \in Entry OBVIOUS
<1>1. t[i] \in Entry /\ e.file \in Files /\ e.ver \in Nat BY <1>0 DEF Entry
<1>2. t[i].file \in Files /\ t[i].ver \in Nat BY <1>1 DEF Entry
<1>3. CASE t[i].file = e.file BY <1>1, <1>2, <1>3
<1>4. CASE t[i].file # e.file BY <1>1, <1>2, <1>4 DEF FreshIn
<1> QED BY <1>3, <1>4

LEMMA FreshAppend ==
    ASSUME NEW s \in Seq(Entry), NEW e \in Entry, NEW l, NEW a, NEW g,
           FreshIn(s, l, a, g),
           e.ver <= l[e.file], a[e.file] <= e.ver, g[e.file] <= e.ver
    PROVE  FreshIn(Append(s, e), l, a, g)
<1> SUFFICES ASSUME NEW i \in 1..Len(s) + 1
             PROVE  /\ Append(s, e)[i].ver <= l[Append(s, e)[i].file]
                    /\ a[Append(s, e)[i].file] <= Append(s, e)[i].ver
                    /\ g[Append(s, e)[i].file] <= Append(s, e)[i].ver
    BY AppendFacts DEF FreshIn
<1>1. CASE i \in 1..Len(s) BY <1>1, AppendFacts DEF FreshIn
<1>2. CASE i = Len(s) + 1 BY <1>2, AppendFacts
<1> QED BY <1>1, <1>2, AppendFacts

LEMMA EmptyOrder ==
    ASSUME NEW s, NEW l, NEW a, NEW g
    PROVE  /\ Sorted(<<>>) /\ Older(<<>>, s) /\ Older(s, <<>>)
           /\ FreshIn(<<>>, l, a, g)
    BY EmptyFacts DEF Sorted, Older, FreshIn

LEMMA QueueTypes ==
    ASSUME QueueOK
    PROVE  /\ Len(queue) \in Nat
           /\ \A k \in 1..Len(queue) :
                queue[k] \in Batch /\ Q(k) \in Seq(Entry)
                  /\ queue[k].from \in Nat /\ queue[k].to \in Nat
<1>1. \A k \in 1..Len(queue) : queue[k] \in Batch BY DEF QueueOK
<1> QED BY <1>1 DEF QueueOK, Batch, Q

LEMMA OrderStep ==
    ASSUME TypeOK, OrderInv, FeedInv, [Next]_vars
    PROVE  OrderInv'
<1> USE DEF TypeOK
<1>t. /\ todo \in Seq(Entry) /\ batch \in Seq(Entry) /\ acc \in Seq(Entry)
      /\ last \in [Files -> Nat] /\ applied \in [Files -> Nat]
      /\ gated \in [Files -> Nat] /\ filtered \in [Files -> Nat]
  BY DEF ConsumerOK, PollerOK, DriveOK, FatesOK
<1>q. \A k \in 1..Len(queue) : Q(k) \in Seq(Entry)
  BY QueueTypes
<1>1. ASSUME UNCHANGED <<todo, batch, acc, queue, last, applied, gated, filtered>>
      PROVE  OrderInv'
  BY <1>1 DEF OrderInv, Fresh, Q
<1>2. ASSUME NEW f \in Files, NEW w, NEW st, Record(f, w, st),
             UNCHANGED <<todo, batch, acc, queue, applied, gated, filtered>>
      PROVE  OrderInv'
  <2>1. last' \in [Files -> Nat] /\ \A g \in Files : last[g] <= last'[g]
    BY <1>2, RecordFacts
  <2>2. \A s \in Seq(Entry) : FreshIn(s, last, applied, gated)
                                => FreshIn(s, last', applied', gated')
    BY <1>2, <1>t, <2>1, FreshUnderRecord
  <2> QED BY <1>2, <1>t, <1>q, <2>2 DEF OrderInv, Fresh, Q
<1>3. ASSUME acc # <<>>, acc' = Tail(acc), Keep,
             UNCHANGED <<todo, queue, last, applied, gated>>
      PROVE  OrderInv'
  <2> DEFINE e == Head(acc)
  <2>1. e \in Entry /\ Tail(acc) \in Seq(Entry) /\ e.ver <= last[e.file]
          /\ applied[e.file] <= e.ver /\ gated[e.file] <= e.ver
          /\ FreshIn(Tail(acc), last, applied, gated)
    <3>1. FreshIn(acc, last, applied, gated) BY DEF OrderInv, Fresh
    <3>2. acc # <<>> BY <1>3
    <3>3. Tail(acc) \in Seq(Entry) BY <1>t, <3>2, TailFacts
    <3> QED BY <1>t, <3>1, <3>2, <3>3, FreshFacts
  <2>2. \A t \in Seq(Entry) : Older(t, acc) =>
           \A j \in 1..Len(t) : t[j].file = e.file => t[j].ver <= e.ver
    BY <1>3, <1>t, HeadIsOldest
  <2>3. \A j \in 1..Len(Tail(acc)) :
           Tail(acc)[j].file = e.file => e.ver <= Tail(acc)[j].ver
    BY <1>3, <1>t, HeadIsOldest DEF OrderInv
  <2>4. Sorted(Tail(acc)) /\ \A t \in Seq(Entry) : Older(t, acc) => Older(t, Tail(acc))
    BY <1>3, <1>t, TailKeepsOrder DEF OrderInv
  <2> HIDE DEF e
  <2>5. \A t \in Seq(Entry) : Older(t, acc) /\ Older(t, batch) => Older(t, Append(batch, e))
    BY <1>t, <2>1, <2>2, AppendKeepsOrder
  <2>6. Sorted(Append(batch, e)) /\ Older(Append(batch, e), Tail(acc))
    BY <1>t, <2>1, <2>2, <2>3, <2>4, AppendKeepsOrder DEF OrderInv
  <2>7. FreshIn(Append(batch, e), last, applied, gated)
    BY <1>t, <2>1, FreshAppend DEF OrderInv, Fresh
  <2>8. \A i \in 1..Len(Tail(acc)) : filtered[Tail(acc)[i].file] <= Tail(acc)[i].ver
    BY <1>3, <1>t, TailFacts DEF OrderInv
  <2>9. /\ acc' = Tail(acc) /\ batch' = Append(batch, e) /\ filtered' = filtered
        /\ UNCHANGED <<todo, queue, last, applied, gated>>
    BY <1>3 DEF Keep, e
  <2> QED BY <1>t, <1>q, <2>1, <2>4, <2>5, <2>6, <2>7, <2>8, <2>9
      DEF OrderInv, Fresh, Q
<1>4. ASSUME acc # <<>>, acc' = Tail(acc), Skip,
             UNCHANGED <<todo, queue, last, applied, gated>>
      PROVE  OrderInv'
  <2> DEFINE e == Head(acc)
  <2>1. e \in Entry /\ e.file \in Files /\ e.ver \in Nat /\ Tail(acc) \in Seq(Entry)
          /\ FreshIn(Tail(acc), last, applied, gated)
    <3>1. FreshIn(acc, last, applied, gated) BY DEF OrderInv, Fresh
    <3>2. acc # <<>> BY <1>4
    <3>3. Tail(acc) \in Seq(Entry) BY <1>t, <3>2, TailFacts
    <3> QED BY <1>t, <3>1, <3>2, <3>3, FreshFacts
  <2>2. Sorted(Tail(acc)) /\ \A t \in Seq(Entry) : Older(t, acc) => Older(t, Tail(acc))
    BY <1>4, <1>t, TailKeepsOrder DEF OrderInv
  <2>3. \A j \in 1..Len(Tail(acc)) :
           Tail(acc)[j].file = e.file => e.ver <= Tail(acc)[j].ver
    BY <1>4, <1>t, HeadIsOldest DEF OrderInv
  <2>4. \A i \in 1..Len(Tail(acc)) : Tail(acc)[i] \in Entry
          /\ filtered[Tail(acc)[i].file] <= Tail(acc)[i].ver
    <3>1. acc # <<>> BY <1>4
    <3>2. \A i \in 1..Len(Tail(acc)) :
             Tail(acc)[i] = acc[i + 1] /\ i + 1 \in 1..Len(acc)
      BY <1>t, <3>1, TailFacts
    <3>3. \A i \in 1..Len(acc) : acc[i] \in Entry BY <1>t
    <3> QED BY <3>2, <3>3 DEF OrderInv
  <2>5. filtered' = [filtered EXCEPT ![e.file] = e.ver] /\ batch' = batch
    BY <1>4 DEF Skip
  <2> HIDE DEF e
  <2>6. \A i \in 1..Len(Tail(acc)) : filtered'[Tail(acc)[i].file] <= Tail(acc)[i].ver
    BY <1>t, <2>1, <2>3, <2>4, <2>5 DEF Entry
  <2> QED BY <1>4, <1>t, <1>q, <2>1, <2>2, <2>5, <2>6 DEF OrderInv, Fresh, Q
<1>5. CASE Apply \/ ApplyFails
  <2> DEFINE e == Head(todo)
  <2>1. /\ todo # <<>> /\ todo' = Tail(todo)
        /\ UNCHANGED <<batch, acc, queue, last, filtered>>
    BY <1>5 DEF Apply, ApplyFails, drive, poller, fates
  <2>2. e \in Entry /\ e.file \in Files /\ e.ver \in Nat /\ Tail(todo) \in Seq(Entry)
          /\ FreshIn(Tail(todo), last, applied, gated)
    BY <2>1, <1>t, FreshFacts, TailFacts DEF OrderInv, Fresh
  <2>3. Sorted(Tail(todo)) /\ \A t \in Seq(Entry) : Older(todo, t) => Older(Tail(todo), t)
    BY <2>1, <1>t, TailKeepsOrder DEF OrderInv
  <2>4. /\ \A j \in 1..Len(Tail(todo)) :
             e.file = Tail(todo)[j].file => e.ver <= Tail(todo)[j].ver
        /\ \A t \in Seq(Entry) : Older(todo, t) =>
             \A j \in 1..Len(t) : e.file = t[j].file => e.ver <= t[j].ver
    BY <2>1, <1>t, HeadIsOldest DEF OrderInv
  <2>5. \/ applied' = applied /\ gated' = gated
        \/ applied' = [applied EXCEPT ![e.file] = e.ver] /\ gated' = gated
        \/ applied' = applied /\ gated' = [gated EXCEPT ![e.file] = e.ver]
    BY <1>5 DEF Apply, ApplyFails, fates
  <2> HIDE DEF e
  <2>a. ASSUME NEW t \in Seq(Entry), FreshIn(t, last, applied, gated),
               \A j \in 1..Len(t) : e.file = t[j].file => e.ver <= t[j].ver
        PROVE  FreshIn(t, last, applied', gated')
    <3>1. /\ FreshIn(t, last, [applied EXCEPT ![e.file] = e.ver], gated)
          /\ FreshIn(t, last, applied, [gated EXCEPT ![e.file] = e.ver])
      BY <1>t, <2>2, <2>a, FreshUnderApply
    <3> QED BY <2>5, <2>a, <3>1
  <2>6. FreshIn(Tail(todo), last, applied', gated')
    BY <2>2, <2>4, <2>a
  <2>7. \A t \in Seq(Entry) : Older(todo, t) /\ FreshIn(t, last, applied, gated)
           => FreshIn(t, last, applied', gated')
    BY <2>4, <2>a
  <2> QED BY <1>t, <1>q, <2>1, <2>2, <2>3, <2>6, <2>7 DEF OrderInv, Fresh, Q
<1>6. ASSUME NEW f \in Files, FetchPage(f) PROVE OrderInv'
  <2> DEFINE e == [file |-> f, ver |-> last[f], removed |-> status[f] = "gone"]
  <2>1. /\ acc' = Append(acc, e)
        /\ UNCHANGED <<todo, batch, queue, last, applied, gated, filtered>>
    BY <1>6 DEF FetchPage, drive, consumer, fates
  <2>2. e \in Entry /\ e.file = f /\ e.ver = last[f]
    BY <1>t DEF Entry
  <2> HIDE DEF e
  <2>3. \A t \in Seq(Entry) : FreshIn(t, last, applied, gated) =>
           \A j \in 1..Len(t) : t[j].file = e.file => t[j].ver <= e.ver
    BY <2>2 DEF FreshIn
  <2>4. \A t \in Seq(Entry) : Older(t, acc) /\ FreshIn(t, last, applied, gated)
                                => Older(t, Append(acc, e))
    BY <1>t, <2>2, <2>3, AppendKeepsOrder
  <2>5. Sorted(Append(acc, e))
    BY <1>t, <2>2, <2>3, AppendKeepsOrder DEF OrderInv, Fresh
  <2>6. FreshIn(Append(acc, e), last, applied, gated)
    <3>1. /\ FreshIn(acc, last, applied, gated)
          /\ e.ver <= last[e.file] /\ applied[e.file] <= e.ver /\ gated[e.file] <= e.ver
      BY <1>t, <2>2 DEF OrderInv, Fresh, FeedInv
    <3> QED BY <1>t, <2>2, <3>1, FreshAppend
  <2>7. \A i \in 1..Len(Append(acc, e)) :
           filtered[Append(acc, e)[i].file] <= Append(acc, e)[i].ver
    BY <1>t, <2>2, AppendFacts DEF OrderInv, FeedInv
  <2> QED BY <1>t, <1>q, <2>1, <2>4, <2>5, <2>6, <2>7 DEF OrderInv, Fresh, Q
<1>7. CASE FetchFails
  <2>1. acc' = <<>> /\ UNCHANGED <<todo, batch, queue, last, applied, gated, filtered>>
    BY <1>7 DEF FetchFails, drive, consumer, fates
  <2> QED BY <2>1, EmptyOrder, EmptyFacts DEF OrderInv, Fresh, Q
<1>8. CASE Crash
  <2>1. /\ acc' = <<>> /\ batch' = <<>> /\ queue' = <<>> /\ todo' = <<>>
    BY <1>8 DEF Crash
  <2> QED BY <2>1, EmptyOrder, EmptyFacts DEF OrderInv, Fresh
<1>9. CASE PollSend
  <2> DEFINE b == [from |-> from, to |-> pos, changes |-> batch]
  <2>1. /\ queue' = Append(queue, b) /\ batch' = <<>>
        /\ UNCHANGED <<todo, acc, last, applied, gated, filtered>>
    BY <1>9 DEF PollSend, drive, consumer, fates
  <2>2. b \in Batch /\ b.changes = batch BY DEF Batch, PollerOK
  <2> HIDE DEF b
  <2>3. /\ Len(queue') = Len(queue) + 1 /\ Len(queue) \in Nat
        /\ \A k \in 1..Len(queue) : Q(k)' = Q(k)
        /\ queue'[Len(queue) + 1].changes = batch
    BY <2>1, <2>2, AppendFacts DEF QueueOK, Q
  <2>4. \A k \in 1..Len(queue') : k \in 1..Len(queue) \/ k = Len(queue) + 1
    BY <2>3
  <2>5. \A k \in 1..Len(queue') :
          /\ Fresh(Q(k))' /\ Sorted(Q(k)')
          /\ Older(todo', Q(k)') /\ Older(Q(k)', batch') /\ Older(Q(k)', acc')
    <3> TAKE k \in 1..Len(queue')
    <3>1. CASE k \in 1..Len(queue)
      BY <2>1, <2>3, <3>1, EmptyOrder DEF OrderInv, Fresh
    <3>2. CASE k = Len(queue) + 1
      <4>1. Q(k)' = batch BY <2>3, <3>2 DEF Q
      <4> QED BY <2>1, <4>1, EmptyOrder DEF OrderInv, Fresh
    <3> QED BY <2>4, <3>1, <3>2
  <2>6. \A k, l \in 1..Len(queue') : k < l => Older(Q(k)', Q(l)')
    <3> TAKE k, l \in 1..Len(queue')
    <3> HAVE k < l
    <3>1. k \in 1..Len(queue) BY <2>3
    <3>2. CASE l \in 1..Len(queue) BY <2>3, <3>1, <3>2 DEF OrderInv
    <3>3. CASE l = Len(queue) + 1 BY <2>3, <3>1, <3>3 DEF OrderInv, Q
    <3> QED BY <2>4, <3>2, <3>3
  <2> QED BY <2>1, <2>5, <2>6, EmptyOrder DEF OrderInv, Fresh
<1>10. CASE Take
  <2>1. /\ queue # <<>> /\ queue' = Tail(queue) /\ todo' = Head(queue).changes
        /\ UNCHANGED <<batch, acc, last, applied, gated, filtered>>
    BY <1>10 DEF Take, drive, poller, fates
  <2>2. /\ Len(queue) \in Nat \ {0} /\ Len(queue') = Len(queue) - 1
        /\ todo' = Q(1) /\ 1 \in 1..Len(queue)
        /\ \A k \in 1..Len(queue') : Q(k)' = Q(k + 1) /\ k + 1 \in 1..Len(queue)
    BY <2>1, TailFacts DEF QueueOK, Q
  <2> QED BY <2>1, <2>2 DEF OrderInv, Fresh
<1>11. CASE PollerStep
  <2>1. CASE Resolve BY <2>1, <1>3, <1>4 DEF Resolve, drive, consumer
  <2> QED BY <1>11, <2>1, <1>1, <1>6, <1>9
      DEF PollerStep, PollStart, FetchLast, Resolved, drive, consumer, fates
<1>12. CASE ConsumerStep
  BY <1>12, <1>1, <1>5, <1>10 DEF ConsumerStep, Finish, drive, poller, fates
<1>13. CASE EnvStep
  BY <1>13, <1>2 DEF EnvStep, RemoteEdit, RemoteRemove, poller, consumer, fates
<1>14. CASE EngineStep
  <2>1. CASE OpWrite
    <3>1. opFile \in Files BY <2>1 DEF OpWrite, EngineOK
    <3> QED BY <2>1, <3>1, <1>2 DEF OpWrite, poller, consumer, fates
  <2> QED BY <1>14, <2>1, <1>1
      DEF EngineStep, OpBegin, OpMarkNew, OpEnd, drive, poller, consumer, fates
<1>15. CASE FaultStep
  <2>1. CASE LookupFails BY <2>1, <1>4 DEF LookupFails, drive, consumer
  <2> QED BY <1>15, <2>1, <1>1, <1>5, <1>7, <1>8
      DEF FaultStep, PollerDies, FinishFails, drive, poller, consumer, fates
<1>16. CASE UNCHANGED vars
  BY <1>16, <1>1 DEF vars, drive, poller, consumer, fates
<1> QED BY <1>11, <1>12, <1>13, <1>14, <1>15, <1>16 DEF Next

-----------------------------------------------------------------------------
LEMMA TokenStep ==
    ASSUME TypeOK, TokenInv, FeedInv, [Next]_vars
    PROVE  TokenInv'
<1> USE DEF TypeOK
<1>t. /\ cursor \in Nat /\ head \in Nat /\ from \in Nat /\ pos \in Nat /\ bound \in Nat
      /\ Len(queue) \in Nat
      /\ \A k \in 1..Len(queue) : queue[k].from \in Nat /\ queue[k].to \in Nat
  BY QueueTypes DEF DriveOK, PollerOK, ConsumerOK
<1>1. ASSUME UNCHANGED <<head, cursor, phase, from, pos, queue, applying, bound>>
      PROVE  TokenInv'
  BY <1>1 DEF TokenInv
<1>2. ASSUME head' = head + 1,
             UNCHANGED <<cursor, phase, from, pos, queue, applying, bound>>
      PROVE  TokenInv'
  BY <1>2, <1>t DEF TokenInv
<1>3. CASE PollStart
  BY <1>3, <1>t DEF PollStart, TokenInv, drive, consumer
<1>4. CASE FetchLast
  BY <1>4, <1>t DEF FetchLast, TokenInv, drive, consumer
<1>5. ASSUME NEW f \in Files, FetchPage(f) PROVE TokenInv'
  <2>1. /\ phase = "draining" /\ pos' = last[f] /\ last[f] <= head
        /\ UNCHANGED <<head, cursor, phase, from, queue, applying, bound>>
    BY <1>5 DEF FetchPage, FeedInv, drive, consumer
  <2> QED BY <2>1, <1>t DEF TokenInv
<1>6. CASE Resolved
  BY <1>6, <1>t DEF Resolved, TokenInv, drive, consumer
<1>7. CASE PollSend
  <2> DEFINE b == [from |-> from, to |-> pos, changes |-> batch]
  <2>1. /\ phase = "sending" /\ phase' = "idle" /\ from' = 0 /\ pos' = 0
        /\ queue' = Append(queue, b)
        /\ UNCHANGED <<head, cursor, applying, bound>>
    BY <1>7 DEF PollSend, drive, consumer
  <2>2. b \in Batch /\ b.from = from /\ b.to = pos BY DEF Batch, PollerOK
  <2> HIDE DEF b
  <2>3. /\ Len(queue') = Len(queue) + 1
        /\ \A k \in 1..Len(queue) : queue'[k] = queue[k]
        /\ queue'[Len(queue) + 1] = b
    BY <2>1, <2>2, AppendFacts DEF QueueOK
  <2>4. \A k \in 1..Len(queue') : k \in 1..Len(queue) \/ k = Len(queue) + 1
    BY <2>3, <1>t
  <2>5. \A k \in 1..Len(queue') :
           /\ queue'[k].from <= cursor /\ cursor <= queue'[k].to
           /\ queue'[k].to <= head /\ queue'[k].to <= pos
           /\ applying => bound <= queue'[k].to
    BY <2>1, <2>2, <2>3, <2>4, <1>t DEF TokenInv
  <2>6. \A k, l \in 1..Len(queue') : k < l => queue'[k].to <= queue'[l].to
    <3> TAKE k, l \in 1..Len(queue')
    <3> HAVE k < l
    <3>1. k \in 1..Len(queue) BY <2>3, <1>t
    <3>2. CASE l \in 1..Len(queue) BY <2>3, <3>1, <3>2 DEF TokenInv
    <3>3. CASE l = Len(queue) + 1 BY <2>2, <2>3, <2>5, <3>1, <3>3
    <3> QED BY <2>4, <3>2, <3>3
  <2> QED BY <2>1, <2>5, <2>6, <1>t DEF TokenInv
<1>8. CASE Take
  <2>1. /\ queue # <<>> /\ queue' = Tail(queue) /\ bound' = Head(queue).to /\ applying'
        /\ UNCHANGED <<head, cursor, phase, from, pos>>
    BY <1>8 DEF Take, drive, poller
  <2>2. /\ Len(queue) \in Nat \ {0} /\ Len(queue') = Len(queue) - 1
        /\ bound' = queue[1].to /\ 1 \in 1..Len(queue)
        /\ \A k \in 1..Len(queue') : queue'[k] = queue[k + 1] /\ k + 1 \in 1..Len(queue)
    BY <2>1, TailFacts DEF QueueOK
  <2> QED BY <2>1, <2>2, <1>t DEF TokenInv
<1>9. CASE Finish \/ FinishFails
  <2>1. /\ applying /\ ~applying' /\ bound' = 0 /\ cursor' \in {cursor, bound}
        /\ UNCHANGED <<head, phase, from, pos, queue>>
    BY <1>9 DEF Finish, FinishFails, drive, poller, ConsumerOK
  <2> QED BY <2>1, <1>t DEF TokenInv
<1>10. CASE FetchFails
  BY <1>10, <1>t DEF FetchFails, TokenInv, drive, consumer
<1>11. CASE PollerDies
  BY <1>11, <1>t DEF PollerDies, TokenInv, drive, consumer
<1>12. CASE Crash
  <2>1. /\ phase' = "idle" /\ from' = 0 /\ pos' = 0 /\ bound' = 0 /\ ~applying'
        /\ queue' = <<>> /\ UNCHANGED <<head, cursor>>
    BY <1>12 DEF Crash, drive
  <2> QED BY <2>1, <1>t, EmptyFacts DEF TokenInv
<1>13. CASE PollerStep
  BY <1>13, <1>1, <1>3, <1>4, <1>5, <1>6, <1>7 DEF PollerStep, Resolve, drive, consumer
<1>14. CASE ConsumerStep
  BY <1>14, <1>1, <1>8, <1>9 DEF ConsumerStep, Apply, drive, poller
<1>15. CASE EnvStep
  BY <1>15, <1>2 DEF EnvStep, RemoteEdit, RemoteRemove, Record, poller, consumer
<1>16. CASE EngineStep
  BY <1>16, <1>1, <1>2
  DEF EngineStep, OpBegin, OpWrite, OpMarkNew, OpEnd, Record, drive, poller, consumer
<1>17. CASE FaultStep
  BY <1>17, <1>1, <1>9, <1>10, <1>11, <1>12
  DEF FaultStep, LookupFails, ApplyFails, drive, poller, consumer
<1>18. CASE UNCHANGED vars
  BY <1>18, <1>1 DEF vars, drive, poller, consumer
<1> QED BY <1>13, <1>14, <1>15, <1>16, <1>17, <1>18 DEF Next

-----------------------------------------------------------------------------
(* What is settled stays settled until the file changes again.             *)
LEMMA SettledStep ==
    ASSUME TypeOK, OrderInv, FeedInv, [Next]_vars,
           NEW f \in Files, Settled(f), last'[f] = last[f]
    PROVE  Settled(f)'
<1> USE DEF TypeOK
<1>1. ASSUME UNCHANGED fates PROVE Settled(f)'
  BY <1>1 DEF Settled, fates
<1>2. ASSUME acc # <<>>, Skip, UNCHANGED <<applied, gated>> PROVE Settled(f)'
  <2>1. Head(acc) = acc[1] /\ 1 \in 1..Len(acc) /\ Head(acc) \in Entry
    BY <1>2, TailFacts DEF PollerOK
  <2>2. /\ Head(acc).file \in Files /\ Head(acc).ver \in Nat
        /\ filtered[Head(acc).file] <= Head(acc).ver
        /\ Head(acc).ver <= last[Head(acc).file]
    BY <2>1 DEF OrderInv, Entry, Fresh, FreshIn
  <2>3. CASE f = Head(acc).file /\ filtered[f] = last[f]
    <3>1. filtered'[f] = last[f]
      BY <1>2, <2>2, <2>3 DEF Skip, FatesOK, DriveOK
    <3> QED BY <3>1 DEF Settled
  <2>4. CASE f = Head(acc).file /\ filtered[f] # last[f]
    BY <1>2, <2>4 DEF Settled
  <2>5. CASE f # Head(acc).file
    BY <1>2, <2>2, <2>5 DEF Settled, Skip, FatesOK
  <2> QED BY <2>3, <2>4, <2>5
<1>3. CASE Apply
  <2> DEFINE e == Head(todo)
  <2>1. todo # <<>> /\ filtered' = filtered BY <1>3 DEF Apply
  <2>2. e = todo[1] /\ 1 \in 1..Len(todo) /\ e \in Entry
    BY <2>1, TailFacts DEF ConsumerOK
  <2>3. /\ e.file \in Files /\ e.ver \in Nat
        /\ applied[e.file] <= e.ver /\ gated[e.file] <= e.ver
        /\ e.ver <= last[e.file]
    BY <2>2 DEF OrderInv, Entry, Fresh, FreshIn
  <2>4. \/ applied' = [applied EXCEPT ![e.file] = e.ver] /\ gated' = gated
        \/ applied' = applied /\ gated' = [gated EXCEPT ![e.file] = e.ver]
    BY <1>3 DEF Apply
  <2> HIDE DEF e
  <2>5. applied[f] = last[f] => applied'[f] = last[f]
    BY <2>3, <2>4 DEF FatesOK, DriveOK
  <2>6. gated[f] = last[f] => gated'[f] = last[f]
    BY <2>3, <2>4 DEF FatesOK, DriveOK
  <2> QED BY <2>1, <2>5, <2>6 DEF Settled
<1>4. CASE PollerStep
  <2>1. CASE Resolve BY <2>1, <1>1, <1>2 DEF Resolve, Keep, fates
  <2> QED BY <1>4, <2>1, <1>1
      DEF PollerStep, PollStart, FetchLast, Resolved, PollSend, FetchPage
<1>5. CASE ConsumerStep BY <1>5, <1>1, <1>3 DEF ConsumerStep, Take, Finish
<1>6. CASE EnvStep BY <1>6, <1>1 DEF EnvStep, RemoteEdit, RemoteRemove
<1>7. CASE EngineStep
  BY <1>7, <1>1 DEF EngineStep, OpBegin, OpWrite, OpMarkNew, OpEnd
<1>8. CASE FaultStep
  <2>1. CASE LookupFails BY <2>1, <1>2 DEF LookupFails
  <2> QED BY <1>8, <2>1, <1>1
      DEF FaultStep, PollerDies, FetchFails, ApplyFails, FinishFails, Crash
<1>9. CASE UNCHANGED vars BY <1>9, <1>1 DEF vars
<1> QED BY <1>4, <1>5, <1>6, <1>7, <1>8, <1>9 DEF Next

-----------------------------------------------------------------------------
(* Listed(f, s) for the latest position l of f.                            *)
ListedIn(f, l, s) == \E i \in 1..Len(s) : s[i].file = f /\ s[i].ver = l

LEMMA ListedFacts ==
    ASSUME NEW f \in Files, NEW l \in Nat, NEW s \in Seq(Entry), NEW e \in Entry
    PROVE  /\ ListedIn(f, l, Append(s, e))
                <=> ListedIn(f, l, s) \/ (e.file = f /\ e.ver = l)
           /\ s # <<>> => (ListedIn(f, l, s) =>
                ListedIn(f, l, Tail(s)) \/ (Head(s).file = f /\ Head(s).ver = l))
           /\ ~ListedIn(f, l, <<>>)
<1>1. /\ Len(s) \in Nat /\ Len(Append(s, e)) = Len(s) + 1
      /\ \A i \in 1..Len(s) : Append(s, e)[i] = s[i]
      /\ Append(s, e)[Len(s) + 1] = e
      /\ \A i \in 1..Len(s) + 1 : i \in 1..Len(s) \/ i = Len(s) + 1
  BY AppendFacts
<1>2. ListedIn(f, l, Append(s, e)) => ListedIn(f, l, s) \/ (e.file = f /\ e.ver = l)
  BY <1>1 DEF ListedIn
<1>3. ListedIn(f, l, s) \/ (e.file = f /\ e.ver = l) => ListedIn(f, l, Append(s, e))
  <2>1. CASE ListedIn(f, l, s) BY <1>1, <2>1 DEF ListedIn
  <2>2. CASE e.file = f /\ e.ver = l
    <3>1. Len(s) + 1 \in 1..Len(Append(s, e)) BY <1>1
    <3> QED BY <1>1, <2>2, <3>1 DEF ListedIn
  <2> QED BY <2>1, <2>2
<1>4. ASSUME s # <<>>, NEW i \in 1..Len(s), s[i].file = f, s[i].ver = l, i # 1
      PROVE  ListedIn(f, l, Tail(s))
  <2>1. i - 1 \in 1..Len(Tail(s)) /\ Tail(s)[i - 1] = s[i]
    BY <1>4, TailFacts
  <2> QED BY <1>4, <2>1 DEF ListedIn
<1>5. s # <<>> => Head(s) = s[1] BY TailFacts
<1>6. ~ListedIn(f, l, <<>>) BY EmptyFacts DEF ListedIn
<1> QED BY <1>2, <1>3, <1>4, <1>5, <1>6 DEF ListedIn

LEMMA CoverStep ==
    ASSUME IInv, [Next]_vars
    PROVE  CoverInv'
<1> USE DEF IInv, TypeOK
<1>t. /\ todo \in Seq(Entry) /\ batch \in Seq(Entry) /\ acc \in Seq(Entry)
      /\ cursor \in Nat /\ head \in Nat /\ from \in Nat /\ pos \in Nat /\ bound \in Nat
      /\ Len(queue) \in Nat
      /\ \A f \in Files : last[f] \in Nat
      /\ \A k \in 1..Len(queue) : /\ Q(k) \in Seq(Entry)
                                  /\ queue[k].from \in Nat /\ queue[k].to \in Nat
  BY QueueTypes DEF DriveOK, PollerOK, ConsumerOK
<1>l. \A f, s : Listed(f, s) <=> ListedIn(f, last[f], s)
  BY DEF Listed, ListedIn
<1>m. ASSUME UNCHANGED last PROVE \A f, s : Listed(f, s)' <=> Listed(f, s)
  BY <1>m DEF Listed
<1>1. ASSUME UNCHANGED <<last, phase, from, pos, acc, batch, queue, applying, allApplied,
                         bound, todo, fates>>
      PROVE  CoverInv'
  BY <1>1 DEF CoverInv, Listed, Settled, Q, fates
<1>2. ASSUME NEW f \in Files, NEW w, NEW st, Record(f, w, st),
             UNCHANGED <<phase, from, pos, acc, batch, queue, applying, allApplied,
                         bound, todo, fates>>
      PROVE  CoverInv'
  <2>1. last'[f] = head + 1 /\ \A g \in Files : g # f => last'[g] = last[g]
    BY <1>2, RecordFacts
  <2>2. pos <= head /\ bound <= head /\ \A k \in 1..Len(queue) : queue[k].to <= head
    BY DEF TokenInv
  <2>3. /\ ~(last'[f] <= pos) /\ ~(last'[f] <= bound)
        /\ \A k \in 1..Len(queue) : ~(last'[f] <= queue[k].to)
    <3>1. \A x \in Nat : x <= head => ~(last'[f] <= x)
      BY <2>1, <1>t
    <3> QED BY <2>2, <3>1, <1>t
  <2>4. \A g \in Files : g # f =>
           /\ \A s : Listed(g, s)' <=> Listed(g, s)
           /\ Settled(g)' <=> Settled(g)
           /\ filtered'[g] = filtered[g]
    BY <1>2, <2>1 DEF Listed, Settled, fates
  <2> QED BY <1>2, <2>1, <2>3, <2>4 DEF CoverInv, Q
<1>3. ASSUME NEW f \in Files, FetchPage(f) PROVE CoverInv'
  <2> DEFINE e == [file |-> f, ver |-> last[f], removed |-> status[f] = "gone"]
  <2>1. /\ phase = "draining" /\ phase' = "draining" /\ NextInFeed(f)
        /\ acc' = Append(acc, e) /\ pos' = last[f]
        /\ UNCHANGED <<last, from, batch, queue, applying, allApplied, bound, todo, fates>>
    BY <1>3 DEF FetchPage, drive, consumer
  <2>2. e \in Entry /\ e.file = f /\ e.ver = last[f]
    BY DEF Entry, DriveOK
  <2> HIDE DEF e
  <2>3. \A g \in Files : from < last[g] /\ last[g] <= last[f] =>
           (from < last[g] /\ last[g] <= pos) \/ g = f
    <3> SUFFICES ASSUME NEW g \in Files, from < last[g], last[g] <= last[f],
                        ~(last[g] <= pos)
                 PROVE  g = f
      OBVIOUS
    <3>1. last[f] <= last[g] BY <2>1, <1>t DEF NextInFeed
    <3>2. last[f] = last[g] /\ last[g] > 0 BY <3>1, <1>t
    <3> QED BY <3>2 DEF FeedInv
  <2>4. \A g \in Files : from < last[g] /\ last[g] <= last[f] => Listed(g, Append(acc, e))
    BY <2>1, <2>2, <2>3, <1>t, <1>l, ListedFacts DEF CoverInv
  <2> QED BY <2>1, <2>4, <1>m DEF CoverInv, Settled, Q, fates
<1>4. CASE FetchLast
  <2>1. /\ phase = "draining" /\ phase' = "resolving"
        /\ \A f \in Files : last[f] <= pos
        /\ UNCHANGED <<last, from, acc, batch, queue, applying, allApplied, bound, todo, fates>>
    BY <1>4 DEF FetchLast, drive, consumer
  <2> QED BY <2>1, <1>m DEF CoverInv, Settled, Q, fates
<1>5. ASSUME phase = "resolving", phase' = phase, acc # <<>>, acc' = Tail(acc), Keep \/ Skip,
             UNCHANGED <<last, from, pos, queue, applying, allApplied, bound, todo,
                         applied, gated>>
      PROVE  CoverInv'
  <2> DEFINE e == Head(acc)
  <2>1. e \in Entry /\ e.file \in Files /\ e.ver \in Nat /\ e.ver <= last[e.file]
          /\ filtered[e.file] <= e.ver
    <3>1. e = acc[1] /\ 1 \in 1..Len(acc) /\ e \in Entry BY <1>5, <1>t, TailFacts
    <3> QED BY <3>1 DEF OrderInv, Entry, Fresh, FreshIn
  <2>2. \A g \in Files : Listed(g, acc) =>
           Listed(g, Tail(acc)) \/ (e.file = g /\ e.ver = last[g])
    BY <1>5, <1>t, <1>l, <2>1, ListedFacts
  <2>3. \/ batch' = Append(batch, e) /\ filtered' = filtered
        \/ batch' = batch /\ filtered' = [filtered EXCEPT ![e.file] = e.ver]
    BY <1>5 DEF Keep, Skip
  <2> HIDE DEF e
  <2>4. \A g \in Files : filtered[g] = last[g] => filtered'[g] = last[g]
    BY <2>1, <2>3 DEF FatesOK, DriveOK
  <2>5. \A g \in Files : Settled(g) => Settled(g)'
    BY <1>5, <2>4 DEF Settled
  <2>6. \A g \in Files : Listed(g, batch) => Listed(g, batch')
    <3>1. \A g \in Files : ListedIn(g, last[g], batch) =>
              ListedIn(g, last[g], Append(batch, e))
      BY <1>t, <2>1, ListedFacts
    <3> QED BY <1>l, <2>3, <3>1
  <2>7. \A g \in Files : e.file = g /\ e.ver = last[g] =>
           Listed(g, batch') \/ filtered'[g] = last[g]
    <3>1. \A g \in Files : e.file = g /\ e.ver = last[g] =>
              ListedIn(g, last[g], Append(batch, e))
      BY <1>t, <2>1, ListedFacts
    <3>2. CASE batch' = Append(batch, e) BY <1>l, <3>1, <3>2
    <3>3. CASE filtered' = [filtered EXCEPT ![e.file] = e.ver]
      BY <2>1, <3>3 DEF FatesOK
    <3> QED BY <2>3, <3>2, <3>3
  <2>8. \A g \in Files : Listed(g, acc) \/ Listed(g, batch) \/ filtered[g] = last[g] =>
           Listed(g, acc') \/ Listed(g, batch') \/ filtered'[g] = last[g]
    BY <1>5, <2>2, <2>4, <2>6, <2>7
  <2> QED BY <1>5, <2>4, <2>5, <2>8, <1>m DEF CoverInv, Q
<1>6. CASE Resolved
  <2>1. /\ phase = "resolving" /\ phase' = "sending" /\ acc = <<>>
        /\ UNCHANGED <<last, from, pos, acc, batch, queue, applying, allApplied, bound,
                       todo, fates>>
    BY <1>6 DEF Resolved, drive, consumer
  <2> QED BY <2>1, <1>m DEF CoverInv, Settled, Q, fates
<1>7. CASE PollSend
  <2> DEFINE b == [from |-> from, to |-> pos, changes |-> batch]
  <2>1. /\ phase = "sending" /\ phase' = "idle" /\ queue' = Append(queue, b)
        /\ batch' = <<>> /\ acc' = acc
        /\ UNCHANGED <<last, applying, allApplied, bound, todo, fates>>
    BY <1>7 DEF PollSend, drive, consumer
  <2>2. b \in Batch /\ b.from = from /\ b.to = pos /\ b.changes = batch
    BY DEF Batch, PollerOK
  <2> HIDE DEF b
  <2>3. /\ Len(queue') = Len(queue) + 1
        /\ \A k \in 1..Len(queue) : queue'[k] = queue[k]
        /\ queue'[Len(queue) + 1] = b
        /\ \A k \in 1..Len(queue') : k \in 1..Len(queue) \/ k = Len(queue) + 1
    BY <2>1, <2>2, AppendFacts, <1>t DEF QueueOK
  <2>4. acc = <<>> BY <2>1 DEF CoverInv
  <2>5. \A f \in Files : from < last[f] /\ last[f] <= pos =>
           Listed(f, batch) \/ filtered[f] = last[f]
    BY <2>1, <2>4, EmptyFacts DEF CoverInv, Listed
  <2>6. ASSUME NEW k \in 1..Len(queue'), NEW f \in Files,
               queue'[k].from < last[f], last[f] <= queue'[k].to
        PROVE  Listed(f, queue'[k].changes) \/ filtered[f] = last[f]
    <3>1. CASE k \in 1..Len(queue) BY <2>3, <2>6, <3>1 DEF CoverInv, Q
    <3>2. CASE k = Len(queue) + 1 BY <2>2, <2>3, <2>5, <2>6, <3>2
    <3> QED BY <2>3, <3>1, <3>2
  <2> QED BY <2>1, <2>4, <2>6, <1>m DEF CoverInv, Settled, Q, fates
<1>8. CASE Take
  <2>1. /\ queue # <<>> /\ queue' = Tail(queue) /\ applying' /\ allApplied'
        /\ bound' = Head(queue).to /\ todo' = Head(queue).changes
        /\ UNCHANGED <<last, phase, from, pos, acc, batch, fates>>
    BY <1>8 DEF Take, drive, poller
  <2>2. /\ Len(queue) \in Nat \ {0} /\ Len(queue') = Len(queue) - 1
        /\ bound' = queue[1].to /\ todo' = Q(1) /\ 1 \in 1..Len(queue)
        /\ \A k \in 1..Len(queue') : queue'[k] = queue[k + 1] /\ k + 1 \in 1..Len(queue)
    BY <2>1, TailFacts DEF QueueOK, Q
  <2>3. queue[1].from <= cursor BY <2>2 DEF TokenInv
  <2>4. \A f \in Files : last[f] <= queue[1].to => Listed(f, Q(1)) \/ Settled(f)
    <3> TAKE f \in Files
    <3> HAVE last[f] <= queue[1].to
    <3>1. CASE last[f] <= cursor BY <3>1 DEF CursorPassesOnlySettled
    <3>2. CASE queue[1].from < last[f] BY <2>2, <3>2 DEF CoverInv, Settled
    <3> QED BY <1>t, <2>2, <2>3, <3>1, <3>2
  <2>5. \A k \in 1..Len(queue') : \A f \in Files :
           queue'[k].from < last[f] /\ last[f] <= queue'[k].to =>
             Listed(f, queue'[k].changes) \/ filtered[f] = last[f]
    BY <2>2 DEF CoverInv, Q
  <2> QED BY <2>1, <2>2, <2>4, <2>5, <1>m DEF CoverInv, Settled, Q, fates
<1>9. CASE Apply
  <2> DEFINE e == Head(todo)
  <2>1. /\ applying /\ todo # <<>> /\ todo' = Tail(todo)
        /\ UNCHANGED <<last, phase, from, pos, acc, batch, queue, applying, allApplied,
                       bound, filtered>>
    BY <1>9 DEF Apply, drive, poller
  <2>2. e \in Entry /\ e.file \in Files /\ e.ver \in Nat
    <3>1. Head(todo) \in Entry BY <1>t, <2>1, TailFacts
    <3> QED BY <3>1 DEF Entry
  <2>3. \/ applied' = [applied EXCEPT ![e.file] = e.ver]
        \/ gated' = [gated EXCEPT ![e.file] = e.ver]
    BY <1>9 DEF Apply
  <2>4. \A f \in Files : Listed(f, todo) =>
           Listed(f, Tail(todo)) \/ (e.file = f /\ e.ver = last[f])
    BY <1>t, <1>l, <2>1, <2>2, ListedFacts
  <2> HIDE DEF e
  <2>5. \A f \in Files : e.file = f /\ e.ver = last[f] => Settled(f)'
    BY <2>1, <2>2, <2>3 DEF Settled, FatesOK
  <2>6. \A f \in Files : Settled(f) => Settled(f)'
    BY <2>1, SettledStep
  <2> QED BY <2>1, <2>4, <2>5, <2>6, <1>m DEF CoverInv, Q
<1>10. CASE ApplyFails
  <2>1. /\ ~allApplied'
        /\ UNCHANGED <<last, phase, from, pos, acc, batch, queue, applying, bound, fates>>
    BY <1>10 DEF ApplyFails, drive, poller
  <2> QED BY <2>1, <1>m DEF CoverInv, Q, fates
<1>11. CASE Finish \/ FinishFails
  <2>1. ~applying' /\ UNCHANGED <<last, phase, from, pos, acc, batch, queue, fates>>
    BY <1>11 DEF Finish, FinishFails, drive, poller
  <2> QED BY <2>1, <1>m DEF CoverInv, Q, fates
<1>12. CASE FetchFails
  <2>1. /\ phase = "draining" /\ phase' = "idle" /\ acc' = <<>>
        /\ UNCHANGED <<last, batch, queue, applying, allApplied, bound, todo, fates>>
    BY <1>12 DEF FetchFails, drive, consumer
  <2> QED BY <2>1, <1>m DEF CoverInv, Settled, Q, fates
<1>13. CASE Crash
  <2>1. /\ phase' = "idle" /\ acc' = <<>> /\ batch' = <<>> /\ queue' = <<>> /\ ~applying'
    BY <1>13 DEF Crash
  <2> QED BY <2>1, EmptyFacts DEF CoverInv
<1>14. CASE PollStart
  <2>1. /\ phase = "idle" /\ phase' = "draining" /\ from' = cursor /\ pos' = cursor
        /\ UNCHANGED <<last, acc, batch, queue, applying, allApplied, bound, todo, fates>>
    BY <1>14 DEF PollStart, drive, consumer
  <2> QED BY <2>1, <1>t, <1>m DEF CoverInv, Settled, Q, fates
<1>15. CASE PollerDies
  <2>1. /\ phase = "idle" /\ phase' = "dead"
        /\ UNCHANGED <<last, from, pos, acc, batch, queue, applying, allApplied, bound,
                       todo, fates>>
    BY <1>15 DEF PollerDies, drive, consumer
  <2> QED BY <2>1, <1>m DEF CoverInv, Settled, Q, fates
<1>16. CASE PollerStep
  <2>1. CASE Resolve BY <2>1, <1>5 DEF Resolve, drive, consumer
  <2> QED BY <1>16, <2>1, <1>3, <1>4, <1>6, <1>7, <1>14 DEF PollerStep
<1>17. CASE ConsumerStep BY <1>17, <1>8, <1>9, <1>11 DEF ConsumerStep
<1>18. CASE EnvStep
  BY <1>18, <1>2 DEF EnvStep, RemoteEdit, RemoteRemove, poller, consumer
<1>19. CASE EngineStep
  <2>1. CASE OpWrite
    <3>1. opFile \in Files BY <2>1 DEF OpWrite, EngineOK
    <3> QED BY <2>1, <3>1, <1>2 DEF OpWrite, poller, consumer
  <2> QED BY <1>19, <2>1, <1>1
      DEF EngineStep, OpBegin, OpMarkNew, OpEnd, drive, poller, consumer
<1>20. CASE FaultStep
  <2>1. CASE LookupFails BY <2>1, <1>5 DEF LookupFails, drive, consumer
  <2> QED BY <1>20, <2>1, <1>10, <1>11, <1>12, <1>13, <1>15 DEF FaultStep
<1>21. CASE UNCHANGED vars BY <1>21, <1>1 DEF vars, drive, poller, consumer
<1> QED BY <1>16, <1>17, <1>18, <1>19, <1>20, <1>21 DEF Next

-----------------------------------------------------------------------------
(* Only Finish moves the cursor, to the token of a batch applied entirely. *)
LEMMA CursorMoves ==
    ASSUME IInv, [Next]_vars
    PROVE  \/ cursor' = cursor
           \/ /\ cursor' = bound /\ cursor <= bound /\ bound <= head
              /\ \A f \in Files : last[f] <= bound => Settled(f)
              /\ UNCHANGED <<head, last, fates>>
<1>1. CASE Finish /\ allApplied
  <2>1. /\ applying /\ todo = <<>> /\ cursor' = bound /\ UNCHANGED <<head, last, fates>>
    BY <1>1 DEF Finish, drive
  <2>2. \A f \in Files : ~Listed(f, todo) BY <2>1, EmptyFacts DEF Listed
  <2>3. \A f \in Files : last[f] <= bound => Settled(f)
    BY <1>1, <2>1, <2>2 DEF IInv, CoverInv
  <2> QED BY <2>1, <2>3 DEF IInv, TokenInv
<1>2. CASE ~(Finish /\ allApplied)
  <2>1. CASE PollerStep
    BY <2>1 DEF PollerStep, PollStart, FetchLast, Resolve, Resolved, PollSend, FetchPage
  <2>2. CASE ConsumerStep BY <1>2, <2>2 DEF ConsumerStep, Take, Apply, Finish
  <2>3. CASE EnvStep BY <2>3 DEF EnvStep, RemoteEdit, RemoteRemove
  <2>4. CASE EngineStep BY <2>4 DEF EngineStep, OpBegin, OpWrite, OpMarkNew, OpEnd
  <2>5. CASE FaultStep
    BY <2>5 DEF FaultStep, PollerDies, FetchFails, LookupFails, ApplyFails,
                FinishFails, Crash
  <2>6. CASE UNCHANGED vars BY <2>6 DEF vars
  <2> QED BY <2>1, <2>2, <2>3, <2>4, <2>5, <2>6 DEF Next
<1> QED BY <1>1, <1>2

(* A step either leaves a file's latest change alone or makes a newer one. *)
LEMMA LastMoves ==
    ASSUME IInv, [Next]_vars
    PROVE  \/ UNCHANGED <<head, last>>
           \/ \E f \in Files : /\ head' = head + 1
                               /\ last' = [last EXCEPT ![f] = head + 1]
                               /\ UNCHANGED <<cursor, fates>>
<1>1. CASE PollerStep
  BY <1>1 DEF PollerStep, PollStart, FetchLast, Resolve, Resolved, PollSend, FetchPage, drive
<1>2. CASE ConsumerStep BY <1>2 DEF ConsumerStep, Take, Apply, Finish, drive
<1>3. CASE EnvStep BY <1>3 DEF EnvStep, RemoteEdit, RemoteRemove, Record
<1>4. CASE EngineStep
  <2>1. CASE OpWrite
    <3>1. opFile \in Files BY <2>1 DEF OpWrite, IInv, TypeOK, EngineOK
    <3> QED BY <2>1, <3>1 DEF OpWrite, Record
  <2> QED BY <1>4, <2>1 DEF EngineStep, OpBegin, OpMarkNew, OpEnd, drive
<1>5. CASE FaultStep
  BY <1>5 DEF FaultStep, PollerDies, FetchFails, LookupFails, ApplyFails,
              FinishFails, Crash, drive
<1>6. CASE UNCHANGED vars BY <1>6 DEF vars, drive
<1> QED BY <1>1, <1>2, <1>3, <1>4, <1>5, <1>6 DEF Next

LEMMA CursorStep ==
    ASSUME IInv, [Next]_vars
    PROVE  CursorPassesOnlySettled'
<1> USE DEF IInv, TypeOK
<1> SUFFICES ASSUME NEW f \in Files, last'[f] <= cursor' PROVE Settled(f)'
    BY DEF CursorPassesOnlySettled
<1>t. last[f] \in Nat /\ last'[f] \in Nat /\ cursor \in Nat /\ head \in Nat
  <2>1. TypeOK' BY TypeStep
  <2> QED BY <2>1 DEF DriveOK
<1>1. last'[f] = last[f]
  <2>1. CASE UNCHANGED last BY <2>1
  <2>2. ASSUME NEW g \in Files, head' = head + 1, cursor' = cursor,
               last' = [last EXCEPT ![g] = head + 1]
        PROVE  last'[f] = last[f]
    BY <2>2, <1>t DEF DriveOK, TokenInv
  <2> QED BY <2>1, <2>2, LastMoves
<1>2. Settled(f)
  BY <1>1, CursorMoves DEF CursorPassesOnlySettled
<1> QED BY <1>1, <1>2, SettledStep

LEMMA InitInv == Init => IInv
<1> SUFFICES ASSUME Init PROVE IInv
    OBVIOUS
<1>1. TypeOK
  <2>1. DriveOK /\ EngineOK /\ FatesOK
    BY DEF Init, DriveOK, EngineOK, FatesOK
  <2>2. PollerOK /\ ConsumerOK BY EmptyFacts DEF Init, PollerOK, ConsumerOK
  <2>3. QueueOK BY EmptyFacts, FeedAssumption DEF Init, QueueOK
  <2> QED BY <2>1, <2>2, <2>3, FeedAssumption DEF Init, TypeOK
<1>2. OrderInv BY EmptyOrder, EmptyFacts DEF Init, OrderInv, Fresh
<1>3. FeedInv BY DEF Init, FeedInv
<1>4. TokenInv BY EmptyFacts DEF Init, TokenInv
<1>5. \A f \in Files : Settled(f) BY DEF Init, Settled
<1>6. CoverInv BY <1>5, EmptyFacts DEF Init, CoverInv
<1> QED BY <1>1, <1>2, <1>3, <1>4, <1>5, <1>6 DEF IInv, CursorPassesOnlySettled

LEMMA InvStep == IInv /\ [Next]_vars => IInv'
<1> SUFFICES ASSUME IInv, [Next]_vars PROVE IInv'
    OBVIOUS
<1>1. TypeOK' BY TypeStep DEF IInv
<1>2. OrderInv' BY OrderStep DEF IInv
<1>3. FeedInv' BY FeedStep DEF IInv
<1>4. TokenInv' BY TokenStep DEF IInv
<1>5. CoverInv' BY CoverStep
<1>6. CursorPassesOnlySettled' BY CursorStep
<1> QED BY <1>1, <1>2, <1>3, <1>4, <1>5, <1>6 DEF IInv

LEMMA Invariance == Spec => []IInv
BY InitInv, InvStep, PTL DEF Spec

-----------------------------------------------------------------------------
(* daemon/mod.rs:222-230: the cursor never passes a change that has not    *)
(* been applied, gated or left out of its batch.                           *)
THEOREM CursorSafe == Spec => []CursorPassesOnlySettled
<1>1. IInv => CursorPassesOnlySettled BY DEF IInv
<1> QED BY Invariance, <1>1, PTL

(* drive/changes.rs:118-250: neither the cursor nor what apply_remote sees *)
(* of a file ever goes back, however batches overlap.                      *)
THEOREM NeverBack == Spec => NoStepBack
<1>1. ASSUME IInv, [Next]_vars
      PROVE  [cursor' >= cursor /\ \A f \in Files : applied'[f] >= applied[f]]_vars
  <2>t. /\ cursor \in Nat /\ bound \in Nat
        /\ \A f \in Files : applied[f] \in Nat
    BY <1>1 DEF IInv, TypeOK, FatesOK, ConsumerOK
  <2>1. cursor' >= cursor BY <1>1, <2>t, CursorMoves
  <2>2. CASE Apply
    <3>1. Head(todo) = todo[1] /\ 1 \in 1..Len(todo) /\ Head(todo) \in Entry
      BY <1>1, <2>2, TailFacts DEF Apply, IInv, TypeOK, ConsumerOK
    <3>2. Head(todo).file \in Files /\ Head(todo).ver \in Nat
            /\ applied[Head(todo).file] <= Head(todo).ver
      BY <1>1, <3>1 DEF IInv, OrderInv, Fresh, FreshIn, Entry
    <3>3. \A f \in Files :
             applied'[f] = applied[f]
               \/ (f = Head(todo).file /\ applied'[f] = Head(todo).ver)
      BY <1>1, <2>2, <3>2 DEF Apply, IInv, TypeOK, FatesOK
    <3> QED BY <2>1, <2>t, <3>2, <3>3
  <2>3. CASE UNCHANGED applied BY <2>1, <2>3, <2>t
  <2>4. Apply \/ UNCHANGED applied
    BY <1>1
    DEF Next, vars, fates, PollerStep, PollStart, FetchLast, Resolve, Resolved, PollSend,
        FetchPage, ConsumerStep, Take, Finish, EnvStep, RemoteEdit, RemoteRemove,
        EngineStep, OpBegin, OpWrite, OpMarkNew, OpEnd, FaultStep, PollerDies,
        FetchFails, LookupFails, ApplyFails, FinishFails, Crash
  <2> QED BY <2>2, <2>3, <2>4
<1> QED BY Invariance, <1>1, PTL DEF Spec, NoStepBack

(* An operation on a known id has it marked from its first step to its     *)
(* last (daemon/in_flight.rs:5-20, daemon/runtime.rs).                     *)
Guarded == updating => marked

LEMMA StaysGuarded == Guarded /\ [Next]_vars => Guarded'
<1> SUFFICES ASSUME Guarded, [Next]_vars PROVE Guarded'
  OBVIOUS
<1>1. CASE \E f \in Files : OpBegin(f)
  BY <1>1 DEF OpBegin, Guarded
<1>2. CASE OpMarkNew \/ OpEnd \/ Crash
  BY <1>2 DEF OpMarkNew, OpEnd, Crash, Guarded
<1>3. CASE UNCHANGED <<updating, marked>>
  BY <1>3 DEF Guarded
<1> QED BY <1>1, <1>2, <1>3
  DEF Next, vars, engine, PollerStep, PollStart, FetchLast, Resolve, Resolved, PollSend,
      FetchPage, ConsumerStep, Take, Apply, Finish, EnvStep, RemoteEdit, RemoteRemove,
      EngineStep, OpWrite, FaultStep, PollerDies, FetchFails, LookupFails, ApplyFails,
      FinishFails

(* daemon/in_flight.rs:5-20: while an update is under way apply_remote     *)
(* takes no change of its file, its own echo included.                     *)
THEOREM EchoWaits == Spec => EchoWaitsForFingerprint
<1>1. Init => Guarded
  BY DEF Init, Guarded
<1>2. ASSUME IInv, Guarded, [Next]_vars
      PROVE  [\A f \in Files :
                (applied'[f] # applied[f] /\ applied'[f] = last[f] /\ author[f] = "daemon")
                   => ~(opFile = f /\ updating /\ wrote)]_vars
  <2>1. CASE UNCHANGED applied BY <2>1
  <2>2. CASE Apply
    <3> SUFFICES ASSUME NEW f \in Files, applied'[f] # applied[f] PROVE ~(opFile = f /\ updating)
      OBVIOUS
    <3>1. ~InFlight(f)
      BY <1>2, <2>2 DEF Apply, IInv, TypeOK, FatesOK
    <3> QED BY <1>2, <3>1 DEF InFlight, Guarded
  <2>3. Apply \/ UNCHANGED applied
    BY <1>2
    DEF Next, vars, fates, PollerStep, PollStart, FetchLast, Resolve, Resolved, PollSend,
        FetchPage, ConsumerStep, Take, Finish, EnvStep, RemoteEdit, RemoteRemove,
        EngineStep, OpBegin, OpWrite, OpMarkNew, OpEnd, FaultStep, PollerDies,
        FetchFails, LookupFails, ApplyFails, FinishFails, Crash
  <2> QED BY <2>1, <2>2, <2>3
<1> QED BY Invariance, StaysGuarded, <1>1, <1>2, PTL DEF Spec, EchoWaitsForFingerprint

(* ChangeFeed implements RemoteFeed. *)
THEOREM ImplementsFeed == Spec => FeedSpec
<1>1. Init => Feed!Init
  BY DEF Init, Feed!Init, Settled
<1>2. ASSUME IInv, [Next]_vars PROVE [Feed!Next]_(Feed!feedVars)
  <2> DEFINE done == {f \in Files : Settled(f)}
  <2>t. /\ cursor \in Nat /\ head \in Nat /\ bound \in Nat /\ last \in [Files -> Nat]
        /\ \A f \in Files : last[f] <= head
    BY <1>2 DEF IInv, TypeOK, ConsumerOK, DriveOK, FeedInv
  <2>1. ASSUME NEW f \in Files, head' = head + 1, last' = [last EXCEPT ![f] = head + 1],
               UNCHANGED <<cursor, fates>>
        PROVE  Feed!Change(f)
    <3>1. applied[f] <= head /\ gated[f] <= head /\ filtered[f] <= head
            /\ applied[f] \in Nat /\ gated[f] \in Nat /\ filtered[f] \in Nat
      BY <1>2, <2>t DEF IInv, FeedInv, TypeOK, FatesOK, DriveOK
    <3>2. last'[f] = head + 1 /\ \A g \in Files : g # f => last'[g] = last[g]
      BY <2>1, <2>t
    <3>3. ~Settled(f)' BY <2>1, <2>t, <3>1, <3>2 DEF Settled, fates
    <3>4. \A g \in Files : g # f => (Settled(g)' <=> Settled(g))
      BY <2>1, <3>2 DEF Settled, fates
    <3>5. done' = done \ {f} BY <3>3, <3>4
    <3> QED BY <2>1, <3>5 DEF Feed!Change
  <2>2. ASSUME UNCHANGED <<head, last>>, cursor' = cursor
        PROVE  (\E f \in Files : Feed!Settle(f)) \/ UNCHANGED Feed!feedVars
    <3>1. \A f \in Files : Settled(f) => Settled(f)'
      BY <1>2, <2>2, SettledStep DEF IInv
    <3>2. \E f \in Files : \A g \in Files : g # f => (Settled(g)' <=> Settled(g))
      <4>1. CASE UNCHANGED fates
        BY <2>2, <4>1, FeedAssumption DEF Settled, fates
      <4>2. CASE Apply
        <5>1. Head(todo) \in Entry
          BY <1>2, <4>2, TailFacts DEF Apply, IInv, TypeOK, ConsumerOK
        <5>2. Head(todo).file \in Files /\ Head(todo).ver \in Nat BY <5>1 DEF Entry
        <5>3. \A g \in Files : g # Head(todo).file =>
                 applied'[g] = applied[g] /\ gated'[g] = gated[g] /\ filtered'[g] = filtered[g]
          BY <1>2, <4>2, <5>2 DEF Apply, IInv, TypeOK, FatesOK
        <5> QED BY <2>2, <5>2, <5>3 DEF Settled
      <4>3. ASSUME acc # <<>>, Skip, UNCHANGED <<applied, gated>>
            PROVE  \E f \in Files : \A g \in Files : g # f => (Settled(g)' <=> Settled(g))
        <5>1. Head(acc) \in Entry
          BY <1>2, <4>3, TailFacts DEF IInv, TypeOK, PollerOK
        <5>2. Head(acc).file \in Files /\ Head(acc).ver \in Nat BY <5>1 DEF Entry
        <5>3. \A g \in Files : g # Head(acc).file => filtered'[g] = filtered[g]
          BY <1>2, <4>3, <5>2 DEF Skip, IInv, TypeOK, FatesOK
        <5> QED BY <2>2, <4>3, <5>2, <5>3 DEF Settled
      <4>4. \/ UNCHANGED fates \/ Apply
            \/ acc # <<>> /\ Skip /\ UNCHANGED <<applied, gated>>
        BY <1>2
        DEF Next, vars, fates, PollerStep, PollStart, FetchLast, Resolve, Keep, Resolved,
            PollSend, FetchPage, ConsumerStep, Take, Finish, EnvStep, RemoteEdit,
            RemoteRemove, EngineStep, OpBegin, OpWrite, OpMarkNew, OpEnd, FaultStep,
            PollerDies, FetchFails, LookupFails, ApplyFails, FinishFails, Crash
      <4> QED BY <4>1, <4>2, <4>3, <4>4
    <3>3. PICK f \in Files : \A g \in Files : g # f => (Settled(g)' <=> Settled(g))
      BY <3>2
    <3>4. done' \in {done, done \cup {f}} BY <3>1, <3>3
    <3> QED BY <2>2, <3>4 DEF Feed!Settle, Feed!feedVars
  <2>3. ASSUME cursor' = bound, cursor <= bound, bound <= head,
               \A f \in Files : last[f] <= bound => Settled(f),
               UNCHANGED <<head, last, fates>>
        PROVE  Feed!Advance
    <3>1. bound \in cursor..head BY <2>t, <2>3
    <3>2. \A f \in Files : last[f] \in cursor+1..bound => f \in done
      BY <2>t, <2>3
    <3>3. done' = done BY <2>3 DEF Settled, fates
    <3> QED BY <2>3, <3>1, <3>2, <3>3 DEF Feed!Advance
  <2>4. CASE UNCHANGED <<head, last>>
    BY <1>2, <2>2, <2>3, <2>4, CursorMoves DEF Feed!Next
  <2>5. CASE \E f \in Files : /\ head' = head + 1 /\ last' = [last EXCEPT ![f] = head + 1]
                              /\ UNCHANGED <<cursor, fates>>
    BY <2>1, <2>5 DEF Feed!Next
  <2> QED BY <1>2, <2>4, <2>5, LastMoves
<1> QED BY Invariance, <1>1, <1>2, PTL DEF Spec, FeedSpec, Feed!Spec
=============================================================================
