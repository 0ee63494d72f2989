-------------------------- MODULE LocalSideProofs --------------------------
(***************************************************************************)
(* Proofs about the local side of the daemon: the queue the reconcilers    *)
(* fill and its dispatcher, then the watcher and the debouncer that tell   *)
(* the local reconciler what happened.  The two specifications stand side  *)
(* by side, each with its own Init and Next.                               *)
(*                                                                         *)
(* Of Dispatcher, for every number of operations, attempts and failures,   *)
(* every delay after an auth failure and every set of uploads: its types,  *)
(* the retry budget, the order of fresh operations, that an auth failure   *)
(* stops the queue, that a linked upload makes no copy, and that it        *)
(* implements OpQueue.                                                     *)
(*                                                                         *)
(* Of LocalEvents, for any files and folders of one level, any edits and   *)
(* any capacity: its types, and that Drive mirrors the tree at rest.  The  *)
(* first rests on what a filter leaves of a sequence; the second, on what  *)
(* is said of a path anywhere between inotify's queue and the reconciler   *)
(* (its words): the newest is right, a half of a rename stands alone, and  *)
(* a folder without a watch is going to be walked.  Last, that ignored     *)
(* files stay local.                                                       *)
(***************************************************************************)
EXTENDS Dispatcher, LocalEvents, QueuesProofs, FiniteSetTheorems

-----------------------------------------------------------------------------
(* The dispatcher: its inductive invariant.                                *)

(* A row is due, waiting or parked, and due once.                          *)
ScheduleInv ==
    /\ \A i, j \in 1..Len(due) : i # j => due[i] # due[j]
    /\ \A i \in 1..Len(due) : wait[due[i]] = 0 /\ due[i] \notin parked
    /\ \A o \in Waiting : o \notin parked /\ o <= born

(* What the counters say of an operation: while it is queued, only faults  *)
(* set its executions and its recorded attempts apart.                     *)
BudgetInv ==
    /\ \A o \in OpId : o \notin parked => /\ attempts[o] <= MaxAttempts
                                          /\ attempts[o] <= tries[o]
    /\ \A o \in Pending : (pc \in Busy /\ o = Cur) \/ tries[o] <= attempts[o] + faults
    /\ \A o \in OpId : o > born => tries[o] = 0 /\ attempts[o] = 0

(* The operation being executed is the first one due, within its budget.   *)
BusyInv ==
    /\ pc \in Busy => /\ due # <<>>
                      /\ attempts[Cur] < MaxAttempts
                      /\ attempts[Cur] < tries[Cur]
                      /\ tries[Cur] <= attempts[Cur] + 1 + faults
    /\ pc \in {"recording", "deleting"} => Cur \in performed
    /\ pc = "linking" => CreatesFile

(* A block that held since an auth failure keeps the loop out of its inner *)
(* loop.                                                                   *)
HeldInv == held => blocked \in Terminal /\ pc \notin Busy \cup {"drain"}

IInv == /\ TypeOK /\ ScheduleInv /\ BudgetInv /\ BusyInv /\ HeldInv
        /\ FreshInOrder /\ RetryBudget

-----------------------------------------------------------------------------
(* Facts about sequences.                                                  *)

LEMMA SeqFacts ==
    ASSUME NEW S, NEW s \in Seq(S)
    PROVE  /\ Len(s) \in Nat /\ DOMAIN s = 1..Len(s)
           /\ \A i \in 1..Len(s) : s[i] \in S
           /\ (s = <<>>) <=> (Len(s) = 0)
    OBVIOUS

LEMMA TailFacts ==
    ASSUME NEW S, NEW s \in Seq(S), s # <<>>
    PROVE  /\ Head(s) \in S /\ Head(s) = s[1]
           /\ Tail(s) \in Seq(S)
           /\ Len(s) \in Nat \ {0} /\ Len(Tail(s)) = Len(s) - 1
           /\ \A i \in 1..Len(s) - 1 : Tail(s)[i] = s[i + 1]
    OBVIOUS

LEMMA AppendFacts ==
    ASSUME NEW S, NEW s \in Seq(S), NEW e \in S
    PROVE  /\ Append(s, e) \in Seq(S)
           /\ Len(s) \in Nat /\ Len(Append(s, e)) = Len(s) + 1
           /\ \A i \in 1..Len(s) : Append(s, e)[i] = s[i]
           /\ Append(s, e)[Len(s) + 1] = e
    OBVIOUS

LEMMA ConcatFacts ==
    ASSUME NEW S, NEW s \in Seq(S), NEW t \in Seq(S)
    PROVE  /\ s \o t \in Seq(S)
           /\ Len(s) \in Nat /\ Len(t) \in Nat /\ Len(s \o t) = Len(s) + Len(t)
           /\ \A i \in 1..Len(s) : (s \o t)[i] = s[i]
           /\ \A i \in 1..Len(t) : (s \o t)[Len(s) + i] = t[i]
    OBVIOUS

LEMMA FunctionIsSeq ==
    ASSUME NEW S, NEW n \in Nat, NEW s \in [1..n -> S]
    PROVE  s \in Seq(S) /\ Len(s) = n
    OBVIOUS

-----------------------------------------------------------------------------
(* What a step does to the rows: nothing, an insertion, a second passing,  *)
(* or the first row due moves on.                                          *)

Dropped == due # <<>> /\ due' = Tail(due) /\ born' = born

Rescheduled == Dropped /\ \E d \in Nat \ {0} : Reschedule(d)

LEMMA BackoffFacts == \A n : Backoff(n) \subseteq Nat \ {0}
    BY DEF Backoff

LEMMA RowEffects ==
    ASSUME TypeOK, [Next]_vars
    PROVE  \/ UNCHANGED <<born, rows>>
           \/ Enqueue \/ Tick \/ Rescheduled \/ Park \/ DeleteRow
<1>1. CASE RecordIdFails
  <2>1. due # <<>> /\ born' = born /\ due # <<>>
    BY <1>1 DEF RecordIdFails, TypeOK, Busy
  <2>2. UNCHANGED rows \/ \E d \in Backoff(attempts[Cur] + 1) : Reschedule(d)
    BY <1>1 DEF RecordIdFails
  <2> QED BY <2>1, <2>2, BackoffFacts DEF Rescheduled, Dropped, Reschedule
<1>2. CASE ExecuteFails
  <2>1. /\ due # <<>> /\ born' = born
        /\ \E d \in Backoff(attempts[Cur] + 1) : Reschedule(d)
    BY <1>2 DEF ExecuteFails, TypeOK, Busy
  <2> QED BY <2>1, BackoffFacts DEF Rescheduled, Dropped, Reschedule
<1>3. CASE AuthFails \/ AuthUnrecorded
  <2>1. due # <<>> /\ born' = born
    BY <1>3 DEF AuthFails, AuthUnrecorded, TypeOK, Busy
  <2>2. UNCHANGED rows \/ Reschedule(AuthDelay)
    BY <1>3 DEF AuthFails, AuthUnrecorded
  <2> QED BY <2>1, <2>2, DispatcherAssumption DEF Rescheduled, Dropped, Reschedule
<1>4. CASE Poll \/ Link \/ PauseResume \/ Signal \/ ExitDead \/ Start
  BY <1>4 DEF Poll, Link, PauseResume, Signal, ExitDead, Start, Goto
<1>5. CASE ReadPause \/ LeavePause \/ ReadBlock \/ EndNap \/ NothingDue \/ Wake
  BY <1>5 DEF ReadPause, LeavePause, ReadBlock, EndNap, NothingDue, Wake, Goto
<1>6. CASE Select \/ ExecuteOk \/ UploadNew \/ RecordId \/ RecordSuccess
  BY <1>6 DEF Select, ExecuteOk, UploadNew, RecordId, RecordSuccess
<1>7. CASE ParkFails \/ MarkFails \/ SuccessUnrecorded \/ DeleteFails \/ Dies \/ Abort \/ Crash
  BY <1>7 DEF ParkFails, MarkFails, SuccessUnrecorded, DeleteFails, Dies, Abort, Crash
<1>8. CASE UNCHANGED vars BY <1>8 DEF vars
<1> QED BY <1>1, <1>2, <1>3, <1>4, <1>5, <1>6, <1>7, <1>8
        DEF Next, LoopStep, OtherStep, ProcessStep, FaultStep

(* A second passing appends rows that waited; the order of those already   *)
(* due is kept.                                                            *)
LEMMA TickFacts ==
    ASSUME TypeOK, ScheduleInv, Tick
    PROVE  /\ due' \in Seq(1..born) /\ Len(due) <= Len(due')
           /\ \A i \in 1..Len(due) : due'[i] = due[i]
           /\ \A i \in Len(due) + 1..Len(due') : due'[i] \in Expiring
           /\ \A i, j \in Len(due) + 1..Len(due') : i < j => due'[i] < due'[j]
           /\ \A o \in Expiring : \E i \in Len(due) + 1..Len(due') : due'[i] = o
<1>1. Expiring \subseteq 1..born
  BY DEF Expiring, Waiting, ScheduleInv, OpId, TypeOK
<1>n. PICK n \in 0..MaxOps : \E s \in [1..n -> Expiring] :
         Ascending(s) /\ RangeOf(s) = Expiring /\ due' = due \o s
  BY DEF Tick
<1>2. PICK s \in [1..n -> Expiring] :
         Ascending(s) /\ RangeOf(s) = Expiring /\ due' = due \o s
  BY <1>n
<1>3. n \in Nat BY DispatcherAssumption
<1>4. s \in [1..n -> 1..born] BY <1>1
<1>5. s \in Seq(1..born) /\ Len(s) = n BY <1>3, <1>4, FunctionIsSeq
<1>6. due \in Seq(1..born) BY DEF TypeOK
<1> DEFINE m == Len(due)
<1>7. /\ due' \in Seq(1..born) /\ m \in Nat /\ Len(due') = m + n
      /\ \A i \in 1..m : due'[i] = due[i]
      /\ \A i \in 1..n : due'[m + i] = s[i]
  <2> DEFINE S == 1..born
  <2>1. s \in Seq(S) /\ due \in Seq(S) BY <1>5, <1>6
  <2> HIDE DEF S
  <2>2. /\ due \o s \in Seq(S)
        /\ Len(due) \in Nat /\ Len(s) \in Nat /\ Len(due \o s) = Len(due) + Len(s)
        /\ \A i \in 1..Len(due) : (due \o s)[i] = due[i]
        /\ \A i \in 1..Len(s) : (due \o s)[Len(due) + i] = s[i]
    BY <2>1, ConcatFacts
  <2> QED BY <1>2, <1>5, <2>2 DEF S
<1>8. \A i \in m + 1..m + n : i - m \in 1..n /\ due'[i] = s[i - m]
  <2> TAKE i \in m + 1..m + n
  <2>1. i - m \in 1..n /\ m + (i - m) = i BY <1>3, <1>7
  <2> QED BY <2>1, <1>7
<1>9. \A i \in m + 1..m + n : due'[i] \in Expiring BY <1>8
<1>10. \A i, j \in m + 1..m + n : i < j => due'[i] < due'[j]
  <2> TAKE i, j \in m + 1..m + n
  <2>1. i < j => i - m < j - m BY <1>7, <1>3
  <2> QED BY <1>2, <1>8, <2>1 DEF Ascending
<1>11. ASSUME NEW o \in Expiring PROVE \E i \in m + 1..m + n : due'[i] = o
  <2>1. PICK k \in 1..n : s[k] = o BY <1>2 DEF RangeOf
  <2>2. m + k \in m + 1..m + n BY <1>3, <1>7
  <2> QED BY <2>1, <2>2, <1>7
<1> HIDE DEF m
<1> QED BY <1>3, <1>7, <1>9, <1>10, <1>11 DEF m

-----------------------------------------------------------------------------
(* The rows that are queued, and the one at their head, across each kind   *)
(* of step.                                                                *)

LEMMA RangeFacts ==
    ASSUME NEW S, NEW s \in Seq(S)
    PROVE  \A o : o \in RangeOf(s) <=> \E i \in 1..Len(s) : s[i] = o
    BY SeqFacts DEF RangeOf

LEMMA CurFacts ==
    ASSUME TypeOK, due # <<>>
    PROVE  /\ Cur \in 1..born /\ Cur \in OpId /\ Cur = due[1] /\ 1 \in 1..Len(due)
           /\ Cur \in RangeOf(due) /\ Cur \in Pending
<1>0. due \in Seq(1..born) BY DEF TypeOK
<1>1. Cur \in 1..born /\ Cur = due[1] /\ 1 \in 1..Len(due)
  <2> DEFINE S == 1..born
  <2>1. due \in Seq(S) BY <1>0
  <2> HIDE DEF S
  <2>2. Head(due) \in S /\ Head(due) = due[1] /\ 1 \in 1..Len(due) BY <2>1, TailFacts
  <2> QED BY <2>2 DEF Cur, S
<1>2. MaxOps \in Nat /\ born \in 0..MaxOps BY DispatcherAssumption DEF TypeOK
<1>3. Cur \in OpId BY <1>1, <1>2 DEF OpId
<1>4. Cur \in RangeOf(due) BY <1>0, <1>1, RangeFacts
<1> QED BY <1>1, <1>3, <1>4 DEF Pending

LEMMA KeptPending ==
    ASSUME UNCHANGED <<born, rows>>
    PROVE  Pending' = Pending /\ Cur' = Cur
    BY DEF rows, Pending, RangeOf, Waiting, Cur

LEMMA EnqueuePending ==
    ASSUME TypeOK, Enqueue
    PROVE  /\ due' \in Seq(1..born') /\ Len(due') = Len(due) + 1 /\ Len(due) \in Nat
           /\ \A i \in 1..Len(due) : due'[i] = due[i]
           /\ due'[Len(due) + 1] = born + 1
           /\ Pending' = Pending \cup {born + 1}
           /\ due # <<>> => Cur' = Cur
<1> DEFINE S == 1..born'
<1>1. due \in Seq(S) /\ born + 1 \in S
  <2>1. born \in Nat /\ due \in Seq(1..born) /\ born' = born + 1 BY DEF Enqueue, TypeOK
  <2>2. 1..born \subseteq S BY <2>1
  <2> QED BY <2>1, <2>2
<1>2. due' = Append(due, born + 1) BY DEF Enqueue
<1> HIDE DEF S
<1>3. /\ due' \in Seq(S) /\ Len(due') = Len(due) + 1 /\ Len(due) \in Nat
      /\ \A i \in 1..Len(due) : due'[i] = due[i]
      /\ due'[Len(due) + 1] = born + 1
  BY <1>1, <1>2, AppendFacts
<1>4. \A o : o \in RangeOf(due') <=> o \in RangeOf(due) \/ o = born + 1
  <2> DEFINE e == born + 1
             m == Len(due)
  <2>1. /\ m \in Nat /\ \A i \in 1..m : due'[i] = due[i]
        /\ due'[m + 1] = e
        /\ \A o : o \in RangeOf(due') <=> \E i \in 1..m + 1 : due'[i] = o
        /\ \A o : o \in RangeOf(due) <=> \E i \in 1..m : due[i] = o
    BY <1>1, <1>3, RangeFacts
  <2>2. \A i : i \in 1..m + 1 <=> i \in 1..m \/ i = m + 1 BY <2>1
  <2> HIDE DEF e, m
  <2>3. \A o : o \in RangeOf(due') <=> o \in RangeOf(due) \/ o = e BY <2>1, <2>2
  <2> QED BY <2>3 DEF e
<1>5. RangeOf(due') = RangeOf(due) \cup {born + 1} BY <1>4
<1>6. Waiting' = Waiting BY DEF Enqueue, Waiting
<1>7. Pending' = Pending \cup {born + 1} BY <1>5, <1>6 DEF Pending
<1>8. due # <<>> => Cur' = Cur
  BY <1>1, <1>3, TailFacts, SeqFacts DEF Cur
<1> QED BY <1>3, <1>7, <1>8 DEF S

LEMMA TickPending ==
    ASSUME TypeOK, ScheduleInv, Tick
    PROVE  /\ Pending' = Pending
           /\ due # <<>> => due' # <<>> /\ Cur' = Cur
<1> DEFINE m == Len(due)
           n == Len(due')
<1>1. /\ due \in Seq(1..born) /\ due' \in Seq(1..born) /\ m \in Nat /\ n \in Nat /\ m <= n
      /\ \A i \in 1..m : due'[i] = due[i]
      /\ \A i \in m + 1..n : due'[i] \in Expiring
      /\ \A o \in Expiring : \E i \in m + 1..n : due'[i] = o
  BY TickFacts, SeqFacts DEF TypeOK
<1>2. \A o \in OpId : /\ wait[o] \in Nat
                      /\ wait'[o] = IF wait[o] = 0 THEN 0 ELSE wait[o] - 1
  BY DEF Tick, TypeOK
<1>3. \A o \in OpId : wait[o] > 0 <=> wait'[o] > 0 \/ o \in Expiring
  BY <1>2 DEF Expiring
<1>4. \A o : o \in RangeOf(due') <=> o \in RangeOf(due) \/ o \in Expiring
  <2>1. /\ \A o : o \in RangeOf(due') <=> \E i \in 1..n : due'[i] = o
        /\ \A o : o \in RangeOf(due) <=> \E i \in 1..m : due[i] = o
    BY <1>1, RangeFacts
  <2>2. \A i : i \in 1..n <=> i \in 1..m \/ i \in m + 1..n BY <1>1
  <2> HIDE DEF m, n
  <2> QED BY <1>1, <2>1, <2>2
<1>5. Waiting = Waiting' \cup Expiring BY <1>3 DEF Waiting, Expiring
<1>6. Pending' = Pending BY <1>4, <1>5 DEF Pending
<1>7. due # <<>> => due' # <<>> /\ Cur' = Cur
  BY <1>1, TailFacts, SeqFacts DEF Cur
<1> QED BY <1>6, <1>7

LEMMA DroppedFacts ==
    ASSUME TypeOK, ScheduleInv, Dropped
    PROVE  /\ due' \in Seq(1..born) /\ Len(due') = Len(due) - 1 /\ Len(due) \in Nat \ {0}
           /\ \A i \in 1..Len(due') : due'[i] = due[i + 1] /\ i + 1 \in 1..Len(due)
           /\ \A i \in 1..Len(due') : due'[i] # Cur
           /\ RangeOf(due') = RangeOf(due) \ {Cur}
<1> DEFINE m == Len(due)
           n == Len(due')
<1>1. /\ due \in Seq(1..born) /\ due' \in Seq(1..born) /\ m \in Nat \ {0} /\ n = m - 1
      /\ \A i \in 1..m - 1 : due'[i] = due[i + 1]
      /\ Cur = due[1]
  BY TailFacts DEF TypeOK, Dropped, Cur
<1>2. \A i, j \in 1..m : i # j => due[i] # due[j] BY DEF ScheduleInv
<1> HIDE DEF m, n
<1>3. \A i \in 1..n : due'[i] = due[i + 1] /\ i + 1 \in 1..m /\ due[i + 1] # due[1]
  BY <1>1, <1>2
<1>4. \A o : (\E i \in 1..n : due'[i] = o) <=> (\E i \in 1..m : due[i] = o) /\ o # due[1]
  <2> TAKE o
  <2>1. ASSUME NEW i \in 1..m, due[i] = o, o # due[1] PROVE \E j \in 1..n : due'[j] = o
    <3>1. i - 1 \in 1..n /\ (i - 1) + 1 = i BY <1>1, <2>1
    <3> QED BY <1>3, <2>1, <3>1
  <2> QED BY <1>3, <2>1
<1>5. /\ \A o : o \in RangeOf(due') <=> \E i \in 1..n : due'[i] = o
      /\ \A o : o \in RangeOf(due) <=> \E i \in 1..m : due[i] = o
  BY <1>1, RangeFacts DEF m, n
<1>6. RangeOf(due') = RangeOf(due) \ {Cur} BY <1>1, <1>4, <1>5
<1> QED BY <1>1, <1>3, <1>6 DEF m, n

LEMMA ReschedulePending ==
    ASSUME TypeOK, ScheduleInv, Dropped, NEW d \in Nat \ {0}, Reschedule(d)
    PROVE  /\ Pending' = Pending
           /\ \A o \in OpId : o # Cur => wait'[o] = wait[o] /\ attempts'[o] = attempts[o]
           /\ wait'[Cur] = d /\ attempts'[Cur] = attempts[Cur] + 1
<1>1. Cur \in OpId /\ Cur \in RangeOf(due) BY CurFacts DEF Dropped
<1>2. /\ wait'[Cur] = d /\ attempts'[Cur] = attempts[Cur] + 1
      /\ \A o \in OpId : o # Cur => wait'[o] = wait[o] /\ attempts'[o] = attempts[o]
  BY <1>1 DEF Reschedule, TypeOK
<1>3. RangeOf(due') = RangeOf(due) \ {Cur} BY DroppedFacts
<1>4. Waiting' = Waiting \cup {Cur} BY <1>1, <1>2 DEF Waiting
<1> QED BY <1>1, <1>2, <1>3, <1>4 DEF Pending

LEMMA RemovedPending ==
    ASSUME TypeOK, ScheduleInv, Dropped, wait' = wait
    PROVE  Pending' = Pending \ {Cur}
<1>1. Cur \notin Waiting
  <2>1. Cur = due[1] /\ 1 \in 1..Len(due) BY CurFacts DEF Dropped
  <2> QED BY <2>1 DEF ScheduleInv, Waiting
<1>2. RangeOf(due') = RangeOf(due) \ {Cur} BY DroppedFacts
<1>3. Waiting' = Waiting BY DEF Waiting
<1> QED BY <1>1, <1>2, <1>3 DEF Pending

-----------------------------------------------------------------------------
(* The invariant, part by part.                                            *)

LEMMA InitInv == Init => IInv
<1> SUFFICES ASSUME Init PROVE IInv
  OBVIOUS
<1>1. due = <<>> /\ Len(due) = 0 /\ \A o \in OpId : wait[o] = 0 /\ tries[o] = 0 /\ attempts[o] = 0
  BY DEF Init
<1>2. Pending = {} /\ Waiting = {} BY <1>1, SeqFacts DEF Pending, RangeOf, Waiting
<1>3. TypeOK
  <2>1. due \in Seq(1..born) BY DEF Init
  <2>2. 0 \in 0..MaxOps /\ 0 \in 0..MaxFaults /\ 0 \in 0..MaxAttempts + 1
    BY DispatcherAssumption
  <2>3. /\ wait \in [OpId -> Nat] /\ tries \in [OpId -> Nat]
        /\ attempts \in [OpId -> 0..MaxAttempts + 1]
    BY <2>2 DEF Init
  <2>4. pc = "top" /\ pc \notin Busy BY DEF Init, Busy
  <2> QED BY <2>1, <2>2, <2>3, <2>4 DEF Init, TypeOK
<1>4. ScheduleInv BY <1>1, <1>2 DEF ScheduleInv
<1>5. BudgetInv BY <1>1, <1>2, DispatcherAssumption DEF BudgetInv
<1>6. BusyInv BY DEF Init, BusyInv, Busy
<1>7. HeldInv BY DEF Init, HeldInv
<1>8. FreshInOrder BY <1>1, <1>2 DEF FreshInOrder
<1>9. RetryBudget BY <1>1, DispatcherAssumption DEF Init, RetryBudget
<1> QED BY <1>3, <1>4, <1>5, <1>6, <1>7, <1>8, <1>9 DEF IInv

LEMMA TypeStep == IInv /\ [Next]_vars => TypeOK'
<1> SUFFICES ASSUME IInv, [Next]_vars PROVE TypeOK'
  OBVIOUS
<1> USE DispatcherAssumption
<1>0. TypeOK /\ ScheduleInv BY DEF IInv
<1>1. CASE Enqueue
  <2>1. due' \in Seq(1..born') /\ (due' # <<>>) /\ born' \in 0..MaxOps
    BY <1>0, <1>1, EnqueuePending, SeqFacts DEF Enqueue, TypeOK
  <2>2. parked' \subseteq 1..born' /\ performed' \subseteq 1..born'
    BY <1>0, <1>1 DEF Enqueue, TypeOK, ghosts
  <2> QED BY <1>0, <1>1, <2>1, <2>2 DEF Enqueue, TypeOK, ghosts, flags
<1>2. CASE Tick
  <2>1. due' \in Seq(1..born) BY <1>0, <1>2, TickFacts
  <2>2. due # <<>> => due' # <<>> BY <1>0, <1>2, TickPending
  <2>3. wait' \in [OpId -> Nat] BY <1>0, <1>2 DEF Tick, TypeOK
  <2> QED BY <1>0, <1>2, <2>1, <2>2, <2>3 DEF Tick, TypeOK, ghosts, flags
<1>3. CASE Poll \/ Link
  BY <1>0, <1>3 DEF Poll, Link, SetBlocked, ClearIfTransient, TypeOK, rows, ghosts, flags, Terminal
<1>4. CASE PauseResume \/ Signal \/ Start
  BY <1>0, <1>4 DEF PauseResume, Signal, Start, TypeOK, rows, ghosts, flags, Busy
<1>5. CASE ReadPause \/ LeavePause \/ ReadBlock \/ EndNap \/ NothingDue \/ Wake \/ ExitDead
  BY <1>0, <1>5 DEF ReadPause, LeavePause, ReadBlock, EndNap, NothingDue, Wake, ExitDead, Goto,
                    TypeOK, rows, ghosts, flags, Busy
<1>6. CASE Select \/ UploadNew
  <2>1. due # <<>> BY <1>0, <1>6 DEF Select, UploadNew, TypeOK, Busy
  <2>2. Cur \in OpId BY <1>0, <2>1, CurFacts
  <2>3. tries' \in [OpId -> Nat]
    <3>1. tries \in [OpId -> Nat] BY <1>0 DEF TypeOK
    <3>2. CASE Select BY <3>1, <3>2, <2>2 DEF Select
    <3>3. CASE UploadNew BY <3>1, <3>3, <2>2 DEF UploadNew, ghosts
    <3> QED BY <1>6, <3>2, <3>3
  <2>4. pc' \in {"executing", "linking"} /\ pc' \in Busy
    BY <1>6 DEF Select, UploadNew, Busy
  <2>5. UNCHANGED <<born, rows, blocked, linked, flags, performed, held, faults>>
    BY <1>6 DEF Select, UploadNew, ghosts
  <2> QED BY <1>0, <2>1, <2>3, <2>4, <2>5 DEF TypeOK, rows, flags
<1>7. CASE ExecuteOk \/ RecordId
  <2>1. due # <<>> BY <1>0, <1>7 DEF ExecuteOk, RecordId, TypeOK, Busy
  <2>2. Cur \in 1..born BY <1>0, <2>1, CurFacts
  <2>3. performed' \subseteq 1..born
    BY <1>0, <1>7, <2>2 DEF ExecuteOk, RecordId, TypeOK
  <2>4. linked' \subseteq FirstUploads
    BY <1>0, <1>7 DEF ExecuteOk, RecordId, TypeOK, IInv, BusyInv, CreatesFile
  <2>5. pc' = "recording" /\ pc' \in Busy BY <1>7 DEF ExecuteOk, RecordId, Busy
  <2>6. UNCHANGED <<born, rows, blocked, flags, tries, held, faults>>
    BY <1>7 DEF ExecuteOk, RecordId
  <2> QED BY <1>0, <2>1, <2>3, <2>4, <2>5, <2>6 DEF TypeOK, rows, flags
<1>8. CASE RecordSuccess \/ SuccessUnrecorded \/ ParkFails \/ MarkFails \/ DeleteFails
             \/ Dies \/ Abort \/ Crash
  <2>1. /\ UNCHANGED <<born, rows, linked, flags, ghosts>>
        /\ pc \in Busy => due # <<>>
        /\ pc' = "deleting" => pc \in Busy
        /\ faults' \in 0..MaxFaults
    BY <1>0, <1>8
    DEF RecordSuccess, SuccessUnrecorded, ParkFails, MarkFails, DeleteFails, Dies, Abort, Crash,
        TypeOK, Fault, Busy
  <2>2. /\ blocked' \in {"none", "transient"} \cup Terminal
        /\ held' \in BOOLEAN
        /\ pc' \in {"deleting", "drain", "dead", "stopped"}
    BY <1>0, <1>8
    DEF RecordSuccess, SuccessUnrecorded, ParkFails, MarkFails, DeleteFails, Dies, Abort, Crash,
        TypeOK, SetBlocked, ClearIfTransient
  <2>3. pc' \in Busy => due # <<>> BY <2>1, <2>2 DEF Busy
  <2> QED BY <1>0, <2>1, <2>2, <2>3 DEF TypeOK, rows, ghosts, flags, Busy
<1>9. CASE Park \/ DeleteRow
  <2>1. Dropped /\ due # <<>> BY <1>0, <1>9 DEF Park, DeleteRow, TypeOK, Busy, Dropped
  <2>2. Cur \in OpId /\ Cur \in 1..born /\ Cur = due[1] /\ 1 \in 1..Len(due)
    BY <1>0, <2>1, CurFacts
  <2>3. due' \in Seq(1..born) BY <1>0, <2>1, DroppedFacts
  <2>4. parked' \subseteq 1..born BY <1>0, <1>9, <2>2 DEF Park, DeleteRow, TypeOK
  <2>5. attempts' \in [OpId -> 0..MaxAttempts + 1]
    <3>1. CASE Park
      <4>1. attempts[Cur] + 1 \in 0..MaxAttempts + 1
        BY <1>0, <2>2 DEF IInv, BudgetInv, TypeOK, ScheduleInv
      <4> QED BY <1>0, <3>1, <4>1 DEF Park, TypeOK
    <3>2. CASE DeleteRow BY <1>0, <3>2 DEF DeleteRow, TypeOK
    <3> QED BY <1>9, <3>1, <3>2
  <2>6. pc' = "drain" /\ pc' \notin Busy BY <1>9 DEF Park, DeleteRow, Busy
  <2>7. UNCHANGED <<born, wait, blocked, linked, flags, ghosts, held, faults>>
    BY <1>9 DEF Park, DeleteRow
  <2> QED BY <1>0, <2>3, <2>4, <2>5, <2>6, <2>7 DEF TypeOK, ghosts, flags
<1>10. CASE RecordIdFails \/ ExecuteFails \/ AuthFails \/ AuthUnrecorded
  <2>1. due # <<>> BY <1>0, <1>10
    DEF RecordIdFails, ExecuteFails, AuthFails, AuthUnrecorded, TypeOK, Busy
  <2>2. Cur \in OpId /\ attempts[Cur] < MaxAttempts
    BY <1>0, <1>10, <2>1, CurFacts
    DEF RecordIdFails, ExecuteFails, AuthFails, AuthUnrecorded, IInv, BusyInv, Busy
  <2>3. UNCHANGED rows \/ Rescheduled
    <3>1. ~Enqueue /\ ~Tick /\ ~Park /\ ~DeleteRow
      BY <1>10 DEF RecordIdFails, ExecuteFails, AuthFails, AuthUnrecorded,
                   Enqueue, Tick, Park, DeleteRow
    <3> QED BY <1>0, <3>1, RowEffects
  <2>4. /\ due' \in Seq(1..born) /\ wait' \in [OpId -> Nat] /\ parked' = parked
        /\ attempts' \in [OpId -> 0..MaxAttempts + 1]
    <3>1. CASE UNCHANGED rows BY <1>0, <3>1 DEF rows, TypeOK
    <3>2. CASE Rescheduled
      <4>1. PICK d \in Nat \ {0} : Reschedule(d) BY <3>2 DEF Rescheduled
      <4>2. due' \in Seq(1..born) BY <1>0, <3>2, DroppedFacts DEF Rescheduled
      <4>3. attempts[Cur] + 1 \in 0..MaxAttempts + 1 BY <1>0, <2>2 DEF TypeOK
      <4> QED BY <1>0, <4>1, <4>2, <4>3 DEF Reschedule, TypeOK
    <3> QED BY <2>3, <3>1, <3>2
  <2>5. /\ UNCHANGED <<born, linked, flags, ghosts>>
        /\ pc' \in {"drain", "idle"} /\ pc' \notin Busy
        /\ faults' \in 0..MaxFaults
    BY <1>0, <1>10
    DEF RecordIdFails, ExecuteFails, AuthFails, AuthUnrecorded, Fault, TypeOK, Busy
  <2>6. /\ blocked' \in {"none", "transient"} \cup Terminal /\ held' \in BOOLEAN
    BY <1>0, <1>10
    DEF RecordIdFails, ExecuteFails, AuthFails, AuthUnrecorded, TypeOK, Terminal
  <2> QED BY <1>0, <2>4, <2>5, <2>6 DEF TypeOK, ghosts, flags
<1>11. CASE UNCHANGED vars
  BY <1>0, <1>11 DEF vars, TypeOK, rows, ghosts, flags
<1> QED BY <1>1, <1>2, <1>3, <1>4, <1>5, <1>6, <1>7, <1>8, <1>9, <1>10, <1>11
        DEF Next, LoopStep, OtherStep, ProcessStep, FaultStep

(* The rows of the schedule stay apart, and those never tried in order.    *)
LEMMA ScheduleStep == IInv /\ [Next]_vars => ScheduleInv' /\ FreshInOrder'
<1> SUFFICES ASSUME IInv, [Next]_vars PROVE ScheduleInv' /\ FreshInOrder'
  OBVIOUS
<1> USE DispatcherAssumption
<1> DEFINE m == Len(due)
           n == Len(due')
<1>0. TypeOK /\ ScheduleInv /\ FreshInOrder /\ TypeOK' BY TypeStep DEF IInv
<1>a. /\ due \in Seq(1..born) /\ m \in Nat /\ n \in Nat /\ born \in Nat
      /\ DOMAIN due = 1..m /\ DOMAIN due' = 1..n
      /\ \A i \in 1..m : due[i] \in 1..born /\ due[i] \in OpId
      /\ \A o \in OpId : wait[o] \in Nat /\ attempts[o] \in Nat /\ wait'[o] \in Nat
  <2>1. due \in Seq(1..born) /\ due' \in Seq(1..born') /\ born \in 0..MaxOps
    BY <1>0 DEF TypeOK
  <2>2. /\ m \in Nat /\ n \in Nat /\ DOMAIN due = 1..m /\ DOMAIN due' = 1..n
        /\ \A i \in 1..m : due[i] \in 1..born
    BY <2>1, SeqFacts
  <2>3. 1..born \subseteq OpId /\ born \in Nat BY <2>1 DEF OpId
  <2>4. \A o \in OpId : wait[o] \in Nat /\ wait'[o] \in Nat /\ attempts[o] \in 0..MaxAttempts + 1
    BY <1>0 DEF TypeOK
  <2>5. \A o \in OpId : attempts[o] \in Nat BY <2>4
  <2> HIDE DEF m, n
  <2> QED BY <2>1, <2>2, <2>3, <2>4, <2>5
<1>b. /\ \A i, j \in 1..m : i # j => due[i] # due[j]
      /\ \A i \in 1..m : wait[due[i]] = 0 /\ due[i] \notin parked
      /\ \A o \in OpId : wait[o] > 0 => o \notin parked /\ o <= born /\ attempts[o] > 0
      /\ \A i, j \in 1..m : i < j /\ attempts[due[i]] = 0 /\ attempts[due[j]] = 0
                              => due[i] < due[j]
  BY <1>0, <1>a DEF ScheduleInv, FreshInOrder, Waiting
<1>c. SUFFICES /\ \A i, j \in 1..n : i # j => due'[i] # due'[j]
               /\ \A i \in 1..n : wait'[due'[i]] = 0 /\ due'[i] \notin parked'
               /\ \A o \in OpId : wait'[o] > 0 => o \notin parked' /\ o <= born' /\ attempts'[o] > 0
               /\ \A i, j \in 1..n : i < j /\ attempts'[due'[i]] = 0 /\ attempts'[due'[j]] = 0
                                       => due'[i] < due'[j]
  BY <1>a DEF ScheduleInv, FreshInOrder, Waiting
<1>1. CASE UNCHANGED <<born, rows>> BY <1>1, <1>b DEF rows
<1>2. CASE Enqueue
  <2>1. /\ n = m + 1 /\ due'[m + 1] = born + 1 /\ \A i \in 1..m : due'[i] = due[i]
    BY <1>0, <1>2, EnqueuePending
  <2>2. /\ born' = born + 1 /\ wait' = wait /\ parked' = parked /\ attempts' = attempts
        /\ born + 1 \in OpId /\ parked \subseteq 1..born
    BY <1>0, <1>2 DEF Enqueue, TypeOK, OpId
  <2>3. wait[born + 1] = 0 /\ born + 1 \notin parked BY <1>a, <1>b, <2>2
  <2>4. \A i \in 1..n : i \in 1..m \/ i = m + 1 BY <1>a, <2>1
  <2> HIDE DEF m, n
  <2>5. \A i \in 1..m : due[i] < born + 1 BY <1>a
  <2>6. \A i, j \in 1..n : i # j => due'[i] # due'[j]
    <3> TAKE i, j \in 1..n
    <3>1. CASE i \in 1..m /\ j \in 1..m BY <1>b, <2>1, <3>1
    <3>2. CASE i \in 1..m /\ j = m + 1 BY <1>a, <2>1, <2>5, <3>2
    <3>3. CASE j \in 1..m /\ i = m + 1 BY <1>a, <2>1, <2>5, <3>3
    <3> QED BY <2>4, <3>1, <3>2, <3>3
  <2>7. \A i \in 1..n : wait'[due'[i]] = 0 /\ due'[i] \notin parked'
    BY <1>b, <2>1, <2>2, <2>3, <2>4
  <2>8. \A i, j \in 1..n : i < j /\ attempts'[due'[i]] = 0 /\ attempts'[due'[j]] = 0
                             => due'[i] < due'[j]
    <3> TAKE i, j \in 1..n
    <3>1. CASE i \in 1..m /\ j \in 1..m BY <1>b, <2>1, <2>2, <3>1
    <3>2. CASE i \in 1..m /\ j = m + 1 BY <2>1, <2>5, <3>2
    <3>3. CASE i = m + 1 BY <1>a, <2>1, <3>3
    <3> QED BY <2>4, <3>1, <3>2, <3>3
  <2>9. \A o \in OpId : wait'[o] > 0 => o \notin parked' /\ o <= born' /\ attempts'[o] > 0
    <3> TAKE o \in OpId
    <3>1. o \in Nat BY DEF OpId
    <3> QED BY <1>a, <1>b, <2>2, <3>1
  <2> QED BY <2>6, <2>7, <2>8, <2>9
<1>3. CASE Tick
  <2>1. /\ m <= n
        /\ \A i \in 1..m : due'[i] = due[i]
        /\ \A i \in m + 1..n : due'[i] \in Expiring
        /\ \A i, j \in m + 1..n : i < j => due'[i] < due'[j]
    BY <1>0, <1>3, TickFacts
  <2>2. /\ born' = born /\ parked' = parked /\ attempts' = attempts
        /\ \A o \in OpId : wait'[o] = IF wait[o] = 0 THEN 0 ELSE wait[o] - 1
    BY <1>0, <1>3 DEF Tick, TypeOK
  <2>3. \A i \in 1..n : i \in 1..m \/ i \in m + 1..n BY <1>a, <2>1
  <2>4. \A o \in Expiring : o \in OpId /\ o \in Nat /\ wait[o] = 1 BY DEF Expiring, OpId
  <2> HIDE DEF m, n
  <2>5. \A i \in m + 1..n : wait'[due'[i]] = 0 /\ due'[i] \notin parked /\ attempts[due'[i]] > 0
    BY <1>b, <2>1, <2>2, <2>4
  <2>6. \A i, j \in m + 1..n : i # j => due'[i] # due'[j]
    <3> TAKE i, j \in m + 1..n
    <3>1. i \in Nat /\ j \in Nat /\ due'[i] \in Nat /\ due'[j] \in Nat BY <1>a, <2>1, <2>4
    <3> QED BY <2>1, <3>1
  <2>7. \A i \in 1..m, j \in m + 1..n : due'[i] # due'[j]
    BY <1>b, <2>1, <2>4
  <2>8. \A i, j \in 1..n : i # j => due'[i] # due'[j]
    BY <1>b, <2>1, <2>3, <2>6, <2>7
  <2>9. \A i \in 1..n : wait'[due'[i]] = 0 /\ due'[i] \notin parked'
    BY <1>a, <1>b, <2>1, <2>2, <2>3, <2>5
  <2>10. \A i, j \in 1..n : i < j /\ attempts'[due'[i]] = 0 /\ attempts'[due'[j]] = 0
                              => due'[i] < due'[j]
    <3> TAKE i, j \in 1..n
    <3>1. CASE i \in 1..m /\ j \in 1..m BY <1>b, <2>1, <2>2, <3>1
    <3>2. CASE i \in m + 1..n BY <2>2, <2>5, <3>2
    <3>3. CASE j \in m + 1..n BY <2>2, <2>5, <3>3
    <3> QED BY <2>3, <3>1, <3>2, <3>3
  <2>11. \A o \in OpId : wait'[o] > 0 => o \notin parked' /\ o <= born' /\ attempts'[o] > 0
    BY <1>a, <1>b, <2>2
  <2> QED BY <2>8, <2>9, <2>10, <2>11
<1>4. ASSUME Dropped,
             \A o \in OpId : o # Cur => /\ wait'[o] = wait[o] /\ attempts'[o] = attempts[o]
                                        /\ (o \in parked' <=> o \in parked),
             wait'[Cur] > 0 => Cur \notin parked' /\ Cur <= born /\ attempts'[Cur] > 0
      PROVE  /\ \A i, j \in 1..n : i # j => due'[i] # due'[j]
             /\ \A i \in 1..n : wait'[due'[i]] = 0 /\ due'[i] \notin parked'
             /\ \A o \in OpId : wait'[o] > 0 => o \notin parked' /\ o <= born' /\ attempts'[o] > 0
             /\ \A i, j \in 1..n : i < j /\ attempts'[due'[i]] = 0 /\ attempts'[due'[j]] = 0
                                     => due'[i] < due'[j]
  <2>1. /\ \A i \in 1..n : due'[i] = due[i + 1] /\ i + 1 \in 1..m
        /\ \A i \in 1..n : due'[i] # Cur
        /\ n = m - 1 /\ born' = born
    BY <1>0, <1>4, DroppedFacts DEF Dropped
  <2> HIDE DEF m, n
  <2>2. \A i, j \in 1..n : i # j => due'[i] # due'[j]
    <3> TAKE i, j \in 1..n
    <3>1. i # j => i + 1 # j + 1 BY <1>a
    <3> QED BY <1>b, <2>1, <3>1
  <2>3. \A i \in 1..n : /\ due'[i] \in OpId /\ wait'[due'[i]] = 0 /\ due'[i] \notin parked'
                        /\ attempts'[due'[i]] = attempts[due'[i]]
    BY <1>4, <1>a, <1>b, <2>1
  <2>4. \A i, j \in 1..n : i < j /\ attempts'[due'[i]] = 0 /\ attempts'[due'[j]] = 0
                             => due'[i] < due'[j]
    <3> TAKE i, j \in 1..n
    <3>1. i < j => i + 1 < j + 1 BY <1>a
    <3> QED BY <1>b, <2>1, <2>3, <3>1
  <2>5. \A o \in OpId : wait'[o] > 0 => o \notin parked' /\ o <= born' /\ attempts'[o] > 0
    BY <1>4, <1>b, <2>1
  <2> QED BY <2>2, <2>3, <2>4, <2>5
<1>5. CASE Rescheduled
  <2>1. PICK d \in Nat \ {0} : Reschedule(d) BY <1>5 DEF Rescheduled
  <2>2. Dropped /\ due # <<>> BY <1>5 DEF Rescheduled, Dropped
  <2>3. /\ Cur \in OpId /\ Cur \in 1..born /\ Cur = due[1] /\ 1 \in 1..Len(due)
    BY <1>0, <2>2, CurFacts
  <2>4. /\ \A o \in OpId : o # Cur => wait'[o] = wait[o] /\ attempts'[o] = attempts[o]
        /\ attempts'[Cur] = attempts[Cur] + 1 /\ parked' = parked
    BY <1>0, <2>1, <2>2, ReschedulePending DEF Reschedule
  <2>5. Cur \notin parked' /\ Cur <= born /\ attempts'[Cur] > 0
    BY <1>a, <1>b, <2>3, <2>4
  <2> QED BY <1>4, <2>2, <2>4, <2>5
<1>6. CASE Park \/ DeleteRow
  <2>1. Dropped /\ due # <<>>
    BY <1>0, <1>6 DEF Park, DeleteRow, TypeOK, Busy, Dropped
  <2>2. Cur \in OpId /\ Cur = due[1] /\ 1 \in 1..Len(due) BY <1>0, <2>1, CurFacts
  <2>3. wait' = wait /\ wait[Cur] = 0 BY <1>6, <1>b, <2>2 DEF Park, DeleteRow
  <2>4. \A o \in OpId : o # Cur => /\ attempts'[o] = attempts[o]
                                   /\ (o \in parked' <=> o \in parked)
    BY <1>0, <1>6, <2>2 DEF Park, DeleteRow, TypeOK
  <2> QED BY <1>4, <2>1, <2>3, <2>4
<1> QED BY <1>0, <1>1, <1>2, <1>3, <1>5, <1>6, RowEffects

LEMMA HeldStep == IInv /\ [Next]_vars => HeldInv'
<1> SUFFICES ASSUME HeldInv, TypeOK, [Next]_vars PROVE HeldInv'
  BY DEF IInv
<1>1. CASE Enqueue \/ Tick \/ PauseResume \/ Signal
  BY <1>1 DEF Enqueue, Tick, PauseResume, Signal, HeldInv
<1>2. CASE Poll \/ Link
  BY <1>2 DEF Poll, Link, SetBlocked, ClearIfTransient, HeldInv, Terminal
<1>3. CASE ReadPause \/ LeavePause \/ ReadBlock \/ EndNap \/ NothingDue \/ Wake \/ ExitDead
  BY <1>3 DEF ReadPause, LeavePause, ReadBlock, EndNap, NothingDue, Wake, ExitDead, Goto,
              HeldInv, Busy
<1>4. CASE Park \/ Select \/ ExecuteOk \/ UploadNew \/ RecordId \/ ExecuteFails \/ DeleteRow
  BY <1>4 DEF Park, Select, ExecuteOk, UploadNew, RecordId, ExecuteFails, DeleteRow, HeldInv, Busy
<1>5. CASE AuthFails \/ RecordSuccess
  BY <1>5 DEF AuthFails, RecordSuccess, SetBlocked, ClearIfTransient, HeldInv, Busy, Terminal
<1>6. CASE Start \/ Dies \/ Abort \/ Crash
  BY <1>6 DEF Start, Dies, Abort, Crash, HeldInv, Busy
<1>7. CASE ParkFails \/ RecordIdFails \/ MarkFails \/ AuthUnrecorded \/ SuccessUnrecorded \/ DeleteFails
  BY <1>7 DEF ParkFails, RecordIdFails, MarkFails, AuthUnrecorded, SuccessUnrecorded, DeleteFails,
              HeldInv, Busy, Terminal
<1>8. CASE UNCHANGED vars BY <1>8 DEF vars, HeldInv
<1> QED BY <1>1, <1>2, <1>3, <1>4, <1>5, <1>6, <1>7, <1>8
        DEF Next, LoopStep, OtherStep, ProcessStep, FaultStep

-----------------------------------------------------------------------------
(* Steps that leave the schedule alone, and with it the operation at its   *)
(* head.                                                                   *)
QuietStep ==
    \/ Poll \/ Link \/ PauseResume \/ Signal \/ ExitDead \/ Start
    \/ ReadPause \/ LeavePause \/ ReadBlock \/ EndNap \/ NothingDue \/ Wake
    \/ ExecuteOk \/ UploadNew \/ RecordId \/ RecordSuccess
    \/ ParkFails \/ MarkFails \/ SuccessUnrecorded \/ DeleteFails \/ Dies \/ Abort \/ Crash
    \/ UNCHANGED vars

LEMMA QuietFacts ==
    ASSUME TypeOK, QuietStep
    PROVE  /\ UNCHANGED <<born, rows, tries>>
           /\ pc' \in Busy => pc \in Busy
           /\ faults' = faults \/ faults' = faults + 1
           /\ pc \in Busy => pc' \in Busy \/ faults' = faults + 1
<1>1. CASE Poll \/ Link \/ PauseResume \/ Signal \/ UNCHANGED vars
  BY <1>1 DEF Poll, Link, PauseResume, Signal, vars, ghosts
<1>2. CASE ExitDead \/ Start \/ ReadPause \/ LeavePause \/ ReadBlock \/ EndNap \/ NothingDue \/ Wake
  BY <1>2 DEF ExitDead, Start, ReadPause, LeavePause, ReadBlock, EndNap, NothingDue, Wake, Goto,
              ghosts, Busy
<1>3. CASE ExecuteOk \/ UploadNew \/ RecordId \/ RecordSuccess \/ SuccessUnrecorded
  BY <1>3 DEF ExecuteOk, UploadNew, RecordId, RecordSuccess, SuccessUnrecorded, Fault, ghosts, Busy
<1>4. CASE ParkFails \/ MarkFails \/ DeleteFails \/ Dies \/ Abort \/ Crash
  BY <1>4 DEF ParkFails, MarkFails, DeleteFails, Dies, Abort, Crash, Fault, ghosts, Busy
<1> QED BY <1>1, <1>2, <1>3, <1>4 DEF QuietStep

(* The four ways an execution fails.                                       *)
FailStep == RecordIdFails \/ ExecuteFails \/ AuthFails \/ AuthUnrecorded

LEMMA FailFacts ==
    ASSUME IInv, FailStep
    PROVE  /\ due # <<>> /\ pc \in Busy /\ pc' \notin Busy
           /\ UNCHANGED <<born, ghosts, linked, parked>>
           /\ \/ UNCHANGED rows /\ faults' = faults + 1
              \/ Rescheduled /\ (faults' = faults \/ faults' = faults + 1)
<1>1. /\ due # <<>> /\ pc \in Busy /\ pc' \notin Busy
      /\ UNCHANGED <<born, ghosts, linked>>
  BY DEF FailStep, RecordIdFails, ExecuteFails, AuthFails, AuthUnrecorded, IInv, TypeOK, Busy
<1>2. CASE RecordIdFails
  <2>1. \/ UNCHANGED rows \/ \E d \in Backoff(attempts[Cur] + 1) : Reschedule(d)
    BY <1>2 DEF RecordIdFails
  <2>2. faults' = faults + 1 BY <1>2 DEF RecordIdFails, Fault
  <2> QED BY <1>1, <2>1, <2>2, BackoffFacts DEF Rescheduled, Dropped, Reschedule, rows
<1>3. CASE ExecuteFails
  <2>1. (\E d \in Backoff(attempts[Cur] + 1) : Reschedule(d)) /\ faults' = faults
    BY <1>3 DEF ExecuteFails
  <2> QED BY <1>1, <2>1, BackoffFacts DEF Rescheduled, Dropped, Reschedule
<1>4. CASE AuthFails
  BY <1>1, <1>4, DispatcherAssumption DEF AuthFails, Rescheduled, Dropped, Reschedule
<1>5. CASE AuthUnrecorded
  BY <1>1, <1>5, DispatcherAssumption
  DEF AuthUnrecorded, Fault, Rescheduled, Dropped, Reschedule, rows
<1> QED BY <1>1, <1>2, <1>3, <1>4, <1>5 DEF FailStep

LEMMA StepKinds ==
    ASSUME [Next]_vars
    PROVE  QuietStep \/ FailStep \/ Enqueue \/ Tick \/ Select \/ Park \/ DeleteRow
    BY DEF Next, LoopStep, OtherStep, ProcessStep, FaultStep, QuietStep, FailStep

-----------------------------------------------------------------------------
LEMMA BudgetStep == IInv /\ [Next]_vars => BudgetInv' /\ RetryBudget'
<1> SUFFICES ASSUME IInv, [Next]_vars PROVE BudgetInv' /\ RetryBudget'
  OBVIOUS
<1> USE DispatcherAssumption
<1>0. TypeOK /\ ScheduleInv BY DEF IInv
<1>a. /\ faults \in Nat /\ born \in Nat /\ MaxAttempts \in Nat
      /\ \A o \in OpId : tries[o] \in Nat /\ attempts[o] \in Nat /\ o \in Nat
      /\ Pending \subseteq OpId
  <2>1. \A o \in OpId : tries[o] \in Nat /\ attempts[o] \in 0..MaxAttempts + 1 /\ o \in Nat
    BY <1>0 DEF TypeOK, OpId
  <2>2. \A o \in OpId : attempts[o] \in Nat BY <2>1
  <2>3. RangeOf(due) \subseteq 1..born /\ born \in 0..MaxOps
    BY <1>0, SeqFacts DEF RangeOf, TypeOK
  <2>4. Pending \subseteq OpId BY <2>3 DEF Pending, Waiting, OpId
  <2> QED BY <1>0, <2>1, <2>2, <2>3, <2>4 DEF TypeOK
<1>b. /\ \A o \in OpId : o \notin parked => attempts[o] <= MaxAttempts /\ attempts[o] <= tries[o]
      /\ \A o \in Pending : (pc \in Busy /\ o = Cur) \/ tries[o] <= attempts[o] + faults
      /\ \A o \in OpId : o > born => tries[o] = 0 /\ attempts[o] = 0
      /\ \A o \in OpId : tries[o] <= MaxAttempts + faults
      /\ \A o \in OpId : o \in parked => tries[o] >= MaxAttempts
      /\ pc \in Busy => /\ due # <<>> /\ attempts[Cur] < MaxAttempts /\ attempts[Cur] < tries[Cur]
                        /\ tries[Cur] <= attempts[Cur] + 1 + faults
  BY DEF IInv, BudgetInv, BusyInv, RetryBudget
<1>c. SUFFICES
      /\ \A o \in OpId : o \notin parked' => attempts'[o] <= MaxAttempts /\ attempts'[o] <= tries'[o]
      /\ \A o \in Pending' : (pc' \in Busy /\ o = Cur') \/ tries'[o] <= attempts'[o] + faults'
      /\ \A o \in OpId : o > born' => tries'[o] = 0 /\ attempts'[o] = 0
      /\ \A o \in OpId : tries'[o] <= MaxAttempts + faults'
      /\ \A o \in OpId : o \in parked' => tries'[o] >= MaxAttempts
  BY DEF BudgetInv, RetryBudget
<1>d. due # <<>> => Cur \in OpId /\ Cur \in Pending /\ Cur \in 1..born BY <1>0, CurFacts
<1>1. CASE QuietStep
  <2>1. UNCHANGED <<born, rows, tries>> BY <1>0, <1>1, QuietFacts
  <2>2. Pending' = Pending /\ Cur' = Cur BY <2>1, KeptPending
  <2>3. /\ attempts' = attempts /\ parked' = parked /\ tries' = tries /\ born' = born
    BY <2>1 DEF rows
  <2>4. /\ faults' = faults \/ faults' = faults + 1
        /\ pc \in Busy => pc' \in Busy \/ faults' = faults + 1
    BY <1>0, <1>1, QuietFacts
  <2> QED BY <1>a, <1>b, <2>2, <2>3, <2>4
<1>2. CASE FailStep
  <2>1. /\ due # <<>> /\ pc \in Busy /\ pc' \notin Busy
        /\ tries' = tries /\ born' = born /\ parked' = parked
        /\ \/ UNCHANGED rows /\ faults' = faults + 1
           \/ Rescheduled /\ (faults' = faults \/ faults' = faults + 1)
    BY <1>2, FailFacts DEF ghosts
  <2>2. CASE UNCHANGED rows /\ faults' = faults + 1
    <3>1. Pending' = Pending /\ attempts' = attempts BY <2>1, <2>2, KeptPending DEF rows
    <3> QED BY <1>a, <1>b, <2>1, <2>2, <3>1
  <2>3. CASE Rescheduled /\ (faults' = faults \/ faults' = faults + 1)
    <3>1. PICK d \in Nat \ {0} : Reschedule(d) BY <2>3 DEF Rescheduled
    <3>2. /\ Pending' = Pending
          /\ \A o \in OpId : o # Cur => attempts'[o] = attempts[o]
          /\ attempts'[Cur] = attempts[Cur] + 1
      BY <1>0, <2>3, <3>1, ReschedulePending DEF Rescheduled
    <3>3. Cur <= born BY <1>a, <1>d, <2>1
    <3>4. /\ faults' \in Nat /\ faults' >= faults BY <1>a, <2>3
    <3>5. /\ attempts'[Cur] <= MaxAttempts /\ attempts'[Cur] <= tries[Cur]
          /\ tries[Cur] <= attempts'[Cur] + faults'
      BY <1>a, <1>b, <1>d, <2>1, <3>2, <3>4
    <3>6. \A o \in Pending : o # Cur => tries[o] <= attempts[o] + faults' BY <1>a, <1>b, <3>4
    <3>7. \A o \in Pending' : tries'[o] <= attempts'[o] + faults'
      BY <1>a, <2>1, <3>2, <3>5, <3>6
    <3>8. \A o \in OpId : tries'[o] <= MaxAttempts + faults' BY <1>a, <1>b, <2>1, <3>4
    <3>9. \A o \in OpId : o \notin parked' => attempts'[o] <= MaxAttempts /\ attempts'[o] <= tries'[o]
      BY <1>b, <2>1, <3>2, <3>5
    <3>10. \A o \in OpId : o > born' => tries'[o] = 0 /\ attempts'[o] = 0
      BY <1>a, <1>b, <1>d, <2>1, <3>2, <3>3
    <3> QED BY <1>b, <2>1, <3>7, <3>8, <3>9, <3>10
  <2> QED BY <2>1, <2>2, <2>3
<1>3. CASE Enqueue
  <2>1. /\ Pending' = Pending \cup {born + 1} /\ (due # <<>> => Cur' = Cur)
    BY <1>0, <1>3, EnqueuePending
  <2>2. /\ attempts' = attempts /\ parked' = parked /\ tries' = tries /\ born' = born + 1
        /\ pc' = pc /\ faults' = faults /\ born + 1 \in OpId
    BY <1>0, <1>3 DEF Enqueue, ghosts, TypeOK, OpId
  <2>3. tries[born + 1] = 0 /\ attempts[born + 1] = 0 BY <1>a, <1>b, <2>2
  <2> QED BY <1>a, <1>b, <2>1, <2>2, <2>3
<1>4. CASE Tick
  <2>1. Pending' = Pending /\ (due # <<>> => Cur' = Cur) BY <1>0, <1>4, TickPending
  <2>2. /\ attempts' = attempts /\ parked' = parked /\ tries' = tries /\ born' = born
        /\ pc' = pc /\ faults' = faults
    BY <1>4 DEF Tick, ghosts
  <2> QED BY <1>b, <2>1, <2>2
<1>5. CASE Select
  <2>1. /\ due # <<>> /\ attempts[Cur] < MaxAttempts /\ pc \notin Busy /\ pc' \in Busy
        /\ UNCHANGED <<born, rows>> /\ faults' = faults
    BY <1>5 DEF Select, Busy
  <2>2. Pending' = Pending /\ Cur' = Cur BY <2>1, KeptPending
  <2>3. attempts' = attempts /\ parked' = parked /\ born' = born BY <2>1 DEF rows
  <2>4. /\ tries'[Cur] = tries[Cur] + 1
        /\ \A o \in OpId : o # Cur => tries'[o] = tries[o]
    BY <1>0, <1>5, <1>d, <2>1 DEF Select, TypeOK
  <2>5. tries[Cur] <= attempts[Cur] + faults /\ Cur <= born /\ Cur \in OpId
    BY <1>a, <1>b, <1>d, <2>1
  <2>6. tries'[Cur] <= MaxAttempts + faults' BY <1>a, <2>1, <2>4, <2>5
  <2>7. \A o \in OpId : tries'[o] \in {tries[o], tries[o] + 1} /\ tries'[o] >= tries[o]
    BY <1>a, <2>4
  <2>8. \A o \in OpId : o \notin parked' => attempts'[o] <= MaxAttempts /\ attempts'[o] <= tries'[o]
    BY <1>a, <1>b, <2>3, <2>7
  <2>9. \A o \in Pending' : (pc' \in Busy /\ o = Cur') \/ tries'[o] <= attempts'[o] + faults'
    BY <1>a, <1>b, <2>1, <2>2, <2>3, <2>4
  <2>10. \A o \in OpId : o > born' => tries'[o] = 0 /\ attempts'[o] = 0
    BY <1>a, <1>b, <2>3, <2>4, <2>5
  <2>11. \A o \in OpId : tries'[o] <= MaxAttempts + faults'
    BY <1>b, <2>1, <2>4, <2>6
  <2>12. \A o \in OpId : o \in parked' => tries'[o] >= MaxAttempts
    BY <1>a, <1>b, <2>3, <2>7
  <2> QED BY <2>8, <2>9, <2>10, <2>11, <2>12
<1>6. CASE Park
  <2>1. /\ due # <<>> /\ attempts[Cur] >= MaxAttempts /\ pc \notin Busy /\ pc' = pc
        /\ Dropped /\ wait' = wait /\ born' = born /\ tries' = tries /\ faults' = faults
        /\ parked' = parked \cup {Cur}
    BY <1>6 DEF Park, Dropped, Busy, ghosts
  <2>2. Pending' = Pending \ {Cur} BY <1>0, <2>1, RemovedPending
  <2>3. \A o \in OpId : o # Cur => attempts'[o] = attempts[o]
    BY <1>0, <1>6 DEF Park, TypeOK
  <2>4. Cur \notin parked /\ Cur <= born
    BY <1>0, <1>a, <1>d, <2>1, CurFacts DEF ScheduleInv
  <2>5. tries[Cur] >= MaxAttempts BY <1>a, <1>b, <1>d, <2>1, <2>4
  <2> QED BY <1>a, <1>b, <1>d, <2>1, <2>2, <2>3, <2>4, <2>5
<1>7. CASE DeleteRow
  <2>1. /\ pc' \notin Busy /\ Dropped /\ wait' = wait /\ born' = born /\ tries' = tries
        /\ faults' = faults /\ parked' = parked /\ attempts' = attempts
    BY <1>0, <1>7 DEF DeleteRow, Dropped, Busy, ghosts, TypeOK
  <2>2. Pending' = Pending \ {Cur} BY <1>0, <2>1, RemovedPending
  <2> QED BY <1>b, <2>1, <2>2
<1> QED BY <1>1, <1>2, <1>3, <1>4, <1>5, <1>6, <1>7, StepKinds

LEMMA BusyStep == IInv /\ [Next]_vars => BusyInv'
<1> SUFFICES ASSUME IInv, [Next]_vars PROVE BusyInv'
  OBVIOUS
<1> USE DispatcherAssumption
<1>0. TypeOK /\ ScheduleInv BY DEF IInv
<1>a. /\ faults \in Nat
      /\ due # <<>> => tries[Cur] \in Nat /\ attempts[Cur] \in Nat /\ Cur \in OpId /\ Cur \in Pending
  <2>1. due # <<>> => Cur \in OpId /\ Cur \in Pending BY <1>0, CurFacts
  <2>2. \A o \in OpId : tries[o] \in Nat /\ attempts[o] \in 0..MaxAttempts + 1
    BY <1>0 DEF TypeOK
  <2>3. faults \in Nat BY <1>0 DEF TypeOK
  <2> QED BY <2>1, <2>2, <2>3
<1>b. /\ pc \in Busy => /\ due # <<>> /\ attempts[Cur] < MaxAttempts /\ attempts[Cur] < tries[Cur]
                        /\ tries[Cur] <= attempts[Cur] + 1 + faults
      /\ pc \in {"recording", "deleting"} => Cur \in performed
      /\ pc = "linking" => Cur \in FirstUploads \ linked
  BY DEF IInv, BusyInv, CreatesFile
<1>c. SUFFICES
      /\ pc' \in Busy => /\ due' # <<>> /\ attempts'[Cur'] < MaxAttempts
                         /\ attempts'[Cur'] < tries'[Cur']
                         /\ tries'[Cur'] <= attempts'[Cur'] + 1 + faults'
      /\ pc' \in {"recording", "deleting"} => Cur' \in performed'
      /\ pc' = "linking" => Cur' \in FirstUploads \ linked'
  BY DEF BusyInv, CreatesFile
<1>1. CASE QuietStep
  <2>1. UNCHANGED <<born, rows, tries>> BY <1>0, <1>1, QuietFacts
  <2>2. Cur' = Cur /\ due' = due /\ attempts' = attempts /\ tries' = tries
    BY <2>1, KeptPending DEF rows
  <2>3. /\ faults' = faults \/ faults' = faults + 1
        /\ pc' \in Busy => pc \in Busy
    BY <1>0, <1>1, QuietFacts
  <2>4. /\ pc' \in {"recording", "deleting"} => Cur \in performed'
        /\ pc' = "linking" => Cur \in FirstUploads \ linked'
    <3>1. CASE Poll \/ Link \/ PauseResume \/ Signal \/ UNCHANGED vars
      BY <1>b, <3>1 DEF Poll, Link, PauseResume, Signal, vars, ghosts
    <3>2. CASE ExitDead \/ Start \/ ReadPause \/ LeavePause \/ ReadBlock \/ EndNap
                 \/ NothingDue \/ Wake
      BY <3>2 DEF ExitDead, Start, ReadPause, LeavePause, ReadBlock, EndNap, NothingDue, Wake, Goto
    <3>3. CASE ExecuteOk \/ UploadNew \/ RecordId \/ RecordSuccess \/ SuccessUnrecorded
      BY <1>b, <3>3
      DEF ExecuteOk, UploadNew, RecordId, RecordSuccess, SuccessUnrecorded, ghosts, CreatesFile
    <3>4. CASE ParkFails \/ MarkFails \/ DeleteFails \/ Dies \/ Abort \/ Crash
      BY <3>4 DEF ParkFails, MarkFails, DeleteFails, Dies, Abort, Crash
    <3> QED BY <1>1, <3>1, <3>2, <3>3, <3>4 DEF QuietStep
  <2> QED BY <1>a, <1>b, <2>2, <2>3, <2>4
<1>2. CASE FailStep
  BY <1>2, FailFacts DEF Busy
<1>3. CASE Enqueue
  <2>1. due # <<>> => Cur' = Cur BY <1>0, <1>3, EnqueuePending
  <2>2. due' # <<>> /\ UNCHANGED <<attempts, tries, faults, performed, linked, pc>>
    <3>1. Len(due') = Len(due) + 1 /\ Len(due) \in Nat /\ due' \in Seq(1..born')
      BY <1>0, <1>3, EnqueuePending
    <3> QED BY <1>3, <3>1, SeqFacts DEF Enqueue, ghosts
  <2> QED BY <1>b, <2>1, <2>2 DEF Busy
<1>4. CASE Tick
  <2>1. due # <<>> => due' # <<>> /\ Cur' = Cur BY <1>0, <1>4, TickPending
  <2>2. UNCHANGED <<attempts, tries, faults, performed, linked, pc>>
    BY <1>4 DEF Tick, ghosts
  <2> QED BY <1>b, <2>1, <2>2 DEF Busy
<1>5. CASE Select
  <2>1. /\ due # <<>> /\ attempts[Cur] < MaxAttempts /\ pc \notin Busy /\ pc' = "executing"
        /\ UNCHANGED <<born, rows>> /\ faults' = faults
    BY <1>5 DEF Select, Busy
  <2>2. Cur' = Cur /\ due' = due /\ attempts' = attempts BY <2>1, KeptPending DEF rows
  <2>3. tries'[Cur] = tries[Cur] + 1
    BY <1>0, <1>5, <1>a, <2>1 DEF Select, TypeOK
  <2>4. Cur \notin parked BY <1>0, <2>1, CurFacts DEF ScheduleInv
  <2>5. attempts[Cur] <= tries[Cur] /\ tries[Cur] <= attempts[Cur] + faults
    BY <1>a, <2>1, <2>4 DEF IInv, BudgetInv
  <2> QED BY <1>a, <2>1, <2>2, <2>3, <2>5
<1>6. CASE Park \/ DeleteRow
  BY <1>6 DEF Park, DeleteRow, Busy
<1> QED BY <1>1, <1>2, <1>3, <1>4, <1>5, <1>6, StepKinds

LEMMA InvStep == IInv /\ [Next]_vars => IInv'
    BY TypeStep, ScheduleStep, BudgetStep, BusyStep, HeldStep DEF IInv

LEMMA Invariance == Spec => []IInv
    BY InitInv, InvStep, PTL DEF Spec

-----------------------------------------------------------------------------
(* state/ops.rs, daemon/runtime.rs: every variable keeps its type; in      *)
(* particular the attempts of a row stop at MAX_ATTEMPTS + 1.              *)
THEOREM TypeCorrect == Spec => []TypeOK
<1>1. IInv => TypeOK BY DEF IInv
<1> QED BY Invariance, <1>1, PTL

(* runtime.rs:105-127: an operation runs at most MAX_ATTEMPTS times but    *)
(* for unaccounted faults, and is parked only after that many.             *)
THEOREM BudgetKept == Spec => []RetryBudget
<1>1. IInv => RetryBudget BY DEF IInv
<1> QED BY Invariance, <1>1, PTL

(* runtime.rs:177-205: no execution follows an auth failure while a        *)
(* terminal block stands.                                                  *)
THEOREM AuthStops == Spec => []AuthStopsTheQueue
<1>1. IInv => AuthStopsTheQueue BY DEF IInv, HeldInv, AuthStopsTheQueue
<1> QED BY Invariance, <1>1, PTL

(* ops.rs:198-218: operations that never failed are due in the order they  *)
(* were enqueued.                                                          *)
THEOREM FreshOrder == Spec => []FreshInOrder
<1>1. IInv => FreshInOrder BY DEF IInv
<1> QED BY Invariance, <1>1, PTL

(* Dispatcher implements OpQueue: no operation is lost, and one leaves the *)
(* table only once execute has returned Ok for it.                         *)
THEOREM ImplementsQueue == Spec => QueueSpec
<1>1. Init => Queue!Init
  <2> SUFFICES ASSUME Init PROVE Queue!Init
    OBVIOUS
  <2>1. RangeOf(due) = {} BY SeqFacts DEF Init, RangeOf
  <2>2. Pending = {} BY <2>1 DEF Init, Pending, Waiting
  <2> QED BY <2>2 DEF Init, Queue!Init
<1>2. ASSUME IInv, [Next]_vars PROVE [Queue!Next]_(Queue!queueVars)
  <2>0. TypeOK /\ ScheduleInv BY <1>2 DEF IInv
  <2>a. due # <<>> => Cur \in OpId /\ Cur \in Pending BY <2>0, CurFacts
  <2>1. CASE QuietStep
    <3>1. UNCHANGED <<Pending, parked, tries>>
      BY <2>0, <2>1, QuietFacts, KeptPending DEF rows
    <3>2. \/ performed' = performed
          \/ performed' = performed \cup {Cur} /\ pc \in Busy
      <4>1. CASE Poll \/ Link \/ PauseResume \/ Signal \/ UNCHANGED vars
        <5>1. performed' = performed BY <4>1 DEF Poll, Link, PauseResume, Signal, vars, ghosts
        <5> QED BY <5>1
      <4>2. CASE ExitDead \/ Start \/ ReadPause \/ LeavePause \/ ReadBlock \/ EndNap
                   \/ NothingDue \/ Wake
        <5>1. performed' = performed
          BY <4>2 DEF ExitDead, Start, ReadPause, LeavePause, ReadBlock, EndNap, NothingDue, Wake,
                      Goto, ghosts
        <5> QED BY <5>1
      <4>3. CASE UploadNew \/ RecordSuccess \/ SuccessUnrecorded
        <5>1. performed' = performed BY <4>3 DEF UploadNew, RecordSuccess, SuccessUnrecorded, ghosts
        <5> QED BY <5>1
      <4>4. CASE ParkFails \/ MarkFails \/ DeleteFails \/ Dies \/ Abort \/ Crash
        <5>1. performed' = performed
          BY <4>4 DEF ParkFails, MarkFails, DeleteFails, Dies, Abort, Crash, ghosts
        <5> QED BY <5>1
      <4>5. CASE ExecuteOk \/ RecordId
        BY <4>5 DEF ExecuteOk, RecordId, Busy
      <4> QED BY <2>1, <4>1, <4>2, <4>3, <4>4, <4>5 DEF QuietStep
    <3>3. CASE performed' = performed BY <3>1, <3>3 DEF Queue!queueVars
    <3>4. CASE performed' = performed \cup {Cur} /\ pc \in Busy
      <4>1. due # <<>> BY <2>0, <3>4 DEF TypeOK
      <4>2. Cur \in OpId /\ Cur \in Pending BY <2>a, <4>1
      <4>3. tries[Cur] > 0
        <5>1. tries[Cur] \in Nat /\ attempts[Cur] \in 0..MaxAttempts + 1
          BY <2>0, <4>2 DEF TypeOK
        <5>2. attempts[Cur] < tries[Cur] BY <1>2, <3>4 DEF IInv, BusyInv
        <5> QED BY <5>1, <5>2
      <4> QED BY <3>1, <3>4, <4>2, <4>3 DEF Queue!Next, Queue!Perform
    <3> QED BY <3>2, <3>3, <3>4
  <2>2. CASE FailStep
    <3>1. /\ UNCHANGED <<born, ghosts, linked, parked>> /\ (UNCHANGED rows \/ Rescheduled)
      BY <1>2, <2>2, FailFacts
    <3>2. CASE UNCHANGED rows
      BY <3>1, <3>2, KeptPending DEF ghosts, Queue!queueVars
    <3>3. CASE Rescheduled
      BY <2>0, <3>1, <3>3, ReschedulePending DEF Rescheduled, ghosts, Queue!queueVars
    <3> QED BY <3>1, <3>2, <3>3
  <2>3. CASE Enqueue
    <3>1. Pending' = Pending \cup {born + 1} BY <2>0, <2>3, EnqueuePending
    <3>2. born + 1 \in OpId
      <4>1. born \in 0..MaxOps /\ born < MaxOps BY <2>0, <2>3 DEF Enqueue, TypeOK
      <4> QED BY <4>1, DispatcherAssumption DEF OpId
    <3>3. tries[born + 1] = 0
      <4>1. born + 1 > born BY <2>0 DEF TypeOK
      <4> QED BY <1>2, <3>2, <4>1 DEF IInv, BudgetInv
    <3>4. born + 1 \notin performed \cup parked BY <2>0 DEF TypeOK
    <3>5. UNCHANGED <<performed, parked, tries>> BY <2>3 DEF Enqueue, ghosts
    <3> QED BY <3>1, <3>2, <3>3, <3>4, <3>5 DEF Queue!Next, Queue!Enqueue
  <2>4. CASE Tick
    BY <2>0, <2>4, TickPending DEF Tick, ghosts, Queue!queueVars
  <2>5. CASE Select
    <3>1. due # <<>> /\ UNCHANGED <<born, rows>> /\ UNCHANGED performed
            /\ tries' = [tries EXCEPT ![Cur] = @ + 1]
      BY <2>5 DEF Select
    <3>2. UNCHANGED <<Pending, parked>> BY <3>1, KeptPending DEF rows
    <3> QED BY <2>a, <3>1, <3>2 DEF Queue!Next, Queue!Try
  <2>6. CASE Park
    <3>1. /\ due # <<>> /\ attempts[Cur] >= MaxAttempts
          /\ Dropped /\ wait' = wait /\ UNCHANGED <<performed, tries>>
          /\ parked' = parked \cup {Cur}
      BY <2>6 DEF Park, Dropped, ghosts
    <3>2. Pending' = Pending \ {Cur} BY <2>0, <3>1, RemovedPending
    <3>3. tries[Cur] >= MaxAttempts
      <4>1. Cur \notin parked BY <2>0, <3>1, CurFacts DEF ScheduleInv
      <4>2. attempts[Cur] <= tries[Cur] BY <1>2, <2>a, <3>1, <4>1 DEF IInv, BudgetInv
      <4>3. tries[Cur] \in Nat /\ attempts[Cur] \in 0..MaxAttempts + 1
        BY <2>0, <2>a, <3>1 DEF TypeOK
      <4> QED BY <3>1, <4>2, <4>3, DispatcherAssumption
    <3> QED BY <2>a, <3>1, <3>2, <3>3 DEF Queue!Next, Queue!Shelve
  <2>7. CASE DeleteRow
    <3>1. /\ due # <<>> /\ Dropped /\ wait' = wait
          /\ UNCHANGED <<performed, tries, parked>>
      BY <2>0, <2>7 DEF DeleteRow, Dropped, Busy, ghosts, TypeOK
    <3>2. Pending' = Pending \ {Cur} BY <2>0, <3>1, RemovedPending
    <3>3. Cur \in performed BY <1>2, <2>7 DEF DeleteRow, IInv, BusyInv
    <3> QED BY <2>a, <3>1, <3>2, <3>3 DEF Queue!Next, Queue!Complete
  <2> QED BY <1>2, <2>1, <2>2, <2>3, <2>4, <2>5, <2>6, <2>7, StepKinds
<1> QED BY Invariance, <1>1, <1>2, PTL DEF Spec, QueueSpec, Queue!Spec

-----------------------------------------------------------------------------

-----------------------------------------------------------------------------
\* The watcher and the debouncer.  First, sequences.

\* A finite set as a sequence: its elements, each once.
LEMMA SetAsSeq ==
    ASSUME NEW X, NEW S \in SUBSET X, IsFiniteSet(S)
    PROVE  /\ SetToSeq(S) \in Seq(X) /\ ToSet(SetToSeq(S)) = S
           /\ \A i, j \in DOMAIN SetToSeq(S) : SetToSeq(S)[i] = SetToSeq(S)[j] => i = j
<1> DEFINE n == Cardinality(S)
           s == SetToSeq(S)
<1>1. n \in Nat /\ \E f \in [1..n -> S] : IsInjective(f)
  <2>1. n \in Nat /\ ExistsBijection(1..n, S)
    BY FS_CardinalityType
  <2>2. PICK f : f \in Bijection(1..n, S)
    BY <2>1 DEF ExistsBijection
  <2> QED BY <2>1, <2>2 DEF Bijection, Injection, IsInjective
<1>2. s \in [1..n -> S] /\ IsInjective(s)
  BY <1>1 DEF SetToSeq
<1>3. \A i, j \in DOMAIN s : s[i] = s[j] => i = j
  BY <1>2 DEF IsInjective
<1>4. s \in Surjection(1..n, S)
  <2>1. s \in Injection(1..n, S)
    BY <1>2 DEF Injection
  <2>2. IsFiniteSet(1..n) /\ Cardinality(1..n) = n
    BY <1>1, FS_Interval
  <2> QED BY <2>1, <2>2, FS_Injection
<1>5. ToSet(s) = S
  BY <1>2, <1>4 DEF ToSet, Surjection
<1>6. s \in Seq(X)
  BY <1>1, <1>2
<1> QED BY <1>3, <1>5, <1>6

\* The image of a finite set of halves.
LEMMA FinitePaths ==
    ASSUME NEW S, IsFiniteSet(S)
    PROVE  IsFiniteSet({h.path : h \in S}) /\ IsFiniteSet({Gone(h.path) : h \in S})
<1>1. [h \in S |-> h.path] \in Surjection(S, {h.path : h \in S})
  BY DEF Surjection
<1>2. [h \in S |-> Gone(h.path)] \in Surjection(S, {Gone(h.path) : h \in S})
  BY DEF Surjection
<1> QED BY <1>1, <1>2, FS_Surjection

\* What holds of all pairs of a sequence holds of what is kept of it.
LEMMA OnlyPairs ==
    ASSUME NEW S, NEW s \in Seq(S), NEW K, NEW R,
           \A i, j \in DOMAIN s : i < j => <<s[i], s[j]>> \in R
    PROVE  \A i, j \in DOMAIN Only(s, K) : i < j => <<Only(s, K)[i], Only(s, K)[j]>> \in R
<1>0. PICK kept :
        /\ Only(s, K) = kept[Len(s)]
        /\ kept[0] = <<>>
        /\ \A n \in 1..Len(s) :
             kept[n] = IF s[n] \in K THEN Append(kept[n - 1], s[n]) ELSE kept[n - 1]
  BY Unfolds
<1> DEFINE Ok(n) == /\ kept[n] \in Seq(S)
                    /\ \A i \in DOMAIN kept[n] : \E m \in 1..n : kept[n][i] = s[m]
                    /\ \A i, j \in DOMAIN kept[n] : i < j => <<kept[n][i], kept[n][j]>> \in R
           T == {n \in 0..Len(s) : Ok(n)}
<1>1. 0 \in T
  <2>1. kept[0] \in Seq(S) /\ DOMAIN kept[0] = {}
    BY <1>0
  <2> QED BY <2>1
<1>2. ASSUME NEW n \in 0..Len(s), n < Len(s), n \in T
      PROVE  n + 1 \in T
  <2>1. /\ n + 1 \in 1..Len(s) /\ (n + 1) - 1 = n /\ s[n + 1] \in S /\ Ok(n)
        /\ DOMAIN s = 1..Len(s)
    BY <1>2
  <2>2. CASE s[n + 1] \in K
    <3>1. kept[n + 1] = Append(kept[n], s[n + 1])
      BY <1>0, <2>1, <2>2
    <3>2. /\ kept[n + 1] \in Seq(S) /\ DOMAIN kept[n + 1] = 1..Len(kept[n]) + 1 /\ Len(kept[n]) \in Nat
          /\ DOMAIN kept[n] = 1..Len(kept[n])
          /\ \A i \in 1..Len(kept[n]) : kept[n + 1][i] = kept[n][i]
          /\ kept[n + 1][Len(kept[n]) + 1] = s[n + 1]
      BY <2>1, <3>1
    <3>3. ASSUME NEW i \in DOMAIN kept[n + 1]
          PROVE  \E m \in 1..n + 1 : kept[n + 1][i] = s[m]
      BY <2>1, <3>2
    <3>4. ASSUME NEW i \in DOMAIN kept[n + 1], NEW j \in DOMAIN kept[n + 1], i < j
          PROVE  <<kept[n + 1][i], kept[n + 1][j]>> \in R
      <4>1. CASE j \in 1..Len(kept[n])
        <5>1. i \in 1..Len(kept[n])
          BY <3>2, <3>4, <4>1
        <5> QED BY <2>1, <3>2, <3>4, <4>1, <5>1
      <4>2. CASE j = Len(kept[n]) + 1
        <5>1. i \in DOMAIN kept[n]
          BY <3>2, <3>4, <4>2
        <5>2. PICK m \in 1..n : kept[n][i] = s[m]
          BY <2>1, <5>1
        <5>3. m \in DOMAIN s /\ n + 1 \in DOMAIN s /\ m < n + 1
          BY <2>1, <5>2
        <5>4. <<s[m], s[n + 1]>> \in R
          BY <5>3
        <5> QED BY <3>2, <4>2, <5>1, <5>2, <5>4
      <4> QED BY <3>2, <4>1, <4>2
    <3>5. Ok(n + 1)
      BY <3>2, <3>3, <3>4
    <3> QED BY <2>1, <3>5
  <2>3. CASE s[n + 1] \notin K
    <3>1. kept[n + 1] = kept[n]
      BY <1>0, <2>1, <2>3
    <3>2. \A i \in DOMAIN kept[n + 1] : \E m \in 1..n + 1 : kept[n + 1][i] = s[m]
      <4>1. 1..n \subseteq 1..n + 1
        BY <2>1
      <4> QED BY <2>1, <3>1, <4>1
    <3> QED BY <2>1, <3>1, <3>2
  <2> QED BY <2>2, <2>3
<1>3. Len(s) \in T
  <2>1. \A n \in 0..Len(s) : n < Len(s) /\ n \in T => n + 1 \in T
    BY <1>2
  <2>2. Len(s) \in Nat /\ 0 \in T
    BY <1>1
  <2> HIDE DEF T
  <2>3. \A n \in 0..Len(s) : n \in T
    BY <2>1, <2>2, UpTo
  <2> QED BY <2>2, <2>3
<1>4. Ok(Len(s))
  BY <1>3
<1> QED BY <1>0, <1>4
-----------------------------------------------------------------------------
\* The types, with those of inotify's queue and of the debounced channel.

Watch == [kind : {"made", "gone"}, path : Paths, from : Paths]
Moved == [kind : {"from"}, path : Files, cookie : 1..MaxEdits]
           \cup [kind : {"to"}, path : Paths, cookie : 1..MaxEdits]

Typed ==
    /\ WatchTypeOK
    /\ inotify \in Seq(Watch \cup Moved)
    /\ settling \in Seq(Event) /\ forwarded \in Seq(Event)
    /\ IsFiniteSet(halves)

KeysDiffer == {p \in Event \X Event : Key(p[1]) # Key(p[2])}

\* What a try_send adds fits in, and is what it was given if nothing is dropped.
LEMMA Sent ==
    ASSUME Typed, NEW events \in Seq(Event), TrySend(events)
    PROVE  /\ channel' \in Seq(Event) /\ Len(channel') <= Capacity /\ dropped' \in BOOLEAN
           /\ ~dropped' => ~dropped /\ channel' = channel \o events
<1> DEFINE room == Capacity - Len(channel)
           k == IF Len(events) < room THEN Len(events) ELSE room
<1>1. channel \in Seq(Event) /\ Len(channel) <= Capacity /\ Capacity \in Nat /\ dropped \in BOOLEAN
  BY LocalEventsAssumption DEF Typed, WatchTypeOK
<1>2. room \in Nat /\ Len(events) \in Nat /\ k \in Nat /\ k <= room /\ k <= Len(events)
  BY <1>1
<1>3. SubSeq(events, 1, k) \in Seq(Event) /\ Len(SubSeq(events, 1, k)) = k
  BY <1>2
<1>4. channel' = channel \o SubSeq(events, 1, k) /\ dropped' = (dropped \/ Len(events) > room)
  BY DEF TrySend
<1>5. channel' \in Seq(Event) /\ Len(channel') = Len(channel) + k
  BY <1>1, <1>3, <1>4
<1>6. ASSUME ~dropped'
      PROVE  ~dropped /\ channel' = channel \o events
  <2>1. ~dropped /\ ~(Len(events) > room)
    BY <1>4, <1>6
  <2>2. k = Len(events)
    BY <1>2, <2>1
  <2>3. SubSeq(events, 1, Len(events)) = events
    OBVIOUS
  <2> QED BY <1>4, <2>1, <2>2, <2>3
<1>7. dropped' \in BOOLEAN
  BY <1>4
<1> QED BY <1>1, <1>2, <1>5, <1>6, <1>7

\* What is told of stale halves: a deletion of each of their paths.
LEMMA ToldStale ==
    ASSUME Typed
    PROVE  /\ Told(Stale) \in Seq(Event) /\ ToSet(Told(Stale)) = {Gone(h.path) : h \in Stale}
           /\ IsFiniteSet(halves \ Stale)
<1>1. Stale \subseteq halves /\ IsFiniteSet(halves)
  BY DEF Stale, Typed
<1>2. IsFiniteSet(Stale) /\ IsFiniteSet(halves \ Stale)
  BY <1>1, FS_Subset
<1>3. \A h \in halves : h.path \in Files
  BY DEF Typed, WatchTypeOK
<1>4. {Gone(h.path) : h \in Stale} \subseteq Event
  BY <1>1, <1>3 DEF Gone, Event, Paths
<1>5. IsFiniteSet({Gone(h.path) : h \in Stale})
  BY <1>2, FinitePaths
<1>6. Told(Stale) = SetToSeq({Gone(h.path) : h \in Stale})
  BY DEF Told
<1> QED BY <1>2, <1>4, <1>5, <1>6, SetAsSeq

\* What the notify callback sends for a raw event, and the halves it keeps.
Own(e) ==
    IF e.kind \in {"made", "gone"} THEN If(Accepted(e.path), e)
    ELSE IF e.kind = "from" \/ ~Accepted(e.path) THEN <<>>
    ELSE IF {h \in halves \ Stale : h.cookie = e.cookie} = {} THEN <<Made(e.path)>>
    ELSE <<Renamed((CHOOSE h \in {h \in halves \ Stale : h.cookie = e.cookie} : TRUE).path, e.path)>>

Kept(e) ==
    IF e.kind \in {"made", "gone"} THEN halves
    ELSE IF e.kind = "from" THEN (halves \ Stale) \cup (IF Accepted(e.path) THEN {e} ELSE {})
    ELSE (halves \ Stale) \ {h \in halves \ Stale : h.cookie = e.cookie}

Added(e) == IF e.kind \in {"made", "gone"} THEN Own(e) ELSE Told(Stale) \o Own(e)

\* The event at the head of inotify's queue.
LEMMA Headed ==
    ASSUME Typed, inotify # <<>>
    PROVE  /\ Head(inotify) \in Watch \cup Moved /\ Tail(inotify) \in Seq(Watch \cup Moved)
           /\ ToSet(inotify) = {Head(inotify)} \cup ToSet(Tail(inotify))
           /\ Own(Head(inotify)) \in Seq(Event) /\ Added(Head(inotify)) \in Seq(Event)
<1> DEFINE e == Head(inotify)
           fresh == {h \in halves \ Stale : h.cookie = e.cookie}
           h0 == CHOOSE h \in fresh : TRUE
<1>1. /\ e \in Watch \cup Moved /\ Tail(inotify) \in Seq(Watch \cup Moved)
      /\ ToSet(inotify) = {e} \cup ToSet(Tail(inotify))
  <2>1. inotify \in Seq(Watch \cup Moved)
    BY DEF Typed
  <2> QED BY <2>1, TailSet
<1>2. Own(e) \in Seq(Event)
  <2>0. <<>> \in Seq(Event) /\ \A v \in Event : <<v>> \in Seq(Event)
    OBVIOUS
  <2>1. CASE e.kind \in {"made", "gone"}
    <3>1. e \in Watch
      BY <1>1, <2>1 DEF Moved
    <3>2. e \in Event
      BY <3>1 DEF Watch, Event
    <3>3. Own(e) = If(Accepted(e.path), e)
      BY <2>1 DEF Own
    <3> QED BY <2>0, <3>2, <3>3 DEF If
  <2>2. CASE e.kind \notin {"made", "gone"}
    <3>1. e \in Moved
      BY <1>1, <2>2 DEF Watch
    <3>2. e.path \in Paths
      BY <3>1 DEF Moved, Paths
    <3>3. CASE e.kind = "from" \/ ~Accepted(e.path)
      BY <2>2, <3>3 DEF Own
    <3>4. CASE ~(e.kind = "from" \/ ~Accepted(e.path)) /\ fresh = {}
      <4>1. Own(e) = <<Made(e.path)>>
        BY <2>2, <3>4 DEF Own
      <4>2. Made(e.path) \in Event
        BY <3>2 DEF Made, Event
      <4> QED BY <4>1, <4>2
    <3>5. CASE ~(e.kind = "from" \/ ~Accepted(e.path)) /\ fresh # {}
      <4>1. Own(e) = <<Renamed(h0.path, e.path)>>
        BY <2>2, <3>5 DEF Own
      <4>2. h0 \in halves
        BY <3>5
      <4>3. h0.path \in Paths
        BY <4>2 DEF Typed, WatchTypeOK, Paths
      <4>4. Renamed(h0.path, e.path) \in Event
        BY <3>2, <4>3 DEF Renamed, Event
      <4> HIDE DEF h0
      <4> QED BY <2>0, <4>1, <4>4
    <3> QED BY <3>3, <3>4, <3>5
  <2> QED BY <2>1, <2>2
<1>3. Added(e) \in Seq(Event)
  <2>1. Told(Stale) \in Seq(Event)
    BY ToldStale
  <2> QED BY <1>2, <2>1, ConcatSet DEF Added
<1> QED BY <1>1, <1>2, <1>3

\* The callback, as one step.
LEMMA Delivered ==
    ASSUME Typed, Deliver
    PROVE  LET e == Head(inotify) IN
           /\ inotify # <<>> /\ inotify' = Tail(inotify)
           /\ TrySend(Added(e)) /\ halves' = Kept(e) /\ aged' \in {aged, {}}
           /\ e.kind \in {"made", "gone"} => aged' = aged
           /\ e.kind \notin {"made", "gone"} => aged' = {}
           /\ watched' = IF e.path \in Folders THEN watched \cup {e.path} ELSE watched
           /\ UNCHANGED <<tree, edits, reaped, debounce, shown>>
<1> DEFINE e == Head(inotify)
           fresh == {h \in halves \ Stale : h.cookie = e.cookie}
<1>1. /\ inotify # <<>> /\ inotify' = Tail(inotify)
      /\ watched' = IF e.path \in Folders THEN watched \cup {e.path} ELSE watched
      /\ UNCHANGED <<tree, edits, reaped, debounce, shown>>
  BY DEF Deliver
<1>2. CASE e.kind \in {"made", "gone"}
  <2>1. TrySend(If(Accepted(e.path), e)) /\ UNCHANGED <<halves, aged>>
    BY <1>2 DEF Deliver
  <2> QED BY <1>1, <1>2, <2>1 DEF Added, Own, Kept
<1>3. CASE e.kind = "from"
  <2>1. /\ TrySend(Told(Stale)) /\ aged' = {}
        /\ halves' = (halves \ Stale) \cup (IF Accepted(e.path) THEN {e} ELSE {})
    BY <1>3 DEF Deliver
  <2>2. Own(e) = <<>>
    BY <1>3 DEF Own
  <2>3. Told(Stale) \o <<>> = Told(Stale)
    <3>1. Told(Stale) \in Seq(Event)
      BY ToldStale
    <3> QED BY <3>1
  <2>4. Added(e) = Told(Stale)
    BY <1>3, <2>2, <2>3 DEF Added
  <2>5. Kept(e) = (halves \ Stale) \cup (IF Accepted(e.path) THEN {e} ELSE {})
    BY <1>3 DEF Kept
  <2> QED BY <1>1, <1>3, <2>1, <2>4, <2>5
<1>4. CASE e.kind = "to"
  <2>1. /\ TrySend(Told(Stale) \o (IF ~Accepted(e.path) THEN <<>>
                                   ELSE IF fresh = {} THEN <<Made(e.path)>>
                                   ELSE <<Renamed((CHOOSE h \in fresh : TRUE).path, e.path)>>))
        /\ halves' = (halves \ Stale) \ fresh /\ aged' = {}
    BY <1>4 DEF Deliver
  <2>2. Own(e) = IF ~Accepted(e.path) THEN <<>>
                 ELSE IF fresh = {} THEN <<Made(e.path)>>
                 ELSE <<Renamed((CHOOSE h \in fresh : TRUE).path, e.path)>>
    BY <1>4 DEF Own
  <2>3. Added(e) = Told(Stale) \o Own(e) /\ Kept(e) = (halves \ Stale) \ fresh
    BY <1>4 DEF Added, Kept
  <2> QED BY <1>1, <1>4, <2>1, <2>2, <2>3
<1>5. e.kind \in {"made", "gone", "from", "to"}
  BY <1>1, Headed DEF Watch, Moved
<1> QED BY <1>2, <1>3, <1>4, <1>5
-----------------------------------------------------------------------------
\* The types.

\* Nothing is there, under way or shown at first.
LEMMA TypedInit ==
    ASSUME WatchInit
    PROVE  Typed
<1>1. IsFiniteSet(halves) /\ ToSet(<<>>) = {}
  BY FS_EmptySet DEF WatchInit, ToSet
<1>2. 0 \in 0..MaxEdits /\ Capacity \in Nat
  BY LocalEventsAssumption
<1>3. Queued = {}
  BY <1>1 DEF WatchInit, Queued
<1>4. /\ tree \in [Paths -> 0..MaxEdits] /\ shown \in [Paths -> 0..MaxEdits] /\ edits \in 0..MaxEdits
      /\ dropped \in BOOLEAN /\ watched \subseteq Folders \cup {Root}
      /\ aged \subseteq {h.cookie : h \in halves}
      /\ halves = {}
  BY <1>2 DEF WatchInit
<1>5. /\ reaped \in Seq(Files) /\ channel \in Seq(Event) /\ Len(channel) <= Capacity
      /\ inotify \in Seq(Watch \cup Moved) /\ settling \in Seq(Event) /\ forwarded \in Seq(Event)
  BY <1>2 DEF WatchInit
<1>6. \A i, j \in DOMAIN settling : Key(settling[i]) = Key(settling[j]) => i = j
  BY DEF WatchInit
<1>7. ToSet(settling) \cup flushing \cup ToSet(forwarded) \subseteq Event
  BY <1>1 DEF WatchInit
<1> QED BY <1>1, <1>4, <1>5, <1>6, <1>7 DEF Typed, WatchTypeOK

\* An edit adds events to inotify's queue.
LEMMA TypedDo ==
    ASSUME Typed, NEW newTree \in [Paths -> 0..MaxEdits], NEW raw \in Seq(Watch \cup Moved), Do(newTree, raw)
    PROVE  Typed'
<1>1. edits < MaxEdits /\ edits' = edits + 1 /\ tree' = newTree /\ inotify' = inotify \o raw
      /\ UNCHANGED <<watcher, debounce, shown>>
  BY DEF Do
<1>2. edits' \in 0..MaxEdits /\ tree' \in [Paths -> 0..MaxEdits]
  BY <1>1, LocalEventsAssumption DEF Typed, WatchTypeOK
<1>3. inotify' \in Seq(Watch \cup Moved)
  <2>1. inotify \in Seq(Watch \cup Moved)
    BY DEF Typed
  <2> QED BY <1>1, <2>1, ConcatSet
<1> QED BY <1>1, <1>2, <1>3 DEF Typed, WatchTypeOK, watcher, debounce

\* What users report: a change of one path, or the halves of a rename, with a new cookie.
LEMMA RawTypes ==
    ASSUME Typed, edits < MaxEdits
    PROVE  /\ \A x \in Paths : Made(x) \in Watch /\ Gone(x) \in Watch /\ Half("to", x, edits + 1) \in Moved
           /\ \A x \in Files : Half("from", x, edits + 1) \in Moved
           /\ edits + 1 \in 1..MaxEdits
<1>1. edits + 1 \in 1..MaxEdits
  BY LocalEventsAssumption DEF Typed, WatchTypeOK
<1> QED BY <1>1 DEF Made, Gone, Half, Watch, Moved

\* The types, by the steps of users.
LEMMA TypedUser ==
    ASSUME Typed, UserStep
    PROVE  Typed'
<1>0. tree \in [Paths -> 0..MaxEdits] /\ edits \in Nat /\ 0 \in 0..MaxEdits
  BY LocalEventsAssumption DEF Typed, WatchTypeOK
<1>1. edits < MaxEdits
  BY DEF UserStep, Write, Unlink, MoveIn, MoveOut, Rename, Do
<1>2. edits + 1 \in 1..MaxEdits /\ edits + 1 \in 0..MaxEdits
  BY <1>0, <1>1, LocalEventsAssumption
<1>4. \A v, w \in Watch \cup Moved : <<v>> \in Seq(Watch \cup Moved) /\ <<v, w>> \in Seq(Watch \cup Moved)
  OBVIOUS
<1>3. ASSUME NEW v \in Watch \cup Moved, NEW b
      PROVE  If(b, v) \in Seq(Watch \cup Moved)
  <2>1. <<>> \in Seq(Watch \cup Moved) /\ <<v>> \in Seq(Watch \cup Moved)
    BY <1>4
  <2>2. If(b, v) = <<v>> \/ If(b, v) = <<>>
    BY DEF If
  <2> QED BY <2>1, <2>2
<1>5. PICK x \in Paths : Write(x) \/ Unlink(x) \/ MoveIn(x) \/ MoveOut(x) \/ \E y \in Paths : Rename(x, y)
  BY DEF UserStep
<1>7. CASE Write(x)
  <2>1. Do([tree EXCEPT ![x] = edits + 1], If(Reports(x), Made(x)))
    BY <1>7 DEF Write
  <2>2. [tree EXCEPT ![x] = edits + 1] \in [Paths -> 0..MaxEdits]
    BY <1>0, <1>2
  <2>3. If(Reports(x), Made(x)) \in Seq(Watch \cup Moved)
    BY <1>1, <1>3, RawTypes
  <2> QED BY <2>1, <2>2, <2>3, TypedDo
<1>8. CASE Unlink(x)
  <2>1. Do([tree EXCEPT ![x] = 0], If(Reports(x), Gone(x)))
    BY <1>8 DEF Unlink
  <2>2. [tree EXCEPT ![x] = 0] \in [Paths -> 0..MaxEdits]
    BY <1>0, <1>2
  <2>3. If(Reports(x), Gone(x)) \in Seq(Watch \cup Moved)
    BY <1>1, <1>3, RawTypes
  <2> QED BY <2>1, <2>2, <2>3, TypedDo
<1>9. CASE MoveIn(x)
  <2>1. PICK with \in SUBSET {y \in Files : Parent[y] = x} :
          Do([y \in Paths |-> IF y \in {x} \cup with THEN edits + 1 ELSE tree[y]],
               <<Half("to", x, edits + 1)>>)
    BY <1>9 DEF MoveIn
  <2>2. [y \in Paths |-> IF y \in {x} \cup with THEN edits + 1 ELSE tree[y]] \in [Paths -> 0..MaxEdits]
    BY <1>0, <1>2
  <2>3. <<Half("to", x, edits + 1)>> \in Seq(Watch \cup Moved)
    BY <1>1, <1>4, RawTypes
  <2> QED BY <2>1, <2>2, <2>3, TypedDo
<1>10. CASE MoveOut(x)
  <2>1. x \in Files /\ Do([tree EXCEPT ![x] = 0], <<Half("from", x, edits + 1)>>)
    BY <1>10 DEF MoveOut
  <2>2. [tree EXCEPT ![x] = 0] \in [Paths -> 0..MaxEdits]
    BY <1>0, <1>2
  <2>3. <<Half("from", x, edits + 1)>> \in Seq(Watch \cup Moved)
    BY <1>1, <1>4, <2>1, RawTypes
  <2> QED BY <2>1, <2>2, <2>3, TypedDo
<1>11. CASE \E y \in Paths : Rename(x, y)
  <2>1. PICK y \in Paths : Rename(x, y)
    BY <1>11
  <2>2. x \in Files /\ Do([tree EXCEPT ![x] = 0, ![y] = tree[x]],
                          <<Half("from", x, edits + 1), Half("to", y, edits + 1)>>)
    BY <2>1 DEF Rename
  <2>3. [tree EXCEPT ![x] = 0, ![y] = tree[x]] \in [Paths -> 0..MaxEdits]
    BY <1>0, <1>2
  <2>4. <<Half("from", x, edits + 1), Half("to", y, edits + 1)>> \in Seq(Watch \cup Moved)
    BY <1>1, <1>4, <2>2, RawTypes
  <2> QED BY <2>2, <2>3, <2>4, TypedDo
<1> QED BY <1>5, <1>7, <1>8, <1>9, <1>10, <1>11

\* By the notify callback: what it sends fits into the channel, or is cut off.
LEMMA TypedDeliver ==
    ASSUME Typed, Deliver
    PROVE  Typed'
<1> DEFINE e == Head(inotify)
<1>1. /\ inotify # <<>> /\ inotify' = Tail(inotify)
      /\ TrySend(Added(e)) /\ halves' = Kept(e) /\ aged' \in {aged, {}}
      /\ e.kind \in {"made", "gone"} => aged' = aged
      /\ e.kind \notin {"made", "gone"} => aged' = {}
      /\ watched' = IF e.path \in Folders THEN watched \cup {e.path} ELSE watched
      /\ UNCHANGED <<tree, edits, reaped, debounce, shown>>
  BY Delivered
<1>2. e \in Watch \cup Moved /\ inotify' \in Seq(Watch \cup Moved) /\ Added(e) \in Seq(Event)
  BY <1>1, Headed
<1>3. channel' \in Seq(Event) /\ Len(channel') <= Capacity /\ dropped' \in BOOLEAN
  BY <1>1, <1>2, Sent
<1>4. watched' \subseteq Folders \cup {Root}
  BY <1>1 DEF Typed, WatchTypeOK
<1>5. IsFiniteSet(halves \ Stale) /\ IsFiniteSet(halves)
  BY ToldStale DEF Typed
<1>6. /\ halves' \subseteq [kind : {"from"}, path : Files \ Ignored, cookie : 1..MaxEdits]
      /\ IsFiniteSet(halves') /\ aged' \subseteq {h.cookie : h \in halves'}
  <2>0. halves \subseteq [kind : {"from"}, path : Files \ Ignored, cookie : 1..MaxEdits]
    BY DEF Typed, WatchTypeOK
  <2>1. CASE e.kind \in {"made", "gone"}
    <3>1. halves' = halves /\ aged' = aged
      BY <1>1, <2>1 DEF Kept
    <3> QED BY <2>0, <3>1, <1>5 DEF Typed, WatchTypeOK
  <2>2. CASE e.kind = "from"
    <3>1. halves' = (halves \ Stale) \cup (IF Accepted(e.path) THEN {e} ELSE {}) /\ aged' = {}
      BY <1>1, <2>2 DEF Kept
    <3>2. e \in [kind : {"from"}, path : Files, cookie : 1..MaxEdits]
      BY <1>2, <2>2 DEF Watch, Moved
    <3>3. Accepted(e.path) => e \in [kind : {"from"}, path : Files \ Ignored, cookie : 1..MaxEdits]
      BY <3>2 DEF Accepted
    <3>4. IsFiniteSet((halves \ Stale) \cup {e}) /\ IsFiniteSet((halves \ Stale) \cup {})
      BY <1>5, FS_AddElement
    <3> QED BY <2>0, <3>1, <3>3, <3>4
  <2>3. CASE e.kind \notin {"made", "gone", "from"}
    <3>1. halves' = (halves \ Stale) \ {h \in halves \ Stale : h.cookie = e.cookie} /\ aged' = {}
      BY <1>1, <2>3 DEF Kept
    <3>2. halves' \subseteq halves
      BY <3>1
    <3>3. IsFiniteSet(halves')
      BY <1>5, <3>2, FS_Subset
    <3> QED BY <2>0, <3>1, <3>2, <3>3
  <2> QED BY <2>1, <2>2, <2>3
<1>7. UNCHANGED <<tree, edits, reaped, settling, flushing, forwarded, shown>>
  BY <1>1 DEF debounce
<1> QED BY <1>2, <1>3, <1>4, <1>6, <1>7 DEF Typed, WatchTypeOK

\* By the reaper.
LEMMA TypedReaper ==
    ASSUME Typed, Reap \/ SendReaped \/ \E h \in halves : Age(h)
    PROVE  Typed'
<1>1. CASE Reap
  <2>1. /\ reaped' = SetToSeq({h.path : h \in Stale}) /\ halves' = halves \ Stale /\ aged' = {}
        /\ UNCHANGED <<tree, edits, inotify, watched, channel, dropped, settling, flushing, forwarded, shown>>
    BY <1>1 DEF Reap, world, debounce
  <2>2. Stale \subseteq halves /\ IsFiniteSet(halves)
    BY DEF Stale, Typed
  <2>3. IsFiniteSet(Stale) /\ IsFiniteSet(halves \ Stale)
    BY <2>2, FS_Subset
  <2>4. {h.path : h \in Stale} \subseteq Files
    BY <2>2 DEF Typed, WatchTypeOK
  <2>5. reaped' \in Seq(Files)
    BY <2>1, <2>3, <2>4, FinitePaths, SetAsSeq
  <2> QED BY <2>1, <2>3, <2>5 DEF Typed, WatchTypeOK
<1>2. CASE SendReaped
  <2>1. /\ reaped # <<>> /\ Len(channel) < Capacity
        /\ channel' = Append(channel, Gone(Head(reaped))) /\ reaped' = Tail(reaped)
        /\ UNCHANGED <<tree, edits, inotify, watched, halves, aged, dropped>>
        /\ UNCHANGED <<settling, flushing, forwarded, shown>>
    BY <1>2 DEF SendReaped, world, debounce
  <2>2. Head(reaped) \in Files /\ reaped' \in Seq(Files)
    BY <2>1, TailSet DEF Typed, WatchTypeOK
  <2>3. Gone(Head(reaped)) \in Event
    BY <2>2 DEF Gone, Event, Paths
  <2>4. channel \in Seq(Event) /\ Capacity \in Nat
    BY LocalEventsAssumption DEF Typed, WatchTypeOK
  <2>5. channel' \in Seq(Event) /\ Len(channel') = Len(channel) + 1 /\ Len(channel) \in Nat
    BY <2>1, <2>3, <2>4
  <2>6. Len(channel') <= Capacity
    BY <2>1, <2>4, <2>5
  <2> QED BY <2>1, <2>2, <2>5, <2>6 DEF Typed, WatchTypeOK
<1>3. CASE \E h \in halves : Age(h)
  <2>1. PICK h \in halves : Age(h)
    BY <1>3
  <2>2. /\ aged' = aged \cup {h.cookie}
        /\ UNCHANGED <<tree, edits, inotify, watched, halves, reaped, channel, dropped,
                       settling, flushing, forwarded, shown>>
    BY <2>1 DEF Age, world, debounce
  <2> QED BY <2>2 DEF Typed, WatchTypeOK
<1> QED BY <1>1, <1>2, <1>3

\* By the debouncer: an event takes the place of that of its key, so that keys stay apart.
LEMMA TypedDebounce ==
    ASSUME Typed, Receive \/ (\E n \in DOMAIN settling : Flush(n)) \/ \E e \in flushing : Forward(e)
    PROVE  Typed'
<1>0. /\ settling \in Seq(Event) /\ channel \in Seq(Event) /\ forwarded \in Seq(Event)
      /\ ToSet(settling) \cup flushing \cup ToSet(forwarded) \subseteq Event
      /\ \A i, j \in DOMAIN settling : Key(settling[i]) = Key(settling[j]) => i = j
      /\ DOMAIN settling = 1..Len(settling) /\ Len(settling) \in Nat
  BY DEF Typed, WatchTypeOK
<1>1. CASE Receive
  <2> DEFINE e == Head(channel)
             others == {f \in ToSet(settling) : Key(f) # Key(e)}
             s == Only(settling, others)
  <2>1. /\ channel # <<>> /\ settling' = Append(s, e) /\ channel' = Tail(channel)
        /\ UNCHANGED <<tree, edits, inotify, watched, halves, aged, reaped, dropped>>
        /\ UNCHANGED <<flushing, forwarded, shown>>
    BY <1>1 DEF Receive, world
  <2>2. e \in Event /\ channel' \in Seq(Event)
    BY <1>0, <2>1, TailSet
  <2>3. s \in Seq(Event) /\ ToSet(s) = ToSet(settling) \cap others
    BY <1>0, OnlyKeeps
  <2>4. settling' \in Seq(Event) /\ ToSet(settling') = ToSet(s) \cup {e}
    BY <2>1, <2>2, <2>3, AppendSet
  <2>5. Len(channel') <= Capacity
    <3>1. /\ Len(channel') = Len(channel) - 1 /\ Len(channel) \in Nat
          /\ Len(channel) <= Capacity /\ Capacity \in Nat
      BY <1>0, <2>1, LocalEventsAssumption DEF Typed, WatchTypeOK
    <3> QED BY <3>1
  <2>6. \A i, j \in DOMAIN settling' : Key(settling'[i]) = Key(settling'[j]) => i = j
    <3>1. \A i, j \in DOMAIN settling : i < j => <<settling[i], settling[j]>> \in KeysDiffer
      <4>1. \A i \in DOMAIN settling : settling[i] \in Event
        BY <1>0
      <4> QED BY <1>0, <4>1 DEF KeysDiffer
    <3>2. \A i, j \in DOMAIN s : i < j => <<s[i], s[j]>> \in KeysDiffer
      BY <1>0, <3>1, OnlyPairs
    <3>3. \A i, j \in DOMAIN s : i < j => Key(s[i]) # Key(s[j])
      BY <3>2 DEF KeysDiffer
    <3>4. DOMAIN s = 1..Len(s) /\ Len(s) \in Nat /\ DOMAIN settling' = 1..Len(s) + 1
          /\ (\A i \in 1..Len(s) : settling'[i] = s[i]) /\ settling'[Len(s) + 1] = e
      BY <2>1, <2>2, <2>3
    <3>5. \A i \in DOMAIN s : Key(s[i]) # Key(e)
      BY <2>3 DEF ToSet
    <3>6. ASSUME NEW i \in DOMAIN settling', NEW j \in DOMAIN settling', i < j
          PROVE  Key(settling'[i]) # Key(settling'[j])
      <4>1. i \in DOMAIN s /\ settling'[i] = s[i]
        BY <3>4, <3>6
      <4>2. CASE j \in DOMAIN s
        BY <3>3, <3>4, <3>6, <4>1, <4>2
      <4>3. CASE j \notin DOMAIN s
        <5>1. settling'[j] = e
          BY <3>4, <4>3
        <5> QED BY <3>5, <4>1, <5>1
      <4> QED BY <4>2, <4>3
    <3>7. \A i, j \in DOMAIN settling' : i < j \/ j < i \/ i = j
      BY <3>4
    <3> QED BY <3>6, <3>7
  <2>7. ToSet(settling') \subseteq Event
    BY <1>0, <2>2, <2>3, <2>4
  <2> QED BY <2>1, <2>2, <2>4, <2>5, <2>6, <2>7 DEF Typed, WatchTypeOK
<1>2. CASE \E n \in DOMAIN settling : Flush(n)
  <2>1. PICK n \in DOMAIN settling : Flush(n)
    BY <1>2
  <2>2. /\ flushing' = {settling[i] : i \in 1..n} /\ settling' = SubSeq(settling, n + 1, Len(settling))
        /\ UNCHANGED <<tree, edits, inotify, watched, halves, aged, reaped, channel, dropped, forwarded, shown>>
    BY <2>1 DEF Flush, world, watcher
  <2>3. /\ settling' \in Seq(Event) /\ DOMAIN settling' = 1..Len(settling) - n
        /\ \A i \in 1..Len(settling) - n : settling'[i] = settling[n + i] /\ n + i \in DOMAIN settling
    BY <1>0, <2>2
  <2>4. flushing' \subseteq Event
    BY <1>0, <2>2
  <2>5. ToSet(settling') \subseteq Event
    BY <1>0, <2>3 DEF ToSet
  <2>6. \A i, j \in DOMAIN settling' : Key(settling'[i]) = Key(settling'[j]) => i = j
    <3>1. \A i, j \in 1..Len(settling) - n : n + i = n + j => i = j
      BY <1>0
    <3> QED BY <1>0, <2>3, <3>1
  <2> QED BY <1>0, <2>2, <2>3, <2>4, <2>5, <2>6 DEF Typed, WatchTypeOK
<1>3. CASE \E e \in flushing : Forward(e)
  <2>1. PICK e \in flushing : Forward(e)
    BY <1>3
  <2>2. /\ flushing' = flushing \ {e} /\ forwarded' = Append(forwarded, e)
        /\ UNCHANGED <<tree, edits, inotify, watched, halves, aged, reaped, channel, dropped, settling, shown>>
    BY <2>1 DEF Forward, world, watcher
  <2>3. forwarded' \in Seq(Event) /\ ToSet(forwarded') = ToSet(forwarded) \cup {e}
    BY <1>0, <2>2, AppendSet
  <2> QED BY <1>0, <2>2, <2>3 DEF Typed, WatchTypeOK
<1> QED BY <1>1, <1>2, <1>3

\* By the reconciler.
LEMMA TypedApply ==
    ASSUME Typed, Apply
    PROVE  Typed'
<1> DEFINE e == Head(forwarded)
<1>1. /\ forwarded # <<>> /\ forwarded' = Tail(forwarded)
      /\ UNCHANGED <<tree, edits, inotify, watched, halves, aged, reaped, channel, dropped, settling, flushing>>
  BY DEF Apply, world, watcher
<1>2. e \in Event /\ forwarded' \in Seq(Event) /\ ToSet(forwarded') \subseteq ToSet(forwarded)
  BY <1>1, TailSet DEF Typed
<1>3. tree \in [Paths -> 0..MaxEdits] /\ shown \in [Paths -> 0..MaxEdits] /\ 0 \in 0..MaxEdits
  BY LocalEventsAssumption DEF Typed, WatchTypeOK
<1>4. e.path \in Paths /\ e.from \in Paths
  BY <1>2 DEF Event
<1>5. shown' \in [Paths -> 0..MaxEdits]
  <2>1. CASE e.kind = "made" \/ (e.kind = "renamed" /\ ~Tracked(e.from))
    <3>1. shown' = OnMade(e.path)
      BY <2>1 DEF Apply
    <3> QED BY <1>3, <3>1 DEF OnMade
  <2>2. CASE ~(e.kind = "made" \/ (e.kind = "renamed" /\ ~Tracked(e.from))) /\ e.kind = "gone"
    <3>1. shown' = [shown EXCEPT ![e.path] = 0]
      BY <2>2 DEF Apply
    <3> QED BY <1>3, <3>1
  <2>3. CASE ~(e.kind = "made" \/ (e.kind = "renamed" /\ ~Tracked(e.from))) /\ e.kind # "gone"
    <3>1. shown' = [shown EXCEPT ![e.path] = shown[e.from], ![e.from] = 0]
      BY <2>3 DEF Apply
    <3> QED BY <1>3, <1>4, <3>1
  <2> QED BY <2>1, <2>2, <2>3
<1> QED BY <1>1, <1>2, <1>5 DEF Typed, WatchTypeOK

\* By every step.
LEMMA TypedStep ==
    ASSUME Typed, [WatchNext]_watchVars
    PROVE  Typed'
<1>1. CASE UserStep
  BY <1>1, TypedUser
<1>2. CASE DaemonStep
  BY <1>2, TypedDeliver, TypedReaper, TypedDebounce, TypedApply DEF DaemonStep
<1>3. CASE UNCHANGED watchVars
  BY <1>3 DEF watchVars, world, watcher, debounce, Typed, WatchTypeOK
<1> QED BY <1>1, <1>2, <1>3 DEF WatchNext

\* The types hold throughout, and the bounds of the channel and of the debouncer's map:
\* what is sent to the channel never exceeds its capacity, and there is one pending event
\* per key.
THEOREM WatchTypeCorrect == WatchSpec => []WatchTypeOK
<1>1. WatchInit => Typed
  BY TypedInit
<1>2. Typed /\ [WatchNext]_watchVars => Typed'
  BY TypedStep
<1>3. Typed => WatchTypeOK
  BY DEF Typed
<1> QED BY <1>1, <1>2, <1>3, PTL DEF WatchSpec
-----------------------------------------------------------------------------
\* The words of a path: the events under way that speak of it.

Moves(e)     == e.kind \in {"from", "to", "renamed"}
Speaks(e, x) == e.path = x \/ (e.kind = "renamed" /\ e.from = x)
Tells(S, x)  == \E e \in S : Speaks(e, x)

\* Does the word say whether the path is there, of which the tree has t?
Right(e, x, t)    == t # 0 <=> (e.path = x /\ e.kind \in {"made", "to", "renamed"})
AllRight(S, x, t) == \A e \in S : Speaks(e, x) => Right(e, x, t)

\* The last word of a queue is right.
LastRight(s, x, t) ==
    \A i \in DOMAIN s :
        Speaks(s[i], x) /\ (\A j \in DOMAIN s : j > i => ~Speaks(s[j], x)) => Right(s[i], x, t)

Raw   == ToSet(inotify)
Words == Raw \cup halves \cup Queued

\* The newest word of a path is right, wherever on its way it is.
NewestRight(x) ==
    /\ LastRight(inotify, x, tree[x])
    /\ ~Tells(Raw, x) => LastRight(channel, x, tree[x])
    /\ ~Tells(Raw, x) /\ ~Tells(ToSet(channel), x) => AllRight(ToSet(settling), x, tree[x])
    /\ ~Tells(Raw, x) /\ ~Tells(ToSet(channel), x) /\ ~Tells(ToSet(settling), x) =>
         AllRight(flushing, x, tree[x])
    /\ ~Tells(Raw, x) /\ ~Tells(ToSet(channel), x) /\ ~Tells(ToSet(settling), x) /\ ~Tells(flushing, x) =>
         LastRight(forwarded, x, tree[x])

Silent(x) == ~Tells(Words, x) /\ x \notin ToSet(reaped)

\* Its folder is going to be walked.
Covered(x) == \E e \in Raw \cup Queued : e.path = Parent[x]

DriveKnows ==
    \A x \in Paths \ Ignored :
        NewestRight(x) /\ (Silent(x) => shown[x] = tree[x] \/ (Covered(x) /\ shown[x] = 0))

\* The two halves of a rename, and what Drive has of them.
PairOK(x, y) ==
    /\ {x, y} \subseteq Files /\ x # y
    /\ y \in Ignored => x \in Ignored
    /\ shown[x] \in {0, tree[y]}

\* A move is the only word of its paths, and right.
MovesAlone ==
    /\ \A e, f \in Words : \A x \in Paths : Moves(e) /\ Speaks(e, x) /\ Speaks(f, x) => e = f
    /\ \A e \in Words : \A x \in Paths : Moves(e) /\ Speaks(e, x) => Right(e, x, tree[x])
    /\ \A x \in ToSet(reaped) : ~Tells(Words, x) /\ ~Exists(x)
    /\ \A i, j \in DOMAIN reaped : reaped[i] = reaped[j] => i = j
    /\ \A i, j \in DOMAIN inotify : inotify[i] = inotify[j] /\ Moves(inotify[i]) => i = j
    /\ halves \cap Raw = {}

HalvesPair ==
    /\ \A e \in Queued : e.kind = "renamed" => PairOK(e.from, e.path) /\ e.from \notin Ignored
    /\ \A e \in Raw \cup halves, f \in Raw :
         e.kind = "from" /\ f.kind = "to" /\ e.cookie = f.cookie => PairOK(e.path, f.path)
    /\ \A e, f \in Raw \cup halves : e.kind = "from" /\ f.kind = "from" /\ e.cookie = f.cookie => e = f
    /\ \A e \in Raw \cup halves : Moves(e) => e.cookie <= edits

\* A folder is watched as soon as its event is delivered.  Until then nothing is told of
\* what is in it.
FoldersWatched ==
    /\ Root \in watched
    /\ \A x \in Paths : Exists(x) /\ Parent[x] # Root => Exists(Parent[x])
    /\ \A d \in watched : d # Root => Exists(d)
    /\ \A e \in Raw \cup Queued : e.path \in Folders => e.kind \in {"made", "to"} /\ Exists(e.path)
    /\ \A e \in Queued : e.path \in Folders => e.path \in watched
    /\ \A d \in Folders \ watched : \A x \in Paths : Parent[x] = d => Silent(x) /\ shown[x] = 0
    /\ \A d \in Folders \ watched : Exists(d) => \E e \in Raw : e.path = d

IgnoredApart ==
    \A x \in Ignored : shown[x] = 0 /\ x \notin ToSet(reaped) /\ ~Tells(halves \cup Queued, x)

EventsInv == MovesAlone /\ HalvesPair /\ FoldersWatched /\ IgnoredApart /\ DriveKnows
-----------------------------------------------------------------------------
\* Words in sequences.

\* The first event leaves the queue: it was right if it was the last word.
LEMMA TailWords ==
    ASSUME NEW X, NEW s \in Seq(X), s # <<>>, NEW x, NEW t, LastRight(s, x, t)
    PROVE  /\ LastRight(Tail(s), x, t)
           /\ ~Tells(ToSet(Tail(s)), x) /\ Speaks(Head(s), x) => Right(Head(s), x, t)
<1>1. /\ DOMAIN s = 1..Len(s) /\ Len(s) \in Nat /\ Len(s) >= 1 /\ DOMAIN Tail(s) = 1..Len(s) - 1
      /\ \A i \in 1..Len(s) - 1 : Tail(s)[i] = s[i + 1]
      /\ Head(s) = s[1]
  OBVIOUS
<1>2. \A i \in 2..Len(s) : s[i] = Tail(s)[i - 1] /\ i - 1 \in DOMAIN Tail(s)
  BY <1>1
<1>3. ASSUME NEW i \in DOMAIN Tail(s), Speaks(Tail(s)[i], x),
             \A j \in DOMAIN Tail(s) : j > i => ~Speaks(Tail(s)[j], x)
      PROVE  Right(Tail(s)[i], x, t)
  <2>1. i + 1 \in DOMAIN s /\ Tail(s)[i] = s[i + 1]
    BY <1>1
  <2>2. ASSUME NEW j \in DOMAIN s, j > i + 1
        PROVE  ~Speaks(s[j], x)
    <3>1. j \in 2..Len(s) /\ j - 1 > i
      BY <1>1, <2>2
    <3> QED BY <1>2, <1>3, <3>1
  <2> QED BY <1>3, <2>1, <2>2 DEF LastRight
<1>4. ASSUME ~Tells(ToSet(Tail(s)), x), Speaks(Head(s), x)
      PROVE  Right(Head(s), x, t)
  <2>1. \A i \in DOMAIN Tail(s) : ~Speaks(Tail(s)[i], x)
    BY <1>4 DEF Tells, ToSet
  <2>2. ASSUME NEW j \in DOMAIN s, j > 1
        PROVE  ~Speaks(s[j], x)
    <3>1. j \in 2..Len(s)
      BY <1>1, <2>2
    <3> QED BY <1>2, <2>1, <3>1
  <2>3. 1 \in DOMAIN s /\ Speaks(s[1], x)
    BY <1>1, <1>4
  <2> QED BY <1>1, <2>2, <2>3 DEF LastRight
<1> QED BY <1>3, <1>4 DEF LastRight

\* Right words behind others.
LEMMA ConcatWords ==
    ASSUME NEW X, NEW s \in Seq(X), NEW r \in Seq(X), NEW x, NEW t,
           ~Tells(ToSet(r), x) => LastRight(s, x, t), LastRight(r, x, t)
    PROVE  LastRight(s \o r, x, t)
<1>1. /\ DOMAIN s = 1..Len(s) /\ Len(s) \in Nat /\ DOMAIN r = 1..Len(r) /\ Len(r) \in Nat
      /\ DOMAIN (s \o r) = 1..Len(s) + Len(r)
      /\ \A i \in 1..Len(s) : (s \o r)[i] = s[i]
      /\ \A i \in 1..Len(r) : (s \o r)[Len(s) + i] = r[i]
  OBVIOUS
<1>2. SUFFICES ASSUME NEW i \in DOMAIN (s \o r), Speaks((s \o r)[i], x),
                      \A j \in DOMAIN (s \o r) : j > i => ~Speaks((s \o r)[j], x)
               PROVE  Right((s \o r)[i], x, t)
  BY DEF LastRight
<1>3. CASE i \in 1..Len(s)
  <2>1. \A k \in DOMAIN r : ~Speaks(r[k], x)
    <3>1. \A k \in DOMAIN r : Len(s) + k \in DOMAIN (s \o r) /\ Len(s) + k > i
      BY <1>1, <1>3
    <3> QED BY <1>1, <1>2, <3>1
  <2>2. LastRight(s, x, t)
    BY <2>1 DEF Tells, ToSet
  <2>3. \A j \in DOMAIN s : j > i => ~Speaks(s[j], x)
    <3>1. DOMAIN s \subseteq DOMAIN (s \o r)
      BY <1>1
    <3> QED BY <1>1, <1>2, <3>1
  <2>4. (s \o r)[i] = s[i] /\ i \in DOMAIN s
    BY <1>1, <1>3
  <2> QED BY <1>2, <2>2, <2>3, <2>4 DEF LastRight
<1>4. CASE i \notin 1..Len(s)
  <2>1. PICK k \in 1..Len(r) : i = Len(s) + k
    <3>1. i - Len(s) \in 1..Len(r) /\ i = Len(s) + (i - Len(s))
      BY <1>1, <1>4
    <3> QED BY <3>1
  <2>2. (s \o r)[i] = r[k] /\ k \in DOMAIN r
    BY <1>1, <2>1
  <2>3. \A j \in DOMAIN r : j > k => ~Speaks(r[j], x)
    <3>1. \A j \in DOMAIN r : j > k => Len(s) + j > i /\ Len(s) + j \in DOMAIN (s \o r)
      BY <1>1, <2>1
    <3> QED BY <1>1, <1>2, <3>1
  <2> QED BY <1>2, <2>2, <2>3 DEF LastRight
<1> QED BY <1>3, <1>4

\* Right words only.
LEMMA AllLast ==
    ASSUME NEW s, NEW x, NEW t, AllRight(ToSet(s), x, t)
    PROVE  LastRight(s, x, t)
BY DEF AllRight, LastRight, ToSet

\* An event behind others.
LEMMA AppendWords ==
    ASSUME NEW X, NEW s \in Seq(X), NEW e \in X, NEW x, NEW t,
           IF Speaks(e, x) THEN Right(e, x, t) ELSE LastRight(s, x, t)
    PROVE  LastRight(Append(s, e), x, t)
<1>1. <<e>> \in Seq(X) /\ Append(s, e) = s \o <<e>> /\ ToSet(<<e>>) = {e}
  BY DEF ToSet
<1>2. LastRight(<<e>>, x, t)
  BY <1>1, AllLast DEF AllRight
<1>3. ~Tells(ToSet(<<e>>), x) => LastRight(s, x, t)
  BY <1>1 DEF Tells
<1> QED BY <1>1, <1>2, <1>3, ConcatWords
-----------------------------------------------------------------------------
\* The steps of the debouncer: the words go on, and none is lost.

\* A step that only moves words on, or drops some that others of its paths replace.
LEMMA WordsGoOn ==
    ASSUME EventsInv, UNCHANGED <<tree, edits, inotify, watched, halves, reaped, shown>>,
           Queued' \subseteq Queued,
           \A x \in Paths : Tells(Queued, x) => Tells(Queued', x),
           \A e \in Queued : \E f \in Queued' : f.path = e.path,
           \A x \in Paths \ Ignored : NewestRight(x)'
    PROVE  EventsInv'
<1>1. Raw' = Raw /\ Words' \subseteq Words /\ reaped' = reaped
  BY DEF Raw, Words
<1>2. \A x : Tells(Words', x) => Tells(Words, x)
  BY <1>1 DEF Tells
<1>3. \A x \in Paths : Tells(Words, x) => Tells(Words', x)
  BY <1>1 DEF Words, Tells
<1>4. MovesAlone'
  BY <1>1, <1>2 DEF EventsInv, MovesAlone, Exists
<1>5. HalvesPair'
  BY <1>1 DEF EventsInv, HalvesPair, PairOK
<1>6. \A x \in Paths : Silent(x)' <=> Silent(x)
  BY <1>1, <1>2, <1>3 DEF Silent
<1>7. FoldersWatched'
  BY <1>1, <1>6 DEF EventsInv, FoldersWatched, Exists
<1>8. IgnoredApart'
  BY <1>1 DEF EventsInv, IgnoredApart, Tells
<1>9. ASSUME NEW x \in Paths, Covered(x)
      PROVE  Covered(x)'
  BY <1>1, <1>9 DEF Covered
<1>10. DriveKnows'
  <2>1. SUFFICES ASSUME NEW x \in Paths \ Ignored, Silent(x)'
                 PROVE  shown'[x] = tree'[x] \/ (Covered(x)' /\ shown'[x] = 0)
    BY DEF DriveKnows
  <2>2. shown[x] = tree[x] \/ (Covered(x) /\ shown[x] = 0)
    BY <1>6, <2>1 DEF EventsInv, DriveKnows
  <2> QED BY <1>9, <2>1, <2>2
<1> QED BY <1>4, <1>5, <1>7, <1>8, <1>10 DEF EventsInv

\* What is under way is typed.
LEMMA QueuedTypes ==
    ASSUME Typed
    PROVE  Queued \subseteq Event /\ Raw \subseteq Watch \cup Moved
<1>1. ToSet(channel) \subseteq Event
  BY DEF Typed, WatchTypeOK, ToSet
<1>2. ToSet(settling) \cup flushing \cup ToSet(forwarded) \subseteq Event
  BY DEF Typed, WatchTypeOK
<1>3. ToSet(inotify) \subseteq Watch \cup Moved
  BY DEF Typed, ToSet
<1> QED BY <1>1, <1>2, <1>3 DEF Queued, Raw

\* A half grows old: nothing moves.
LEMMA InvAge ==
    ASSUME Typed, EventsInv, NEW h \in halves, Age(h)
    PROVE  EventsInv'
<1>1. UNCHANGED <<tree, edits, inotify, watched, halves, reaped, channel, settling, flushing, forwarded, shown>>
  BY DEF Age, world, debounce
<1>2. Queued' = Queued
  BY <1>1 DEF Queued
<1>3. \A x \in Paths \ Ignored : NewestRight(x)'
  BY <1>1 DEF EventsInv, DriveKnows, NewestRight, Raw
<1> QED BY <1>1, <1>2, <1>3, WordsGoOn

\* An event enters the map: what it replaces is older, and no half of a rename.
LEMMA InvReceive ==
    ASSUME Typed, EventsInv, Receive
    PROVE  EventsInv'
<1> DEFINE e == Head(channel)
           others == {f \in ToSet(settling) : Key(f) # Key(e)}
           s == Only(settling, others)
<1>1. /\ channel # <<>> /\ settling' = Append(s, e) /\ channel' = Tail(channel)
      /\ UNCHANGED <<tree, edits, inotify, watched, halves, reaped, flushing, forwarded, shown>>
  BY DEF Receive, world
<1>2. channel \in Seq(Event) /\ settling \in Seq(Event)
  BY DEF Typed, WatchTypeOK
<1>3. e \in Event /\ channel' \in Seq(Event) /\ ToSet(channel) = {e} \cup ToSet(channel')
  BY <1>1, <1>2, TailSet
<1>4. s \in Seq(Event) /\ ToSet(s) = others
  BY <1>2, OnlyKeeps
<1>5. ToSet(settling') = others \cup {e}
  <2>0. s \in Seq(Event) /\ e \in Event
    BY <1>3, <1>4
  <2> HIDE DEF s, e
  <2>1. ToSet(Append(s, e)) = ToSet(s) \cup {e}
    BY <2>0, AppendSet
  <2> USE DEF s, e
  <2> QED BY <1>1, <1>4, <2>1
<1>6. Queued' \subseteq Queued /\ e \in Queued /\ ToSet(settling) \subseteq Queued
  BY <1>1, <1>3, <1>5 DEF Queued
<1>7. \A f \in Queued : f \in Queued' \/ (f \in ToSet(settling) /\ f.path = e.path)
  BY <1>1, <1>3, <1>5 DEF Queued, Key
<1>8. e \in Queued'
  BY <1>5 DEF Queued
<1>9. \A f, g \in Queued : \A x \in Paths : Moves(f) /\ Speaks(f, x) /\ Speaks(g, x) => f = g
  BY DEF EventsInv, MovesAlone, Words
<1>10. \A f \in Queued : f.path \in Paths
  BY QueuedTypes DEF Event
<1>11. ASSUME NEW x \in Paths, Tells(Queued, x)
       PROVE  Tells(Queued', x)
  <2>1. PICK f \in Queued : Speaks(f, x)
    BY <1>11 DEF Tells
  <2>2. CASE f \in Queued'
    BY <2>1, <2>2 DEF Tells
  <2>3. CASE f \notin Queued'
    <3>1. f.path = e.path
      BY <1>7, <2>3
    <3>2. CASE f.path = x
      BY <1>8, <3>1, <3>2 DEF Tells, Speaks
    <3>3. CASE f.path # x
      <4>1. Moves(f) /\ Speaks(f, f.path) /\ Speaks(e, f.path)
        BY <2>1, <3>1, <3>3 DEF Speaks, Moves
      <4>2. f = e
        BY <1>6, <1>9, <1>10, <4>1
      <4> QED BY <1>8, <2>3, <4>2
    <3> QED BY <3>2, <3>3
  <2> QED BY <2>2, <2>3
<1>12. \A f \in Queued : \E g \in Queued' : g.path = f.path
  BY <1>7, <1>8
<1>13. ASSUME NEW x \in Paths \ Ignored
       PROVE  NewestRight(x)'
  <2>1. NewestRight(x)
    BY <1>13 DEF EventsInv, DriveKnows
  <2>2. Raw' = Raw /\ tree' = tree /\ flushing' = flushing /\ forwarded' = forwarded /\ inotify' = inotify
    BY <1>1 DEF Raw
  <2>3. ASSUME ~Tells(Raw, x)
        PROVE  LastRight(channel', x, tree[x])
    <3>1. LastRight(channel, x, tree[x])
      BY <2>1, <2>3 DEF NewestRight
    <3> QED BY <1>1, <1>2, <3>1, TailWords
  <2>4. ASSUME ~Tells(Raw, x), ~Tells(ToSet(channel'), x)
        PROVE  AllRight(ToSet(settling'), x, tree[x])
    <3>1. CASE Speaks(e, x)
      <4>1. LastRight(channel, x, tree[x])
        BY <2>1, <2>4 DEF NewestRight
      <4>2. Right(e, x, tree[x])
        BY <1>1, <1>2, <2>4, <3>1, <4>1, TailWords
      <4>3. ASSUME NEW f \in others, Speaks(f, x)
            PROVE  f = e
        <5>1. f \in Queued /\ f.path # e.path
          BY <1>6, <4>3 DEF Key
        <5>2. Moves(f) \/ Moves(e)
          BY <3>1, <4>3, <5>1 DEF Speaks, Moves
        <5> QED BY <1>6, <1>9, <3>1, <4>3, <5>1, <5>2
      <4> QED BY <1>5, <4>2, <4>3 DEF AllRight
    <3>2. CASE ~Speaks(e, x)
      <4>1. ~Tells(ToSet(channel), x)
        BY <1>3, <2>4, <3>2 DEF Tells
      <4>2. AllRight(ToSet(settling), x, tree[x])
        BY <2>1, <2>4, <4>1 DEF NewestRight
      <4> QED BY <1>5, <3>2, <4>2 DEF AllRight
    <3> QED BY <3>1, <3>2
  <2>5. ASSUME ~Tells(ToSet(channel'), x), ~Tells(ToSet(settling'), x)
        PROVE  ~Tells(ToSet(channel), x) /\ ~Tells(ToSet(settling), x)
    <3>1. ~Speaks(e, x)
      BY <1>5, <2>5 DEF Tells
    <3>2. ~Tells(ToSet(channel), x)
      BY <1>3, <2>5, <3>1 DEF Tells
    <3>3. ASSUME NEW f \in ToSet(settling), Speaks(f, x)
          PROVE  FALSE
      <4>1. f \notin others
        BY <1>5, <2>5, <3>3 DEF Tells
      <4>2. f.path = e.path /\ f.path # x
        BY <3>1, <4>1 DEF Key, Speaks
      <4>3. Moves(f) /\ Speaks(f, f.path) /\ Speaks(e, f.path)
        BY <3>3, <4>2 DEF Speaks, Moves
      <4>4. f = e
        BY <1>6, <1>9, <1>10, <4>3
      <4> QED BY <3>1, <3>3, <4>4
    <3> QED BY <3>2, <3>3 DEF Tells
  <2> QED BY <2>1, <2>2, <2>3, <2>4, <2>5 DEF NewestRight
<1> QED BY <1>1, <1>6, <1>11, <1>12, <1>13, WordsGoOn

\* The oldest entries are due: each path has one.
LEMMA InvFlush ==
    ASSUME Typed, EventsInv, NEW n \in DOMAIN settling, Flush(n)
    PROVE  EventsInv'
<1>1. /\ flushing = {} /\ flushing' = {settling[i] : i \in 1..n}
      /\ settling' = SubSeq(settling, n + 1, Len(settling))
      /\ UNCHANGED <<tree, edits, inotify, watched, halves, reaped, channel, forwarded, shown>>
  BY DEF Flush, world, watcher
<1>2. settling \in Seq(Event) /\ DOMAIN settling = 1..Len(settling) /\ Len(settling) \in Nat
  BY DEF Typed
<1>3. /\ DOMAIN settling' = 1..Len(settling) - n
      /\ \A i \in 1..Len(settling) - n : settling'[i] = settling[n + i] /\ n + i \in DOMAIN settling
  BY <1>1, <1>2
<1>4. ToSet(settling) = flushing' \cup ToSet(settling')
  <2>0. \A i \in 1..n : i \in DOMAIN settling
    BY <1>2
  <2>1. flushing' \subseteq ToSet(settling) /\ ToSet(settling') \subseteq ToSet(settling)
    BY <1>1, <1>3, <2>0 DEF ToSet
  <2>2. ASSUME NEW i \in DOMAIN settling
        PROVE  settling[i] \in flushing' \cup ToSet(settling')
    <3>1. CASE i <= n
      <4>1. i \in 1..n
        BY <1>2, <3>1
      <4> QED BY <1>1, <4>1
    <3>2. CASE i > n
      <4>1. i - n \in DOMAIN settling' /\ n + (i - n) = i
        BY <1>2, <1>3, <3>2
      <4>2. settling'[i - n] = settling[i]
        BY <1>3, <4>1
      <4> QED BY <4>1, <4>2 DEF ToSet
    <3> QED BY <1>2, <3>1, <3>2
  <2> QED BY <2>1, <2>2 DEF ToSet
<1>5. Queued' = Queued
  BY <1>1, <1>4 DEF Queued
<1>6. ASSUME NEW x \in Paths \ Ignored
      PROVE  NewestRight(x)'
  <2>1. NewestRight(x)
    BY <1>6 DEF EventsInv, DriveKnows
  <2>2. /\ Raw' = Raw /\ tree' = tree /\ forwarded' = forwarded /\ inotify' = inotify /\ channel' = channel
    BY <1>1 DEF Raw
  <2>3. AllRight(ToSet(settling), x, tree[x]) =>
          AllRight(ToSet(settling'), x, tree[x]) /\ AllRight(flushing', x, tree[x])
    BY <1>4 DEF AllRight
  <2>4. ~Tells(ToSet(settling'), x) /\ ~Tells(flushing', x) => ~Tells(ToSet(settling), x) /\ ~Tells(flushing, x)
    BY <1>1, <1>4 DEF Tells
  <2> QED BY <2>1, <2>2, <2>3, <2>4 DEF NewestRight
<1> QED BY <1>1, <1>5, <1>6, WordsGoOn

\* One of them goes on: the others are of other paths.
LEMMA InvForward ==
    ASSUME Typed, EventsInv, NEW e \in flushing, Forward(e)
    PROVE  EventsInv'
<1>1. /\ flushing' = flushing \ {e} /\ forwarded' = Append(forwarded, e)
      /\ UNCHANGED <<tree, edits, inotify, watched, halves, reaped, channel, settling, shown>>
  BY DEF Forward, world, watcher
<1>2. forwarded \in Seq(Event) /\ e \in Event
  BY DEF Typed, WatchTypeOK
<1>3. ToSet(forwarded') = ToSet(forwarded) \cup {e}
  BY <1>1, <1>2, AppendSet
<1>4. Queued' = Queued
  BY <1>1, <1>3 DEF Queued
<1>5. ASSUME NEW x \in Paths \ Ignored
      PROVE  NewestRight(x)'
  <2>1. NewestRight(x)
    BY <1>5 DEF EventsInv, DriveKnows
  <2>2. Raw' = Raw /\ tree' = tree /\ settling' = settling /\ inotify' = inotify /\ channel' = channel
    BY <1>1 DEF Raw
  <2>3. AllRight(flushing, x, tree[x]) => AllRight(flushing', x, tree[x])
    BY <1>1 DEF AllRight
  <2>4. ASSUME AllRight(flushing, x, tree[x]), ~Tells(flushing', x),
               ~Tells(flushing, x) => LastRight(forwarded, x, tree[x])
        PROVE  LastRight(forwarded', x, tree[x])
    <3>1. CASE Speaks(e, x)
      <4>1. Right(e, x, tree[x])
        BY <2>4, <3>1 DEF AllRight
      <4> QED BY <1>1, <1>2, <3>1, <4>1, AppendWords
    <3>2. CASE ~Speaks(e, x)
      <4>1. ~Tells(flushing, x)
        BY <1>1, <2>4, <3>2 DEF Tells
      <4> QED BY <1>1, <1>2, <2>4, <3>2, <4>1, AppendWords
    <3> QED BY <3>1, <3>2
  <2> QED BY <2>1, <2>2, <2>3, <2>4 DEF NewestRight
<1> QED BY <1>1, <1>4, <1>5, WordsGoOn
-----------------------------------------------------------------------------
\* The reaper.

\* What a half says, and of what.
LEMMA HalfTypes ==
    ASSUME Typed, MovesAlone, NEW h \in halves
    PROVE  /\ h.kind = "from" /\ h.path \in Files \ Ignored /\ h.path \in Paths
           /\ h \in Words /\ h \notin Raw /\ h \notin Queued
           /\ tree[h.path] = 0
           /\ \A f \in Words : Speaks(f, h.path) => f = h
           /\ \A x : Speaks(h, x) <=> x = h.path
<1>1. h.kind = "from" /\ h.path \in Files \ Ignored /\ h.path \in Paths
  BY DEF Typed, WatchTypeOK, Paths
<1>2. h \in Words /\ h \notin Raw
  BY DEF Words, MovesAlone
<1>3. h \notin Queued
  BY <1>1, QueuedTypes DEF Event
<1>4. Moves(h) /\ Speaks(h, h.path)
  BY <1>1 DEF Moves, Speaks
<1>5. Right(h, h.path, tree[h.path])
  BY <1>1, <1>2, <1>4 DEF MovesAlone
<1>6. tree[h.path] = 0
  BY <1>1, <1>5 DEF Right
<1>7. \A f \in Words : Speaks(f, h.path) => f = h
  BY <1>1, <1>2, <1>4 DEF MovesAlone
<1>8. \A x : Speaks(h, x) <=> x = h.path
  BY <1>1 DEF Speaks
<1> QED BY <1>1, <1>2, <1>3, <1>6, <1>7, <1>8

\* The reaper drains the stale halves: of their paths nothing else is told.
LEMMA InvReap ==
    ASSUME Typed, EventsInv, Reap
    PROVE  EventsInv'
<1>1. /\ reaped = <<>> /\ reaped' = SetToSeq({h.path : h \in Stale}) /\ halves' = halves \ Stale
      /\ UNCHANGED <<tree, edits, inotify, watched, channel, settling, flushing, forwarded, shown>>
  BY DEF Reap, world, debounce
<1>2. Stale \subseteq halves /\ IsFiniteSet(halves)
  BY DEF Stale, Typed
<1>3. IsFiniteSet(Stale)
  BY <1>2, FS_Subset
<1>4. /\ ToSet(reaped') = {h.path : h \in Stale}
      /\ \A i, j \in DOMAIN reaped' : reaped'[i] = reaped'[j] => i = j
  <2>1. {h.path : h \in Stale} \in SUBSET {h.path : h \in Stale} /\ IsFiniteSet({h.path : h \in Stale})
    BY <1>3, FinitePaths
  <2> QED BY <1>1, <2>1, SetAsSeq
<1>5. Raw' = Raw /\ Queued' = Queued /\ Words' \subseteq Words /\ ToSet(reaped) = {}
  BY <1>1 DEF Raw, Queued, Words, ToSet
<1>6. \A f \in Words : f \in Words' \/ f \in Stale
  BY <1>1, <1>5 DEF Words
<1>7. ASSUME NEW h \in Stale
      PROVE  h \notin Words' /\ ~Tells(Words', h.path) /\ h.path \in Files \ Ignored /\ tree[h.path] = 0
  <2>1. /\ h \notin Raw /\ h \notin Queued /\ h.path \in Files \ Ignored /\ tree[h.path] = 0
        /\ \A f \in Words : Speaks(f, h.path) => f = h
    BY <1>2, HalfTypes DEF EventsInv
  <2>2. h \notin Words'
    BY <1>1, <1>5, <2>1 DEF Words
  <2> QED BY <1>5, <2>1, <2>2 DEF Tells
<1>8. MovesAlone'
  <2>1. \A x \in ToSet(reaped') : ~Tells(Words', x) /\ tree'[x] = 0
    BY <1>1, <1>4, <1>7
  <2> QED BY <1>1, <1>4, <1>5, <2>1 DEF EventsInv, MovesAlone, Exists
<1>9. HalvesPair'
  BY <1>1, <1>5 DEF EventsInv, HalvesPair, PairOK
<1>10. ASSUME NEW x \in Paths
       PROVE  Silent(x)' <=> Silent(x)
  <2>1. ASSUME Tells(Words, x)
        PROVE  Tells(Words', x) \/ x \in ToSet(reaped')
    <3>1. PICK f \in Words : Speaks(f, x)
      BY <2>1 DEF Tells
    <3>2. CASE f \in Words'
      BY <3>1, <3>2 DEF Tells
    <3>3. CASE f \in Stale
      <4>1. x = f.path
        BY <1>2, <3>1, <3>3, HalfTypes DEF EventsInv
      <4> QED BY <1>4, <3>3, <4>1
    <3> QED BY <1>6, <3>2, <3>3
  <2>2. ASSUME x \in ToSet(reaped')
        PROVE  Tells(Words, x)
    <3>1. PICK h \in Stale : x = h.path
      BY <1>4, <2>2
    <3>2. h \in Words /\ Speaks(h, x)
      BY <1>2, <3>1, HalfTypes DEF EventsInv
    <3> QED BY <3>2 DEF Tells
  <2>3. Tells(Words', x) => Tells(Words, x)
    BY <1>5 DEF Tells
  <2> QED BY <1>5, <2>1, <2>2, <2>3 DEF Silent
<1>11. FoldersWatched'
  BY <1>1, <1>5, <1>10 DEF EventsInv, FoldersWatched, Exists
<1>12. IgnoredApart'
  <2>1. \A x \in Ignored : x \notin ToSet(reaped')
    BY <1>4, <1>7
  <2> QED BY <1>1, <1>5, <2>1 DEF EventsInv, IgnoredApart, Tells
<1>13. DriveKnows'
  <2>1. ASSUME NEW x \in Paths \ Ignored
        PROVE  NewestRight(x)'
    BY <1>1, <1>5 DEF EventsInv, DriveKnows, NewestRight
  <2>2. ASSUME NEW x \in Paths \ Ignored, Silent(x)'
        PROVE  shown'[x] = tree'[x] \/ (Covered(x)' /\ shown'[x] = 0)
    <3>1. shown[x] = tree[x] \/ (Covered(x) /\ shown[x] = 0)
      BY <1>10, <2>2 DEF EventsInv, DriveKnows
    <3>2. Covered(x)' <=> Covered(x)
      BY <1>5 DEF Covered
    <3> QED BY <1>1, <3>1, <3>2
  <2> QED BY <2>1, <2>2 DEF DriveKnows
<1> QED BY <1>8, <1>9, <1>11, <1>12, <1>13 DEF EventsInv

\* It sends one of them: the file is gone.
LEMMA InvSendReaped ==
    ASSUME Typed, EventsInv, SendReaped
    PROVE  EventsInv'
<1> DEFINE p == Head(reaped)
           g == Gone(p)
<1>1. /\ reaped # <<>> /\ channel' = Append(channel, g) /\ reaped' = Tail(reaped)
      /\ UNCHANGED <<tree, edits, inotify, watched, halves, settling, flushing, forwarded, shown>>
  BY DEF SendReaped, world, debounce
<1>2. channel \in Seq(Event) /\ reaped \in Seq(Files)
  BY DEF Typed, WatchTypeOK
<1>3. p \in Files /\ p \in Paths /\ ToSet(reaped) = {p} \cup ToSet(reaped')
  BY <1>1, <1>2, TailSet DEF Paths
<1>4. g \in Event /\ g.kind = "gone" /\ g.path = p /\ \A x : Speaks(g, x) <=> x = p
  BY <1>3 DEF Gone, Event, Speaks
<1>5. ToSet(channel') = ToSet(channel) \cup {g}
  BY <1>1, <1>2, <1>4, AppendSet
<1>6. Raw' = Raw /\ Queued' = Queued \cup {g} /\ Words' = Words \cup {g}
  BY <1>1, <1>5 DEF Raw, Queued, Words
<1>7. ~Tells(Words, p) /\ tree[p] = 0 /\ p \notin Ignored
  BY <1>3 DEF EventsInv, MovesAlone, IgnoredApart, Exists
<1>8. /\ p \notin ToSet(reaped')
      /\ \A i, j \in DOMAIN reaped' : reaped'[i] = reaped'[j] => i = j
  <2>1. /\ DOMAIN reaped = 1..Len(reaped) /\ Len(reaped) \in Nat /\ Len(reaped) >= 1
        /\ DOMAIN reaped' = 1..Len(reaped) - 1 /\ p = reaped[1]
        /\ \A i \in 1..Len(reaped) - 1 : reaped'[i] = reaped[i + 1]
    BY <1>1, <1>2
  <2>2. \A i, j \in DOMAIN reaped : reaped[i] = reaped[j] => i = j
    BY DEF EventsInv, MovesAlone
  <2>3. \A i \in DOMAIN reaped' : i + 1 \in DOMAIN reaped /\ i + 1 # 1 /\ 1 \in DOMAIN reaped
    BY <2>1
  <2>4. \A i, j \in DOMAIN reaped' : i + 1 = j + 1 => i = j
    BY <2>1
  <2> QED BY <2>1, <2>2, <2>3, <2>4 DEF ToSet
<1>9. \A x : Tells(Words', x) <=> Tells(Words, x) \/ x = p
  BY <1>4, <1>6 DEF Tells
<1>10. MovesAlone'
  <2>1. \A e, f \in Words' : \A x \in Paths : Moves(e) /\ Speaks(e, x) /\ Speaks(f, x) => e = f
    <3>1. SUFFICES ASSUME NEW e \in Words', NEW f \in Words', NEW x \in Paths,
                          Moves(e), Speaks(e, x), Speaks(f, x)
                   PROVE  e = f
      OBVIOUS
    <3>2. e \in Words
      BY <1>4, <1>6, <3>1 DEF Moves
    <3>3. x # p
      BY <1>7, <3>1, <3>2 DEF Tells
    <3>4. f \in Words
      BY <1>4, <1>6, <3>1, <3>3
    <3> QED BY <3>1, <3>2, <3>4 DEF EventsInv, MovesAlone
  <2>2. \A e \in Words' : \A x \in Paths : Moves(e) /\ Speaks(e, x) => Right(e, x, tree'[x])
    BY <1>1, <1>4, <1>6 DEF EventsInv, MovesAlone, Moves
  <2>3. \A x \in ToSet(reaped') : ~Tells(Words', x) /\ tree'[x] = 0
    BY <1>1, <1>3, <1>8, <1>9 DEF EventsInv, MovesAlone, Exists
  <2> QED BY <1>1, <1>6, <1>8, <2>1, <2>2, <2>3 DEF EventsInv, MovesAlone, Exists
<1>11. HalvesPair'
  BY <1>1, <1>4, <1>6 DEF EventsInv, HalvesPair, PairOK
<1>12. \A x \in Paths : Silent(x)' <=> Silent(x)
  BY <1>3, <1>9 DEF Silent
<1>13. FoldersWatched'
  <2>1. p \notin Folders
    BY <1>3, LocalEventsAssumption
  <2> QED BY <1>1, <1>4, <1>6, <1>12, <2>1 DEF EventsInv, FoldersWatched, Exists
<1>14. IgnoredApart'
  <2>1. \A x \in Ignored : ~Tells(halves' \cup Queued', x)
    BY <1>1, <1>4, <1>6, <1>7 DEF EventsInv, IgnoredApart, Tells
  <2> QED BY <1>1, <1>3, <2>1 DEF EventsInv, IgnoredApart
<1>15. DriveKnows'
  <2>1. ASSUME NEW x \in Paths \ Ignored
        PROVE  NewestRight(x)'
    <3>1. NewestRight(x)
      BY <2>1 DEF EventsInv, DriveKnows
    <3>2. Tells(ToSet(channel'), x) <=> Tells(ToSet(channel), x) \/ x = p
      BY <1>4, <1>5 DEF Tells
    <3>3. x = p => ~Tells(Raw, x) /\ ~Tells(ToSet(channel), x) /\ ~Tells(ToSet(settling), x)
                   /\ ~Tells(flushing, x) /\ ~Tells(ToSet(forwarded), x)
      BY <1>7 DEF Words, Queued, Tells
    <3>4. ASSUME ~Tells(Raw, x)
          PROVE  LastRight(channel', x, tree[x])
      <4>1. LastRight(channel, x, tree[x])
        BY <3>1, <3>4 DEF NewestRight
      <4>2. Right(g, p, tree[p])
        BY <1>4, <1>7 DEF Right
      <4>3. IF Speaks(g, x) THEN Right(g, x, tree[x]) ELSE LastRight(channel, x, tree[x])
        BY <1>4, <4>1, <4>2
      <4> QED BY <1>1, <1>2, <1>4, <4>3, AppendWords
    <3> QED BY <1>1, <1>6, <3>1, <3>2, <3>4 DEF NewestRight
  <2>2. ASSUME NEW x \in Paths \ Ignored, Silent(x)'
        PROVE  shown'[x] = tree'[x] \/ (Covered(x)' /\ shown'[x] = 0)
    <3>1. shown[x] = tree[x] \/ (Covered(x) /\ shown[x] = 0)
      BY <1>12, <2>2 DEF EventsInv, DriveKnows
    <3>2. Covered(x) => Covered(x)'
      BY <1>6 DEF Covered
    <3> QED BY <1>1, <3>1, <3>2
  <2> QED BY <2>1, <2>2 DEF DriveKnows
<1> QED BY <1>10, <1>11, <1>13, <1>14, <1>15 DEF EventsInv
-----------------------------------------------------------------------------
\* The reconciler.

\* What applying an event changes.
LEMMA Applied ==
    ASSUME Typed, EventsInv, Apply, NEW e, e = Head(forwarded)
    PROVE  /\ e \in Event /\ e \in Queued
           /\ \A x \in Paths : Speaks(e, x) /\ Right(e, x, tree[x]) => shown'[x] = tree[x]
           /\ \A x \in Paths : ~Speaks(e, x) =>
                \/ shown'[x] = shown[x]
                \/ shown'[x] = tree[x] /\ tree[x] # 0 /\ e.path = Parent[x]
           /\ \A x \in Paths : tree[x] = 0 => shown'[x] \in {0, shown[x]}
           /\ \A x \in Paths : e.path = Parent[x] /\ tree[x] # 0 => shown'[x] = tree[x]
<1>1. forwarded # <<>> /\ e \in Event /\ e \in ToSet(forwarded)
  BY TailSet DEF Apply, Typed
<1>2. e \in Queued /\ e \in Words
  BY <1>1 DEF Queued, Words
<1>3. /\ e.path \in Paths /\ e.from \in Paths /\ e.kind \in {"made", "gone", "renamed"}
      /\ e.path \in Folders => e.kind = "made"
  BY <1>1, <1>2 DEF Event, EventsInv, FoldersWatched
<1>4. e.kind = "renamed" =>
        /\ e.path \in Files /\ e.from \in Files /\ e.path # e.from
        /\ tree[e.path] # 0 /\ tree[e.from] = 0 /\ shown[e.from] \in {0, tree[e.path]}
  <2>1. SUFFICES ASSUME e.kind = "renamed"
                 PROVE  /\ e.path \in Files /\ e.from \in Files /\ e.path # e.from
                        /\ tree[e.path] # 0 /\ tree[e.from] = 0 /\ shown[e.from] \in {0, tree[e.path]}
    OBVIOUS
  <2>2. /\ e.path \in Files /\ e.from \in Files /\ e.path # e.from /\ shown[e.from] \in {0, tree[e.path]}
    BY <1>2, <2>1 DEF EventsInv, HalvesPair, PairOK
  <2>3. Right(e, e.path, tree[e.path]) /\ Right(e, e.from, tree[e.from])
    BY <1>2, <1>3, <2>1 DEF EventsInv, MovesAlone, Moves, Speaks
  <2> QED BY <2>1, <2>2, <2>3 DEF Right
<1>5. Files \cap Folders = {} /\ Root \notin Paths /\ Parent \in [Paths -> Folders \cup {Root}]
  BY LocalEventsAssumption
<1>6. shown \in [Paths -> 0..MaxEdits]
  BY DEF Typed, WatchTypeOK
<1>7. \A x \in Paths : e.path = Parent[x] /\ tree[x] # 0 => e.path \in Folders /\ tree[e.path] # 0
  BY <1>3, <1>5 DEF EventsInv, FoldersWatched, Exists
<1>8. CASE e.kind = "made" \/ (e.kind = "renamed" /\ ~Tracked(e.from))
  <2>1. \A y \in Paths : shown'[y] = IF tree[y] # 0 /\ (y = e.path \/ (e.path \in Folders /\ tree[e.path] # 0
                                                                      /\ Parent[y] = e.path))
                                     THEN tree[y] ELSE shown[y]
    BY <1>1, <1>8 DEF Apply, OnMade, Walked, Exists
  <2>2. e.kind = "renamed" => shown[e.from] = 0 /\ e.path \notin Folders
    BY <1>4, <1>5, <1>8 DEF Tracked
  <2>3. \A x \in Paths : Speaks(e, x) /\ Right(e, x, tree[x]) => shown'[x] = tree[x]
    BY <1>3, <1>4, <1>8, <2>1, <2>2 DEF Speaks, Right
  <2>4. \A x \in Paths : ~Speaks(e, x) =>
                \/ shown'[x] = shown[x]
                \/ shown'[x] = tree[x] /\ tree[x] # 0 /\ e.path = Parent[x]
    BY <2>1 DEF Speaks
  <2>5. \A x \in Paths : e.path = Parent[x] /\ tree[x] # 0 => shown'[x] = tree[x]
    BY <1>7, <2>1
  <2>6. \A x \in Paths : tree[x] = 0 => shown'[x] \in {0, shown[x]}
    BY <2>1
  <2> QED BY <1>1, <1>2, <2>3, <2>4, <2>5, <2>6
<1>9. CASE ~(e.kind = "made" \/ (e.kind = "renamed" /\ ~Tracked(e.from))) /\ e.kind = "gone"
  <2>1. \A y \in Paths : shown'[y] = IF y = e.path THEN 0 ELSE shown[y]
    BY <1>1, <1>6, <1>9 DEF Apply
  <2>2. e.path \notin Folders
    BY <1>3, <1>9
  <2> QED BY <1>1, <1>2, <1>3, <1>7, <1>9, <2>1, <2>2 DEF Speaks, Right
<1>10. CASE ~(e.kind = "made" \/ (e.kind = "renamed" /\ ~Tracked(e.from))) /\ e.kind # "gone"
  <2>1. e.kind = "renamed" /\ shown[e.from] # 0 /\ e.path \notin Folders
    BY <1>3, <1>10 DEF Tracked
  <2>2. shown' = [shown EXCEPT ![e.path] = shown[e.from], ![e.from] = 0]
    BY <1>1, <1>10 DEF Apply
  <2>3. \A y \in Paths : shown'[y] = IF y = e.from THEN 0 ELSE IF y = e.path THEN shown[e.from] ELSE shown[y]
    BY <1>3, <1>6, <2>2
  <2>4. shown[e.from] = tree[e.path]
    BY <1>4, <2>1
  <2> QED BY <1>1, <1>2, <1>3, <1>4, <1>7, <2>1, <2>3, <2>4 DEF Speaks, Right
<1> QED BY <1>8, <1>9, <1>10

\* The reconciler applies the oldest event: it is the last word of its paths, or another follows.
LEMMA InvApply ==
    ASSUME Typed, EventsInv, Apply, \A x \in Ignored : Parent[x] = Root
    PROVE  EventsInv'
<1> DEFINE e == Head(forwarded)
<1>1. /\ forwarded # <<>> /\ forwarded' = Tail(forwarded)
      /\ UNCHANGED <<tree, edits, inotify, watched, halves, reaped, channel, settling, flushing>>
  BY DEF Apply, world, watcher
<1>2. /\ e \in Event /\ e \in Queued
      /\ \A x \in Paths : Speaks(e, x) /\ Right(e, x, tree[x]) => shown'[x] = tree[x]
      /\ \A x \in Paths : ~Speaks(e, x) =>
           \/ shown'[x] = shown[x]
           \/ shown'[x] = tree[x] /\ tree[x] # 0 /\ e.path = Parent[x]
      /\ \A x \in Paths : tree[x] = 0 => shown'[x] \in {0, shown[x]}
      /\ \A x \in Paths : e.path = Parent[x] /\ tree[x] # 0 => shown'[x] = tree[x]
  BY Applied
<1>3. forwarded \in Seq(Event) /\ ToSet(forwarded) = {e} \cup ToSet(forwarded')
  BY <1>1, TailSet DEF Typed
<1> HIDE DEF e
<1>4. /\ Raw' = Raw /\ Queued' \subseteq Queued /\ Queued \subseteq Queued' \cup {e}
      /\ Words' \subseteq Words /\ Words \subseteq Words' \cup {e} /\ e \in Words
  BY <1>1, <1>2, <1>3 DEF Raw, Queued, Words
<1>5. \A x : Tells(Words', x) => Tells(Words, x)
  BY <1>4 DEF Tells
<1>6. MovesAlone'
  BY <1>1, <1>4, <1>5 DEF EventsInv, MovesAlone, Exists
<1>7. \A f \in Words : Moves(f) => \A x \in Paths : Speaks(f, x) => Right(f, x, tree[x])
  BY DEF EventsInv, MovesAlone
<1>8. ASSUME NEW x \in Paths, NEW y, PairOK(x, y), tree[x] = 0
      PROVE  PairOK(x, y)'
  BY <1>1, <1>2, <1>8 DEF PairOK
<1>9. HalvesPair'
  <2>1. ASSUME NEW f \in Queued, f.kind = "renamed"
        PROVE  PairOK(f.from, f.path)'
    <3>1. PairOK(f.from, f.path) /\ f.from \in Paths /\ f.from # f.path
      BY <2>1 DEF EventsInv, HalvesPair, PairOK, Paths
    <3>2. Right(f, f.from, tree[f.from])
      BY <1>7, <2>1, <3>1 DEF Words, Moves, Speaks
    <3>3. tree[f.from] = 0
      BY <3>1, <3>2 DEF Right
    <3> QED BY <1>8, <3>1, <3>3
  <2>2. ASSUME NEW f \in Raw \cup halves, NEW g \in Raw,
               f.kind = "from", g.kind = "to", f.cookie = g.cookie
        PROVE  PairOK(f.path, g.path)'
    <3>1. PairOK(f.path, g.path) /\ f.path \in Paths
      BY <2>2 DEF EventsInv, HalvesPair, PairOK, Paths
    <3>2. Right(f, f.path, tree[f.path])
      BY <1>7, <2>2, <3>1 DEF Words, Moves, Speaks
    <3>3. tree[f.path] = 0
      BY <2>2, <3>2 DEF Right
    <3> QED BY <1>8, <3>1, <3>3
  <2> QED BY <1>1, <1>4, <2>1, <2>2 DEF EventsInv, HalvesPair
<1>10. ASSUME NEW x \in Paths, Silent(x)
       PROVE  Silent(x)' /\ ~Speaks(e, x)
  BY <1>1, <1>4, <1>5, <1>10 DEF Silent, Tells
<1>11. FoldersWatched'
  <2>1. ASSUME NEW d \in Folders \ watched, NEW x \in Paths, Parent[x] = d
        PROVE  Silent(x)' /\ shown'[x] = 0
    <3>1. Silent(x) /\ shown[x] = 0
      BY <2>1 DEF EventsInv, FoldersWatched
    <3>2. e.path # d
      BY <1>2, <2>1 DEF EventsInv, FoldersWatched
    <3> QED BY <1>2, <1>10, <2>1, <3>1, <3>2
  <2> QED BY <1>1, <1>4, <2>1 DEF EventsInv, FoldersWatched, Exists
<1>12. IgnoredApart'
  <2>1. ASSUME NEW x \in Ignored
        PROVE  shown'[x] = 0
    <3>1. x \in Paths /\ Parent[x] = Root /\ Root \notin Paths /\ e.path \in Paths
      BY <1>2, LocalEventsAssumption DEF Paths, Event
    <3>2. ~Speaks(e, x) /\ shown[x] = 0
      BY <1>2 DEF EventsInv, IgnoredApart, Tells
    <3> QED BY <1>2, <3>1, <3>2
  <2> QED BY <1>1, <1>4, <2>1 DEF EventsInv, IgnoredApart, Tells
<1>13. DriveKnows'
  <2>1. ASSUME NEW x \in Paths \ Ignored
        PROVE  NewestRight(x)'
    <3>1. NewestRight(x)
      BY <2>1 DEF EventsInv, DriveKnows
    <3>2. LastRight(forwarded, x, tree[x]) => LastRight(forwarded', x, tree[x])
      BY <1>1, <1>3, TailWords
    <3> QED BY <1>1, <1>4, <3>1, <3>2 DEF NewestRight
  <2>2. ASSUME NEW x \in Paths \ Ignored, Silent(x)'
        PROVE  shown'[x] = tree'[x] \/ (Covered(x)' /\ shown'[x] = 0)
    <3>1. CASE Silent(x)
      <4>1. ~Speaks(e, x)
        BY <1>10, <3>1
      <4>2. shown[x] = tree[x] \/ (Covered(x) /\ shown[x] = 0)
        BY <2>2, <3>1 DEF EventsInv, DriveKnows
      <4>3. CASE shown[x] = tree[x]
        BY <1>1, <1>2, <4>1, <4>3
      <4>4. CASE Covered(x) /\ shown[x] = 0
        <5>1. PICK f \in Raw \cup Queued : f.path = Parent[x]
          BY <4>4 DEF Covered
        <5>2. CASE f = e
          BY <1>1, <1>2, <4>4, <5>1, <5>2
        <5>3. CASE f # e
          <6>1. Covered(x)'
            BY <1>4, <5>1, <5>3 DEF Covered
          <6> QED BY <1>1, <1>2, <4>1, <4>4, <6>1
        <5> QED BY <5>2, <5>3
      <4> QED BY <4>2, <4>3, <4>4
    <3>2. CASE ~Silent(x)
      <4>1. Tells(Words, x) /\ ~Tells(Words', x)
        BY <1>1, <2>2, <3>2 DEF Silent
      <4>2. Speaks(e, x)
        BY <1>4, <4>1 DEF Tells
      <4>3. /\ ~Tells(Raw, x) /\ ~Tells(ToSet(channel), x) /\ ~Tells(ToSet(settling), x)
            /\ ~Tells(flushing, x) /\ ~Tells(ToSet(forwarded'), x)
        BY <1>1, <1>4, <4>1 DEF Words, Queued, Tells
      <4>4. LastRight(forwarded, x, tree[x])
        BY <2>2, <4>3 DEF EventsInv, DriveKnows, NewestRight
      <4>5. Right(e, x, tree[x])
        BY <1>1, <1>3, <4>2, <4>3, <4>4, TailWords DEF e
      <4> QED BY <1>1, <1>2, <4>2, <4>5
    <3> QED BY <3>1, <3>2
  <2> QED BY <2>1, <2>2 DEF DriveKnows
<1> QED BY <1>6, <1>9, <1>11, <1>12, <1>13 DEF EventsInv
-----------------------------------------------------------------------------
\* The notify callback.

\* What becomes of the words when the callback sends A for the raw event e.
HandedOn(e, A) ==
    /\ Raw = {e} \cup Raw' /\ Queued' = Queued \cup A /\ halves' \subseteq halves \cup {e}
    /\ \A x \in Paths : Tells(Words', x) => Tells(Words, x)
    /\ \A x \in Paths \ Ignored : Tells(Words, x) => Tells(Words', x)
    /\ \A f, g \in Words' : \A x \in Paths : Moves(f) /\ Speaks(f, x) /\ Speaks(g, x) => f = g
    /\ \A a \in A : \A x \in Paths : Moves(a) /\ Speaks(a, x) => Right(a, x, tree[x])
    /\ halves' \cap Raw' = {} /\ \A h \in halves' : h.kind = "from" /\ h.path \notin Ignored
    /\ \A a \in A : a.kind = "renamed" => PairOK(a.from, a.path) /\ a.from \notin Ignored
    /\ \A a \in A : a.path \in Folders => a.path = e.path /\ a.kind = "made"
    /\ e.path \in Folders => \E a \in A : a.path = e.path
    /\ \A a \in A : \A x \in Paths : Speaks(a, x) => x \notin Ignored
    /\ \A x \in Paths \ Ignored : ~Tells(Raw', x) =>
         AllRight(A, x, tree[x]) /\ (Speaks(e, x) /\ ~Tells(A, x) => ~Tells(Queued, x))

\* A change of one path: it is passed on, or ignored.
LEMMA HandPlain ==
    ASSUME Typed, EventsInv, NEW e, e = Head(inotify), inotify # <<>>, e.kind \in {"made", "gone"},
           inotify' = Tail(inotify), halves' = halves,
           channel' = channel \o Added(e), UNCHANGED <<settling, flushing, forwarded>>
    PROVE  HandedOn(e, ToSet(Added(e)))
<1> DEFINE A == ToSet(Added(e))
<1>1. inotify \in Seq(Watch \cup Moved) /\ channel \in Seq(Event)
  BY DEF Typed, WatchTypeOK
<1>2. Raw = {e} \cup Raw' /\ e \in Watch \cup Moved /\ Added(e) \in Seq(Event)
  BY Headed DEF Raw
<1>3. e \in Watch /\ e.path \in Paths /\ ~Moves(e) /\ \A x : Speaks(e, x) <=> x = e.path
  BY <1>2 DEF Watch, Moved, Moves, Speaks
<1>4. A = IF e.path \in Ignored THEN {} ELSE {e}
  <2>1. Added(e) = If(Accepted(e.path), e)
    BY DEF Added, Own
  <2>2. ToSet(<<e>>) = {e} /\ ToSet(<<>>) = {}
    BY DEF ToSet
  <2> QED BY <2>1, <2>2 DEF If, Accepted
<1>5. ToSet(channel') = ToSet(channel) \cup A
  BY <1>1, <1>2, ConcatSet
<1>6. Queued' = Queued \cup A
  BY <1>5 DEF Queued
<1>7. Words' \subseteq Words /\ Words \subseteq Words' \cup {e}
  BY <1>2, <1>4, <1>6 DEF Words
<1>8. A = {e} => Words' = Words
  BY <1>2, <1>6, <1>7 DEF Words
<1>9. \A x \in Paths : Tells(Words', x) => Tells(Words, x)
  BY <1>7 DEF Tells
<1>10. \A x \in Paths \ Ignored : Tells(Words, x) => Tells(Words', x)
  BY <1>3, <1>4, <1>7, <1>8 DEF Tells
<1>11. \A f, g \in Words' : \A x \in Paths : Moves(f) /\ Speaks(f, x) /\ Speaks(g, x) => f = g
  BY <1>7 DEF EventsInv, MovesAlone
<1>12. halves' \cap Raw' = {} /\ \A h \in halves' : h.kind = "from" /\ h.path \notin Ignored
  <2>1. halves \cap Raw = {}
    BY DEF EventsInv, MovesAlone
  <2> QED BY <1>2, <2>1 DEF Typed, WatchTypeOK
<1>13. Ignored \cap Folders = {}
  BY LocalEventsAssumption
<1>14. \A a \in A : a.path \in Folders => a.path = e.path /\ a.kind = "made"
  <2>1. e.path \in Folders => e.kind \in {"made", "to"}
    BY <1>2 DEF EventsInv, FoldersWatched
  <2> QED BY <1>4, <2>1
<1>15. ASSUME NEW x \in Paths \ Ignored, ~Tells(Raw', x)
       PROVE  AllRight(A, x, tree[x]) /\ (Speaks(e, x) /\ ~Tells(A, x) => ~Tells(Queued, x))
  <2>1. LastRight(inotify, x, tree[x])
    BY <1>15 DEF EventsInv, DriveKnows, NewestRight
  <2>2. Speaks(e, x) => Right(e, x, tree[x])
    BY <1>1, <1>15, <2>1, TailWords DEF Raw
  <2>3. Speaks(e, x) => Tells(A, x)
    BY <1>3, <1>4, <1>15 DEF Tells
  <2> QED BY <1>4, <2>2, <2>3 DEF AllRight
<1>16. \A a \in A : ~Moves(a) /\ a.kind # "renamed" /\ \A x : Speaks(a, x) => x \notin Ignored
  BY <1>3, <1>4 DEF Moves
<1>17. e.path \in Folders => \E a \in A : a.path = e.path
  BY <1>4, <1>13
<1>18. HandedOn(e, A)
  <2> HIDE DEF A
  <2> QED BY <1>2, <1>6, <1>9, <1>10, <1>11, <1>12, <1>14, <1>15, <1>16, <1>17 DEF HandedOn
<1> QED BY <1>18

\* One half of a rename.
LEMMA HandMove ==
    ASSUME Typed, EventsInv, NEW e, e = Head(inotify), inotify # <<>>, e.kind \in {"from", "to"},
           inotify' = Tail(inotify), halves' = Kept(e), UNCHANGED tree,
           channel' = channel \o Added(e), UNCHANGED <<settling, flushing, forwarded>>
    PROVE  HandedOn(e, ToSet(Added(e)))
<1> DEFINE A == ToSet(Added(e))
           told == {Gone(h.path) : h \in Stale}
           fresh == {h \in halves \ Stale : h.cookie = e.cookie}
           pair == CHOOSE h \in fresh : TRUE
<1>1. /\ inotify \in Seq(Watch \cup Moved) /\ channel \in Seq(Event) /\ Stale \subseteq halves
      /\ Files \cap Folders = {} /\ Ignored \subseteq Files
  BY LocalEventsAssumption DEF Typed, WatchTypeOK, Stale
<1>2. Raw = {e} \cup Raw' /\ e \in Watch \cup Moved /\ Added(e) \in Seq(Event) /\ Own(e) \in Seq(Event)
  BY Headed DEF Raw
<1>3. /\ e \in Moved /\ e.path \in Paths /\ Moves(e) /\ (e.kind = "from" => e.path \in Files)
      /\ \A x : Speaks(e, x) <=> x = e.path
  BY <1>2 DEF Watch, Moved, Moves, Speaks, Paths
<1>4. e \in Words /\ e \notin Raw' /\ e \notin halves /\ e \notin Queued
  <2>1. e \notin Queued
    BY QueuedTypes DEF Event
  <2>2. e \notin halves /\ e \in Words
    BY <1>2 DEF EventsInv, MovesAlone, Words
  <2>3. e \notin Raw'
    <3>1. /\ DOMAIN inotify = 1..Len(inotify) /\ Len(inotify) \in Nat /\ Len(inotify) >= 1
          /\ DOMAIN inotify' = 1..Len(inotify) - 1 /\ e = inotify[1]
          /\ \A i \in 1..Len(inotify) - 1 : inotify'[i] = inotify[i + 1]
      BY <1>1
    <3>2. \A i \in DOMAIN inotify' : i + 1 \in DOMAIN inotify /\ i + 1 # 1 /\ 1 \in DOMAIN inotify
      BY <3>1
    <3>3. \A i, j \in DOMAIN inotify : inotify[i] = inotify[j] /\ Moves(inotify[i]) => i = j
      BY DEF EventsInv, MovesAlone
    <3> QED BY <1>3, <3>1, <3>2, <3>3 DEF Raw, ToSet
  <2> QED BY <2>1, <2>2, <2>3
<1>5. \A f, g \in Words : \A x \in Paths : Moves(f) /\ Speaks(f, x) /\ Speaks(g, x) => f = g
  BY DEF EventsInv, MovesAlone
<1>6. \A f \in Words : \A x \in Paths : Moves(f) /\ Speaks(f, x) => Right(f, x, tree[x])
  BY DEF EventsInv, MovesAlone
<1>7. \A h \in halves : /\ h.kind = "from" /\ h.path \in Files \ Ignored /\ h.path \in Paths /\ Moves(h)
                        /\ h \in Words /\ h \notin Raw /\ h \notin Queued /\ tree[h.path] = 0
                        /\ \A x : Speaks(h, x) <=> x = h.path
  BY HalfTypes DEF EventsInv, Moves
<1>8. A = told \cup ToSet(Own(e))
  <2>0. Added(e) = Told(Stale) \o Own(e)
    BY DEF Added
  <2>1. Told(Stale) \in Seq(Event) /\ ToSet(Told(Stale)) = told
    BY ToldStale
  <2>2. Told(Stale) \in Seq(Event) /\ Own(e) \in Seq(Event)
    BY <1>2, <2>1
  <2>3. ToSet(Told(Stale) \o Own(e)) = ToSet(Told(Stale)) \cup ToSet(Own(e))
    BY <2>2, ConcatSet
  <2> QED BY <2>0, <2>1, <2>3
<1>9. ToSet(channel') = ToSet(channel) \cup A
  BY <1>1, <1>2, ConcatSet
<1>10. Queued' = Queued \cup A
  BY <1>9 DEF Queued
<1>11. Words' = Raw' \cup halves' \cup Queued \cup A
  BY <1>10 DEF Words
<1>12. \A a \in told : /\ a.kind = "gone" /\ a.path \in Files \ Ignored /\ tree[a.path] = 0
                       /\ \A x : Speaks(a, x) <=> x = a.path
  BY <1>1, <1>7 DEF Gone, Speaks
<1>13. e.kind = "to" => tree[e.path] # 0
  <2>1. Right(e, e.path, tree[e.path])
    BY <1>3, <1>4, <1>6
  <2> QED BY <2>1 DEF Right
<1>14. \A h \in fresh : e.kind = "to" => PairOK(h.path, e.path) /\ e.path \notin Ignored /\ e.path \in Files
  BY <1>2, <1>7 DEF EventsInv, HalvesPair, PairOK
<1>15. e.kind = "to" => \A h \in fresh : h = pair /\ pair \in fresh
  <2>1. \A h, k \in fresh : h = k
    BY <1>7 DEF EventsInv, HalvesPair
  <2> QED BY <2>1
<1> HIDE DEF pair
<1>16. /\ e.kind = "from" =>
            Own(e) = <<>> /\ halves' = (halves \ Stale) \cup (IF e.path \notin Ignored THEN {e} ELSE {})
       /\ e.kind = "to" => halves' = (halves \ Stale) \ fresh
       /\ e.kind = "to" /\ e.path \in Ignored => Own(e) = <<>>
       /\ e.kind = "to" /\ e.path \notin Ignored /\ fresh = {} => Own(e) = <<Made(e.path)>>
       /\ e.kind = "to" /\ e.path \notin Ignored /\ fresh # {} => Own(e) = <<Renamed(pair.path, e.path)>>
  BY DEF Own, Kept, Accepted, pair
<1>17. ToSet(<<>>) = {} /\ \A v : ToSet(<<v>>) = {v}
  BY DEF ToSet
<1>18. ASSUME NEW a \in ToSet(Own(e))
       PROVE  /\ e.kind = "to" /\ e.path \notin Ignored
              /\ \/ fresh = {} /\ a = Made(e.path)
                 \/ fresh # {} /\ a = Renamed(pair.path, e.path)
  BY <1>16, <1>17, <1>18
<1>19. e.kind = "to" /\ e.path \notin Ignored =>
         \E a \in ToSet(Own(e)) : Speaks(a, e.path) /\ a.path = e.path /\ (fresh # {} => Speaks(a, pair.path))
  <2>1. Speaks(Made(e.path), e.path) /\ Made(e.path).path = e.path
    BY DEF Made, Speaks
  <2>2. /\ Speaks(Renamed(pair.path, e.path), e.path) /\ Speaks(Renamed(pair.path, e.path), pair.path)
        /\ Renamed(pair.path, e.path).path = e.path
    BY DEF Renamed, Speaks
  <2> QED BY <1>16, <1>17, <2>1, <2>2
<1>20. /\ Words' \subseteq Words \cup A
       /\ \A w \in Words : \/ w \in Words'
                           \/ w \in Stale
                           \/ w \in fresh /\ e.kind = "to"
                           \/ w = e /\ (e.kind = "to" \/ e.path \in Ignored)
  BY <1>1, <1>2, <1>11, <1>16 DEF Words
<1>21. \A a \in A : a.kind \in {"gone", "made", "renamed"}
  <2>1. \A a \in ToSet(Own(e)) : a.kind \in {"made", "renamed"}
    BY <1>18 DEF Made, Renamed
  <2> QED BY <1>8, <1>12, <2>1
<1>22. /\ \A h \in Stale : h \notin Words'
       /\ e.kind = "to" => e \notin Words' /\ \A h \in fresh : h \notin Words'
  <2>1. \A h \in halves : h \notin A /\ h \notin Raw' /\ h \notin Queued
    BY <1>2, <1>7, <1>21
  <2>2. e \notin A
    BY <1>3, <1>21 DEF Moves
  <2>3. ASSUME NEW h \in Stale
        PROVE  h \notin halves'
    <3>1. h # e
      BY <1>1, <1>4, <2>3
    <3> QED BY <1>16, <2>3, <3>1
  <2> QED BY <1>1, <1>4, <1>11, <1>16, <2>1, <2>2, <2>3
\* Each word that is sent replaces a move that is gone, and is right.
<1>23. ASSUME NEW a \in A, NEW x \in Paths, Speaks(a, x)
       PROVE  /\ x \notin Ignored /\ Right(a, x, tree[x])
              /\ \E w \in Words : w \notin Words' /\ Moves(w) /\ Speaks(w, x)
  <2>1. CASE a \in told
    <3>1. PICK h \in Stale : a = Gone(h.path)
      BY <2>1
    <3>2. x = h.path /\ h \in halves
      BY <1>1, <1>23, <3>1 DEF Gone, Speaks
    <3>3. Right(a, x, tree[x])
      BY <1>7, <3>1, <3>2 DEF Gone, Right
    <3> QED BY <1>7, <1>22, <3>1, <3>2, <3>3
  <2>2. CASE a \in ToSet(Own(e))
    <3>1. e.kind = "to" /\ e.path \notin Ignored /\ tree[e.path] # 0
      BY <1>13, <1>18, <2>2
    <3>2. CASE fresh = {} /\ a = Made(e.path)
      BY <1>3, <1>4, <1>22, <1>23, <3>1, <3>2 DEF Made, Speaks, Right
    <3>3. CASE fresh # {} /\ a = Renamed(pair.path, e.path)
      <4>1. pair \in fresh /\ pair \in halves /\ PairOK(pair.path, e.path)
        BY <1>14, <1>15, <3>1, <3>3
      <4>2. tree[pair.path] = 0 /\ pair.path \notin Ignored /\ pair.path # e.path
        BY <1>7, <4>1 DEF PairOK
      <4>3. x = e.path \/ x = pair.path
        BY <1>23, <3>3 DEF Renamed, Speaks
      <4>4. Right(a, x, tree[x])
        BY <3>1, <3>3, <4>2, <4>3 DEF Renamed, Right
      <4>5. \E w \in Words : w \notin Words' /\ Moves(w) /\ Speaks(w, x)
        BY <1>3, <1>4, <1>7, <1>22, <3>1, <4>1, <4>3
      <4> QED BY <3>1, <4>2, <4>3, <4>4, <4>5
    <3> QED BY <1>18, <2>2, <3>2, <3>3
  <2> QED BY <1>8, <2>1, <2>2
\* No word is lost.
<1>24. ASSUME NEW w \in Words, w \notin Words', NEW x \in Paths \ Ignored, Speaks(w, x)
       PROVE  Tells(A, x)
  <2>1. CASE w \in Stale
    <3>1. x = w.path /\ Gone(w.path) \in A
      BY <1>1, <1>7, <1>8, <1>24, <2>1
    <3> QED BY <3>1 DEF Gone, Speaks, Tells
  <2>2. CASE w = e
    <3>1. x = e.path
      BY <1>3, <1>24, <2>2
    <3>2. e.kind = "to" /\ e.path \notin Ignored
      BY <1>16, <1>11, <1>24, <2>2, <3>1
    <3> QED BY <1>8, <1>19, <3>1, <3>2 DEF Tells
  <2>3. CASE w \in fresh /\ e.kind = "to"
    <3>1. x = w.path /\ w = pair /\ e.path \notin Ignored
      BY <1>7, <1>14, <1>15, <1>24, <2>3
    <3> QED BY <1>8, <1>19, <2>3, <3>1 DEF Tells
  <2> QED BY <1>20, <1>24, <2>1, <2>2, <2>3
<1>25. \A x \in Paths : Tells(Words', x) => Tells(Words, x)
  <2>1. \A a \in A, x \in Paths : Speaks(a, x) => Tells(Words, x)
    BY <1>23 DEF Tells
  <2> QED BY <1>20, <2>1 DEF Tells
<1>26. \A x \in Paths \ Ignored : Tells(Words, x) => Tells(Words', x)
  <2>1. \A x : Tells(A, x) => Tells(Words', x)
    BY <1>11 DEF Tells
  <2>2. \A x \in Paths \ Ignored : \A w \in Words : w \notin Words' /\ Speaks(w, x) => Tells(A, x)
    BY <1>24
  <2> QED BY <2>1, <2>2 DEF Tells
<1>27. \A a \in A : a.kind = "renamed" => PairOK(a.from, a.path) /\ a.from \notin Ignored
  <2>1. SUFFICES ASSUME NEW a \in A, a.kind = "renamed"
                 PROVE  PairOK(a.from, a.path) /\ a.from \notin Ignored
    OBVIOUS
  <2>2. a \in ToSet(Own(e))
    BY <1>8, <1>12, <2>1
  <2>3. e.kind = "to" /\ fresh # {} /\ a = Renamed(pair.path, e.path)
    BY <1>18, <2>1, <2>2 DEF Made
  <2>4. pair \in fresh /\ pair \in halves
    BY <1>15, <2>3
  <2> QED BY <1>7, <1>14, <2>3, <2>4 DEF Renamed
<1>28. ASSUME NEW f \in Words', NEW g \in Words', NEW x \in Paths, Moves(f), Speaks(f, x), Speaks(g, x)
       PROVE  f = g
  <2>1. CASE f \in Words /\ g \in Words
    BY <1>5, <1>28, <2>1
  <2>2. ASSUME NEW a \in A, NEW w \in Words, w \in Words', Speaks(a, x), Speaks(w, x)
        PROVE  FALSE
    <3>1. PICK v \in Words : v \notin Words' /\ Moves(v) /\ Speaks(v, x)
      BY <1>23, <2>2
    <3> QED BY <1>5, <2>2, <3>1
  <2>3. CASE f \in A /\ g \in A
    <3>1. f.kind = "renamed"
      BY <1>21, <1>28, <2>3 DEF Moves
    <3>2. f \in ToSet(Own(e))
      BY <1>8, <1>12, <2>3, <3>1
    <3>3. e.kind = "to" /\ fresh # {} /\ f = Renamed(pair.path, e.path)
      BY <1>18, <3>1, <3>2 DEF Made
    <3>4. x = e.path \/ x = pair.path
      BY <1>28, <3>3 DEF Renamed, Speaks
    <3>5. CASE g \in ToSet(Own(e))
      BY <1>18, <3>3, <3>5
    <3>6. CASE g \in told
      <4>1. PICK h \in Stale : g = Gone(h.path)
        BY <3>6
      <4>2. x = h.path /\ h \in halves /\ pair \in halves /\ pair \notin Stale
        BY <1>1, <1>15, <1>28, <3>3, <4>1 DEF Gone, Speaks
      <4>3. h = e \/ h = pair
        BY <1>3, <1>4, <1>5, <1>7, <3>4, <4>2
      <4> QED BY <1>4, <4>1, <4>2, <4>3
    <3> QED BY <1>8, <2>3, <3>5, <3>6
  <2> QED BY <1>20, <1>28, <2>1, <2>2, <2>3
<1>29. halves' \subseteq halves \cup {e} /\ halves' \cap Raw' = {}
       /\ \A h \in halves' : h.kind = "from" /\ h.path \notin Ignored
  BY <1>2, <1>4, <1>7, <1>16
<1>30. \A a \in A : a.path \in Folders => a.path = e.path /\ a.kind = "made"
  <2>1. SUFFICES ASSUME NEW a \in A, a.path \in Folders
                 PROVE  a.path = e.path /\ a.kind = "made"
    OBVIOUS
  <2>2. a \in ToSet(Own(e))
    BY <1>1, <1>8, <1>12, <2>1
  <2>3. e.kind = "to" /\ (a = Made(e.path) \/ (fresh # {} /\ a = Renamed(pair.path, e.path)))
    BY <1>18, <2>2
  <2>4. a.path = e.path
    BY <2>3 DEF Made, Renamed
  <2>5. fresh = {}
    BY <1>1, <1>14, <2>1, <2>3, <2>4
  <2> QED BY <2>3, <2>4, <2>5 DEF Made
<1>31. e.path \in Folders => \E a \in A : a.path = e.path
  <2>1. e.path \in Folders => e.kind = "to" /\ e.path \notin Ignored
    BY <1>1, <1>3
  <2> QED BY <1>8, <1>19, <2>1
<1>32. ASSUME NEW x \in Paths \ Ignored, Speaks(e, x), ~Tells(A, x)
       PROVE  ~Tells(Queued, x)
  BY <1>3, <1>4, <1>5, <1>32 DEF Tells, Words
<1>33. HandedOn(e, A)
  <2>1. \A x \in Paths : AllRight(A, x, tree[x])
    BY <1>23 DEF AllRight
  <2>2. \A a \in A : \A x \in Paths : Speaks(a, x) => x \notin Ignored /\ Right(a, x, tree[x])
    BY <1>23
  <2>3. \A f, g \in Words' : \A x \in Paths : Moves(f) /\ Speaks(f, x) /\ Speaks(g, x) => f = g
    BY <1>28
  <2> HIDE DEF A
  <2> QED BY <1>2, <1>10, <1>25, <1>26, <1>27, <1>29, <1>30, <1>31, <1>32, <2>1, <2>2, <2>3 DEF HandedOn
<1> QED BY <1>33

\* The notify callback hands on a raw event: what it makes of it says the same.
LEMMA InvDeliver ==
    ASSUME Typed, EventsInv, Deliver, ~dropped'
    PROVE  EventsInv'
<1> DEFINE e == Head(inotify)
           A == ToSet(Added(e))
<1>1. /\ inotify # <<>> /\ inotify' = Tail(inotify) /\ TrySend(Added(e)) /\ halves' = Kept(e)
      /\ watched' = IF e.path \in Folders THEN watched \cup {e.path} ELSE watched
      /\ UNCHANGED <<tree, edits, reaped, settling, flushing, forwarded, shown>>
  BY Delivered DEF debounce
<1>2. e \in Watch \cup Moved /\ Added(e) \in Seq(Event) /\ e.path \in Paths
  BY <1>1, Headed DEF Watch, Moved, Paths
<1>3. channel' = channel \o Added(e)
  BY <1>1, <1>2, Sent
<1>4. HandedOn(e, A)
  <2>1. CASE e.kind \in {"made", "gone"}
    BY <1>1, <1>3, <2>1, HandPlain DEF Kept
  <2>2. CASE e.kind \in {"from", "to"}
    BY <1>1, <1>3, <2>2, HandMove
  <2> QED BY <1>2, <2>1, <2>2 DEF Watch, Moved
<1>5. inotify \in Seq(Watch \cup Moved) /\ channel \in Seq(Event)
  BY DEF Typed, WatchTypeOK
<1>6. ToSet(channel') = ToSet(channel) \cup A
  BY <1>2, <1>3, <1>5, ConcatSet
<1> HIDE DEF A, e
<1>7. /\ Raw = {e} \cup Raw' /\ Queued' = Queued \cup A /\ halves' \subseteq halves \cup {e}
      /\ Raw' \cup halves' \subseteq Raw \cup halves
      /\ e \in Raw /\ e \in Words
  BY <1>4 DEF HandedOn, Words
<1>8. Words' \subseteq Words \cup A
  BY <1>7 DEF Words
<1>9. \A x \in Paths : Tells(Words', x) => Tells(Words, x)
  BY <1>4 DEF HandedOn
<1>10. ASSUME NEW x \in Paths
       PROVE  /\ Silent(x) => Silent(x)'
              /\ x \notin Ignored /\ Silent(x)' => Silent(x)
  BY <1>1, <1>4 DEF Silent, HandedOn
<1>11. MovesAlone'
  <2>1. \A f, g \in Words' : \A x \in Paths : Moves(f) /\ Speaks(f, x) /\ Speaks(g, x) => f = g
    BY <1>4 DEF HandedOn
  <2>2. \A f \in Words' : \A x \in Paths : Moves(f) /\ Speaks(f, x) => Right(f, x, tree'[x])
    BY <1>1, <1>4, <1>8 DEF HandedOn, EventsInv, MovesAlone
  <2>3. \A x \in ToSet(reaped') : ~Tells(Words', x) /\ tree'[x] = 0
    <3>1. ToSet(reaped) \subseteq Paths
      BY DEF Typed, WatchTypeOK, ToSet, Paths
    <3> QED BY <1>1, <1>9, <3>1 DEF EventsInv, MovesAlone, Exists
  <2>4. \A i, j \in DOMAIN inotify' : inotify'[i] = inotify'[j] /\ Moves(inotify'[i]) => i = j
    <3>1. /\ DOMAIN inotify = 1..Len(inotify) /\ Len(inotify) \in Nat /\ Len(inotify) >= 1
          /\ DOMAIN inotify' = 1..Len(inotify) - 1
          /\ \A i \in 1..Len(inotify) - 1 : inotify'[i] = inotify[i + 1]
      BY <1>1, <1>5
    <3>2. \A i \in DOMAIN inotify' : i + 1 \in DOMAIN inotify
      BY <3>1
    <3>3. \A i, j \in DOMAIN inotify' : i + 1 = j + 1 => i = j
      BY <3>1
    <3> QED BY <3>1, <3>2, <3>3 DEF EventsInv, MovesAlone
  <2>5. halves' \cap Raw' = {}
    BY <1>4 DEF HandedOn
  <2> QED BY <1>1, <2>1, <2>2, <2>3, <2>4, <2>5 DEF EventsInv, MovesAlone, Exists
<1>12. HalvesPair'
  <2>1. \A f \in Queued' : f.kind = "renamed" => PairOK(f.from, f.path) /\ f.from \notin Ignored
    BY <1>4, <1>7 DEF HandedOn, EventsInv, HalvesPair
  <2>2. Raw' \subseteq Raw
    BY <1>7
  <2> QED BY <1>1, <1>7, <2>1, <2>2 DEF EventsInv, HalvesPair, PairOK
<1>13. Root \notin Paths
  BY LocalEventsAssumption
<1>14. FoldersWatched'
  <2>1. \A f \in Raw \cup Queued : f.path \in Folders => f.kind \in {"made", "to"} /\ tree[f.path] # 0
    BY DEF EventsInv, FoldersWatched, Exists
  <2>2. /\ \A a \in A : a.path \in Folders => a.path = e.path /\ a.kind = "made"
        /\ e.path \in Folders => \E a \in A : a.path = e.path
    BY <1>4 DEF HandedOn
  <2>3. \A d \in watched' : d # Root => tree'[d] # 0
    BY <1>1, <1>7, <2>1 DEF EventsInv, FoldersWatched, Exists
  <2>4. \A f \in Raw' \cup Queued' : f.path \in Folders => f.kind \in {"made", "to"} /\ tree'[f.path] # 0
    BY <1>1, <1>7, <2>1, <2>2
  <2>5. \A f \in Queued' : f.path \in Folders => f.path \in watched'
    BY <1>1, <1>7, <2>2 DEF EventsInv, FoldersWatched
  <2>6. \A d \in Folders \ watched' : \A x \in Paths : Parent[x] = d => Silent(x)' /\ shown'[x] = 0
    BY <1>1, <1>10 DEF EventsInv, FoldersWatched
  <2>7. ASSUME NEW d \in Folders \ watched', tree'[d] # 0
        PROVE  \E f \in Raw' : f.path = d
    <3>1. d \notin watched /\ d # e.path
      BY <1>1, <2>7
    <3>2. \E f \in Raw : f.path = d
      BY <1>1, <2>7, <3>1 DEF EventsInv, FoldersWatched, Exists
    <3> QED BY <1>7, <3>1, <3>2
  <2>8. Root \in watched' /\ \A x \in Paths : tree'[x] # 0 /\ Parent[x] # Root => tree'[Parent[x]] # 0
    BY <1>1 DEF EventsInv, FoldersWatched, Exists
  <2> QED BY <2>3, <2>4, <2>5, <2>6, <2>7, <2>8 DEF FoldersWatched, Exists
<1>15. IgnoredApart'
  <2>1. \A h \in halves' : h.kind = "from" /\ h.path \notin Ignored
    BY <1>4 DEF HandedOn
  <2>2. ASSUME NEW x \in Ignored, NEW f \in halves' \cup Queued', Speaks(f, x)
        PROVE  FALSE
    <3>1. x \in Paths /\ ~Tells(halves \cup Queued, x)
      BY LocalEventsAssumption DEF EventsInv, IgnoredApart, Paths
    <3>2. CASE f \in halves'
      BY <2>1, <2>2, <3>2 DEF Speaks
    <3>3. CASE f \in Queued
      BY <2>2, <3>1, <3>3 DEF Tells
    <3>4. CASE f \in A
      BY <1>4, <2>2, <3>1, <3>4 DEF HandedOn
    <3> QED BY <1>7, <2>2, <3>2, <3>3, <3>4
  <2> QED BY <1>1, <2>2 DEF EventsInv, IgnoredApart, Tells
<1>16. ASSUME NEW x \in Paths \ Ignored
       PROVE  NewestRight(x)'
  <2>1. NewestRight(x)
    BY <1>16 DEF EventsInv, DriveKnows
  <2>2. LastRight(inotify', x, tree[x])
    BY <1>1, <1>5, <2>1, TailWords DEF NewestRight
  <2>3. CASE Tells(Raw', x)
    BY <1>1, <2>2, <2>3 DEF NewestRight
  <2>4. CASE ~Tells(Raw', x)
    <3>1. AllRight(A, x, tree[x]) /\ (Speaks(e, x) /\ ~Tells(A, x) => ~Tells(Queued, x))
      BY <1>4, <1>16, <2>4 DEF HandedOn
    <3>2. Tells(ToSet(channel'), x) <=> Tells(ToSet(channel), x) \/ Tells(A, x)
      BY <1>6 DEF Tells
    <3>3. ~Tells(A, x) => ~Tells(Raw, x) \/ ~Tells(Queued, x)
      BY <1>7, <2>4, <3>1 DEF Tells
    <3>4. ~Tells(Queued, x) => /\ ~Tells(ToSet(channel), x) /\ ~Tells(ToSet(settling), x)
                               /\ ~Tells(flushing, x) /\ ~Tells(ToSet(forwarded), x)
      BY DEF Tells, Queued
    <3>5. ~Tells(A, x) => LastRight(channel, x, tree[x])
      <4>1. ~Tells(ToSet(channel), x) => LastRight(channel, x, tree[x])
        BY DEF Tells, ToSet, LastRight
      <4> QED BY <2>1, <3>3, <3>4, <4>1 DEF NewestRight
    <3>6. LastRight(channel', x, tree[x])
      <4>1. LastRight(Added(e), x, tree[x])
        BY <3>1, AllLast DEF A
      <4> QED BY <1>2, <1>3, <1>5, <3>5, <4>1, ConcatWords DEF A, e
    <3>7. ~Tells(A, x) /\ ~Tells(ToSet(channel), x) => AllRight(ToSet(settling), x, tree[x])
      BY <2>1, <3>3, <3>4 DEF NewestRight, AllRight, Tells
    <3>8. ~Tells(A, x) /\ ~Tells(ToSet(channel), x) /\ ~Tells(ToSet(settling), x) =>
            AllRight(flushing, x, tree[x])
      BY <2>1, <3>3, <3>4 DEF NewestRight, AllRight, Tells
    <3>9. /\ ~Tells(A, x) /\ ~Tells(ToSet(channel), x) /\ ~Tells(ToSet(settling), x) /\ ~Tells(flushing, x)
          => LastRight(forwarded, x, tree[x])
      <4>1. ~Tells(ToSet(forwarded), x) => LastRight(forwarded, x, tree[x])
        BY DEF Tells, ToSet, LastRight
      <4> QED BY <2>1, <3>3, <3>4, <4>1 DEF NewestRight
    <3> QED BY <1>1, <2>2, <3>2, <3>6, <3>7, <3>8, <3>9 DEF NewestRight
  <2> QED BY <2>3, <2>4
<1>17. DriveKnows'
  <2>1. ASSUME NEW x \in Paths \ Ignored, Silent(x)'
        PROVE  shown'[x] = tree'[x] \/ (Covered(x)' /\ shown'[x] = 0)
    <3>1. shown[x] = tree[x] \/ (Covered(x) /\ shown[x] = 0)
      BY <1>10, <2>1 DEF EventsInv, DriveKnows
    <3>2. ASSUME Covered(x)
          PROVE  Covered(x)'
      <4>1. PICK f \in Raw \cup Queued : f.path = Parent[x]
        BY <3>2 DEF Covered
      <4>2. CASE f # e
        BY <1>7, <4>1, <4>2 DEF Covered
      <4>3. CASE f = e
        <5>1. e.path \in Folders
          BY <1>2, <1>13, <4>1, <4>3, LocalEventsAssumption
        <5>2. \E a \in A : a.path = e.path
          BY <1>4, <5>1 DEF HandedOn
        <5> QED BY <1>7, <4>1, <4>3, <5>2 DEF Covered
      <4> QED BY <4>2, <4>3
    <3> QED BY <1>1, <3>1, <3>2
  <2> QED BY <1>16, <2>1 DEF DriveKnows
<1> QED BY <1>11, <1>12, <1>14, <1>15, <1>17 DEF EventsInv
-----------------------------------------------------------------------------
\* Edits.

\* No move of the path is under way.
Still(x) == x \notin ToSet(reaped) /\ \A e \in Words : Moves(e) => ~Speaks(e, x)

\* What an edit that reports T may do: it touches no path whose rename is under way, what
\* it tells is right, and what it does not tell is in a folder still to be walked.
Edited(T) ==
    /\ \A x \in Paths : tree'[x] # tree[x] => Still(x)
    /\ \A e \in T : \A x \in Paths : Speaks(e, x) => Still(x) /\ Parent[x] \in watched
    /\ \A e \in T : \A x \in Paths : Moves(e) /\ Speaks(e, x) => Silent(x)
    /\ \A x \in Paths : AllRight(T, x, tree'[x])
    /\ \A e \in T : Moves(e) => e.cookie = edits + 1
    /\ \A e, f \in T : Moves(e) => Moves(f) /\ (e.kind = f.kind => e = f)
    /\ \A e, f \in T : e.kind = "from" /\ f.kind = "to" => PairOK(e.path, f.path)'
    /\ \A e \in T : e.path \in Folders => e.kind \in {"made", "to"} /\ tree'[e.path] # 0
    /\ \A x \in Paths : tree'[x] # 0 /\ Parent[x] # Root => tree[x] # 0 \/ tree'[Parent[x]] # 0
    /\ \A d \in Folders : tree[d] # 0 => tree'[d] # 0
    /\ \A d \in Folders : tree'[d] # 0 /\ tree[d] = 0 => \E e \in T : e.path = d
    /\ \A x \in Paths : tree'[x] # tree[x] /\ ~Tells(T, x) =>
         Silent(x) /\ shown[x] = 0 /\ \E e \in Raw \cup T : e.path = Parent[x]

\* An edit that does what Edited says keeps the invariant.
LEMMA InvEdit ==
    ASSUME Typed, EventsInv, NEW raw \in Seq(Watch \cup Moved), Edited(ToSet(raw)),
           \A i, j \in DOMAIN raw : raw[i] = raw[j] => i = j,
           edits' = edits + 1, inotify' = inotify \o raw, UNCHANGED <<watcher, debounce, shown>>
    PROVE  EventsInv'
<1> DEFINE T == ToSet(raw)
<1>1. UNCHANGED <<watched, halves, reaped, channel, settling, flushing, forwarded, shown>>
  BY DEF watcher, debounce
<1>2. inotify \in Seq(Watch \cup Moved)
  BY DEF Typed
<1>3. ToSet(inotify') = ToSet(inotify) \cup T
  BY <1>2, ConcatSet
<1>4. Edited(T) /\ T \subseteq Watch \cup Moved
  BY DEF ToSet
<1> HIDE DEF T
<1>5. Raw' = Raw \cup T /\ Queued' = Queued /\ Words' = Words \cup T
  BY <1>1, <1>3 DEF Raw, Queued, Words
<1>6. edits \in Nat /\ edits' = edits + 1
  BY LocalEventsAssumption DEF Typed, WatchTypeOK
<1>7. \A e \in Raw \cup halves : Moves(e) => e.cookie \in Nat /\ e.cookie <= edits
  <2>1. \A e \in Raw : Moves(e) => e.cookie \in Nat
    BY QueuedTypes DEF Watch, Moved, Moves
  <2>2. \A e \in halves : e.cookie \in Nat
    BY DEF Typed, WatchTypeOK
  <2> QED BY <2>1, <2>2 DEF EventsInv, HalvesPair
<1>8. \A e \in T : Moves(e) => e.cookie = edits + 1 /\ e \notin Raw /\ e \notin halves
  BY <1>4, <1>6, <1>7 DEF Edited
<1>9. \A x : Tells(Words', x) <=> Tells(Words, x) \/ Tells(T, x)
  BY <1>5 DEF Tells
<1>10. \A x : Tells(Raw', x) <=> Tells(Raw, x) \/ Tells(T, x)
  BY <1>5 DEF Tells
<1>11. \A e \in Words : \A x \in Paths : Moves(e) /\ Speaks(e, x) => ~Still(x) /\ tree'[x] = tree[x]
  BY <1>4 DEF Edited, Still
<1>12. \A x \in ToSet(reaped) : ~Still(x) /\ x \in Paths
  BY DEF Still, Typed, WatchTypeOK, ToSet, Paths
<1>13. MovesAlone'
  <2>1. ASSUME NEW e \in Words', NEW f \in Words', NEW x \in Paths, Moves(e), Speaks(e, x), Speaks(f, x)
        PROVE  e = f
    <3>1. CASE e \in Words /\ f \in Words
      BY <2>1, <3>1 DEF EventsInv, MovesAlone
    <3>2. CASE e \in T /\ f \in Words
      <4>1. Silent(x)
        BY <1>4, <2>1, <3>2 DEF Edited
      <4> QED BY <2>1, <3>2, <4>1 DEF Silent, Tells
    <3>3. CASE e \in Words /\ f \in T
      BY <1>4, <1>11, <2>1, <3>3 DEF Edited
    <3>4. CASE e \in T /\ f \in T
      <4>1. Right(e, x, tree'[x]) /\ Right(f, x, tree'[x])
        BY <1>4, <2>1, <3>4 DEF Edited, AllRight
      <4>2. Moves(f) /\ e \in Moved /\ f \in Moved
        BY <1>4, <2>1, <3>4 DEF Edited, Watch, Moved, Moves
      <4>3. e.kind \in {"from", "to"} /\ f.kind \in {"from", "to"}
        BY <4>2 DEF Moved
      <4>4. e.path = x /\ f.path = x
        BY <2>1, <4>3 DEF Speaks
      <4>5. e.kind = f.kind
        BY <4>1, <4>3, <4>4 DEF Right
      <4> QED BY <1>4, <2>1, <3>4, <4>5 DEF Edited
    <3> QED BY <1>5, <2>1, <3>1, <3>2, <3>3, <3>4
  <2>2. ASSUME NEW e \in Words', NEW x \in Paths, Moves(e), Speaks(e, x)
        PROVE  Right(e, x, tree'[x])
    <3>1. CASE e \in Words
      BY <1>11, <2>2, <3>1 DEF EventsInv, MovesAlone
    <3>2. CASE e \in T
      BY <1>4, <2>2, <3>2 DEF Edited, AllRight
    <3> QED BY <1>5, <2>2, <3>1, <3>2
  <2>3. ASSUME NEW x \in ToSet(reaped)
        PROVE  ~Tells(Words', x) /\ tree'[x] = 0
    <3>1. ~Still(x) /\ x \in Paths /\ tree[x] = 0 /\ ~Tells(Words, x)
      BY <1>12 DEF EventsInv, MovesAlone, Exists
    <3>2. ~Tells(T, x) /\ tree'[x] = tree[x]
      BY <1>4, <3>1 DEF Edited, Tells
    <3> QED BY <1>9, <3>1, <3>2
  <2>4. ASSUME NEW i \in DOMAIN inotify', NEW j \in DOMAIN inotify',
               inotify'[i] = inotify'[j], Moves(inotify'[i])
        PROVE  i = j
    <3>1. /\ DOMAIN inotify = 1..Len(inotify) /\ Len(inotify) \in Nat
          /\ DOMAIN raw = 1..Len(raw) /\ Len(raw) \in Nat
          /\ DOMAIN inotify' = 1..Len(inotify) + Len(raw)
          /\ \A k \in 1..Len(inotify) : inotify'[k] = inotify[k]
          /\ \A k \in 1..Len(raw) : inotify'[Len(inotify) + k] = raw[k]
      <4>1. inotify' = inotify \o raw /\ inotify \in Seq(Watch \cup Moved) /\ raw \in Seq(Watch \cup Moved)
        BY <1>2
      <4> QED BY <4>1
    <3>2. \A k \in DOMAIN inotify' : k \in DOMAIN inotify \/ \E m \in DOMAIN raw : k = Len(inotify) + m
      <4>1. \A k \in DOMAIN inotify' : k \notin 1..Len(inotify) =>
              k - Len(inotify) \in 1..Len(raw) /\ k = Len(inotify) + (k - Len(inotify))
        BY <3>1
      <4> QED BY <3>1, <4>1
    <3>3. \A k \in DOMAIN inotify : inotify'[k] \in Raw
      BY <3>1 DEF Raw, ToSet
    <3>4. \A m \in DOMAIN raw : inotify'[Len(inotify) + m] \in T
      BY <3>1 DEF T, ToSet
    <3>5. \A e \in T : Moves(e) => e \notin Raw
      BY <1>8
    <3>6. CASE i \in DOMAIN inotify /\ j \in DOMAIN inotify
      BY <2>4, <3>1, <3>6 DEF EventsInv, MovesAlone
    <3>7. CASE i \in DOMAIN inotify /\ j \notin DOMAIN inotify
      BY <2>4, <3>2, <3>3, <3>4, <3>5, <3>7
    <3>8. CASE i \notin DOMAIN inotify /\ j \in DOMAIN inotify
      BY <2>4, <3>2, <3>3, <3>4, <3>5, <3>8
    <3>9. CASE i \notin DOMAIN inotify /\ j \notin DOMAIN inotify
      <4>1. PICK k \in DOMAIN raw, m \in DOMAIN raw : i = Len(inotify) + k /\ j = Len(inotify) + m
        BY <3>2, <3>9
      <4>2. raw[k] = raw[m]
        BY <2>4, <3>1, <4>1
      <4> QED BY <4>1, <4>2
    <3> QED BY <3>6, <3>7, <3>8, <3>9
  <2>5. halves \cap Raw' = {}
    <3>1. \A e \in halves : e.kind = "from"
      BY DEF Typed, WatchTypeOK
    <3> QED BY <1>5, <1>8, <3>1 DEF EventsInv, MovesAlone, Moves
  <2>6. /\ reaped' = reaped /\ halves' = halves
        /\ \A i, j \in DOMAIN reaped : reaped[i] = reaped[j] => i = j
    BY <1>1 DEF EventsInv, MovesAlone
  <2>7. /\ \A e, f \in Words' : \A x \in Paths : Moves(e) /\ Speaks(e, x) /\ Speaks(f, x) => e = f
        /\ \A e \in Words' : \A x \in Paths : Moves(e) /\ Speaks(e, x) => Right(e, x, tree'[x])
    BY <2>1, <2>2
  <2>8. \A x \in ToSet(reaped') : ~Tells(Words', x) /\ ~Exists(x)'
    BY <2>3, <2>6 DEF Exists
  <2> QED BY <2>4, <2>5, <2>6, <2>7, <2>8 DEF MovesAlone
<1>14. HalvesPair'
  <2>1. ASSUME NEW e \in Queued, e.kind = "renamed"
        PROVE  PairOK(e.from, e.path)' /\ e.from \notin Ignored
    <3>1. PairOK(e.from, e.path) /\ e.from \notin Ignored
      BY <2>1 DEF EventsInv, HalvesPair
    <3>2. e \in Words /\ Moves(e) /\ Speaks(e, e.path) /\ e.path \in Paths
      BY <2>1, <3>1 DEF Words, Moves, Speaks, PairOK, Paths
    <3>3. tree'[e.path] = tree[e.path]
      BY <1>11, <3>2
    <3> QED BY <1>1, <3>1, <3>3 DEF PairOK
  <2>2. ASSUME NEW e \in Raw' \cup halves, NEW f \in Raw',
               e.kind = "from", f.kind = "to", e.cookie = f.cookie
        PROVE  PairOK(e.path, f.path)'
    <3>1. CASE e \in Raw \cup halves /\ f \in Raw
      <4>1. PairOK(e.path, f.path)
        BY <2>2, <3>1 DEF EventsInv, HalvesPair
      <4>2. f \in Words /\ Moves(f) /\ Speaks(f, f.path) /\ f.path \in Paths
        BY <2>2, <3>1, <4>1 DEF Words, Moves, Speaks, PairOK, Paths
      <4>3. tree'[f.path] = tree[f.path]
        BY <1>11, <4>2
      <4> QED BY <1>1, <4>1, <4>3 DEF PairOK
    <3>2. CASE e \in T /\ f \in T
      BY <1>4, <2>2, <3>2 DEF Edited
    <3>3. CASE e \in Raw \cup halves /\ f \in T
      BY <1>6, <1>7, <1>8, <2>2, <3>3 DEF Moves
    <3>4. CASE e \in T /\ f \in Raw
      BY <1>6, <1>7, <1>8, <2>2, <3>4 DEF Moves
    <3> QED BY <1>5, <2>2, <3>1, <3>2, <3>3, <3>4
  <2>3. ASSUME NEW e \in Raw' \cup halves, NEW f \in Raw' \cup halves,
               e.kind = "from", f.kind = "from", e.cookie = f.cookie
        PROVE  e = f
    <3>1. CASE e \in Raw \cup halves /\ f \in Raw \cup halves
      BY <2>3, <3>1 DEF EventsInv, HalvesPair
    <3>2. CASE e \in T /\ f \in T
      BY <1>4, <2>3, <3>2 DEF Edited, Moves
    <3>3. CASE e \in Raw \cup halves /\ f \in T
      BY <1>6, <1>7, <1>8, <2>3, <3>3 DEF Moves
    <3>4. CASE e \in T /\ f \in Raw \cup halves
      BY <1>6, <1>7, <1>8, <2>3, <3>4 DEF Moves
    <3> QED BY <1>5, <2>3, <3>1, <3>2, <3>3, <3>4
  <2>4. \A e \in Raw' \cup halves : Moves(e) => e.cookie <= edits'
    BY <1>5, <1>6, <1>7, <1>8
  <2> QED BY <1>1, <1>5, <2>1, <2>2, <2>3, <2>4 DEF HalvesPair
<1>15. FoldersWatched'
  <2>1. \A d \in Folders \cup {Root} : d = Root \/ (d \in Paths /\ Parent[d] = Root)
    BY LocalEventsAssumption DEF Paths
  <2>2. \A x \in Paths : Parent[x] \in Folders \cup {Root}
    BY LocalEventsAssumption
  <2>3. \A x \in Paths : tree'[x] # 0 /\ Parent[x] # Root => tree'[Parent[x]] # 0
    BY <1>4, <2>2 DEF Edited, EventsInv, FoldersWatched, Exists
  <2>4. \A d \in watched : d # Root => tree'[d] # 0
    BY <1>4 DEF Edited, EventsInv, FoldersWatched, Exists, Typed, WatchTypeOK
  <2>5. \A e \in Raw' \cup Queued : e.path \in Folders => e.kind \in {"made", "to"} /\ tree'[e.path] # 0
    BY <1>4, <1>5 DEF Edited, EventsInv, FoldersWatched, Exists
  <2>6. ASSUME NEW d \in Folders \ watched, NEW x \in Paths, Parent[x] = d
        PROVE  Silent(x)' /\ shown[x] = 0
    <3>1. Silent(x) /\ shown[x] = 0
      BY <2>6 DEF EventsInv, FoldersWatched
    <3>2. ~Tells(T, x)
      BY <1>4, <2>6 DEF Edited, Tells
    <3> QED BY <1>1, <1>9, <3>1, <3>2 DEF Silent
  <2>7. ASSUME NEW d \in Folders \ watched, tree'[d] # 0
        PROVE  \E e \in Raw' : e.path = d
    <3>1. CASE tree[d] # 0
      BY <1>5, <2>7, <3>1 DEF EventsInv, FoldersWatched, Exists
    <3>2. CASE tree[d] = 0
      BY <1>4, <1>5, <2>7, <3>2 DEF Edited
    <3> QED BY <3>1, <3>2
  <2>8. Root \in watched /\ \A e \in Queued : e.path \in Folders => e.path \in watched
    BY DEF EventsInv, FoldersWatched
  <2> QED BY <1>1, <1>5, <2>3, <2>4, <2>5, <2>6, <2>7, <2>8 DEF FoldersWatched, Exists
<1>16. IgnoredApart'
  BY <1>1, <1>5 DEF EventsInv, IgnoredApart, Tells
<1>17. ASSUME NEW x \in Paths \ Ignored
       PROVE  NewestRight(x)' /\ (Silent(x)' => shown'[x] = tree'[x] \/ (Covered(x)' /\ shown'[x] = 0))
  <2>0. /\ NewestRight(x) /\ (Silent(x) => shown[x] = tree[x] \/ (Covered(x) /\ shown[x] = 0))
        /\ x \in Paths
    BY <1>17 DEF EventsInv, DriveKnows
  <2>1. raw \in Seq(Watch \cup Moved) /\ LastRight(raw, x, tree'[x])
    BY <1>4, <2>0, AllLast DEF Edited, T
  <2>2. Silent(x)' <=> Silent(x) /\ ~Tells(T, x)
    BY <1>1, <1>9 DEF Silent
  <2>3. CASE Tells(T, x)
    <3>1. LastRight(inotify', x, tree'[x])
      <4>1. ~Tells(ToSet(raw), x) => LastRight(inotify, x, tree'[x])
        BY <2>3 DEF T
      <4>2. LastRight(inotify \o raw, x, tree'[x])
        BY <1>2, <2>1, <4>1, ConcatWords
      <4> QED BY <4>2
    <3>2. Tells(Raw', x)
      BY <1>10, <2>3
    <3> QED BY <2>2, <2>3, <3>1, <3>2 DEF NewestRight
  <2>4. CASE ~Tells(T, x) /\ tree'[x] = tree[x]
    <3>1. LastRight(inotify', x, tree'[x])
      <4>1. LastRight(inotify, x, tree'[x])
        BY <2>0, <2>4 DEF NewestRight
      <4>2. LastRight(inotify \o raw, x, tree'[x])
        BY <1>2, <2>1, <4>1, ConcatWords
      <4> QED BY <4>2
    <3>2. Tells(Raw', x) <=> Tells(Raw, x)
      BY <1>10, <2>4
    <3>3. NewestRight(x)'
      BY <1>1, <2>0, <2>4, <3>1, <3>2 DEF NewestRight
    <3>4. Covered(x) => Covered(x)'
      BY <1>5 DEF Covered
    <3> QED BY <1>1, <2>0, <2>2, <2>4, <3>3, <3>4
  <2>5. CASE ~Tells(T, x) /\ tree'[x] # tree[x]
    <3>1. Silent(x) /\ shown[x] = 0 /\ \E e \in Raw \cup T : e.path = Parent[x]
      BY <1>4, <2>0, <2>5 DEF Edited
    <3>2. ~Tells(Words', x)
      BY <1>9, <2>5, <3>1 DEF Silent
    <3>3. \A S : S \subseteq Words' => AllRight(S, x, tree'[x])
      BY <3>2 DEF AllRight, Tells
    <3>4. \A e \in Words' : ~Speaks(e, x)
      BY <3>2 DEF Tells
    <3>5. /\ ToSet(inotify') \subseteq Words' /\ ToSet(channel') \subseteq Words'
          /\ ToSet(settling') \subseteq Words'
          /\ flushing' \subseteq Words' /\ ToSet(forwarded') \subseteq Words'
      BY DEF Words, Raw, Queued
    <3>6. NewestRight(x)'
      <4>1. LastRight(inotify', x, tree'[x])
        BY <3>3, <3>5, AllLast
      <4>2. LastRight(channel', x, tree'[x])
        BY <3>3, <3>5, AllLast
      <4>3. LastRight(forwarded', x, tree'[x])
        BY <3>3, <3>5, AllLast
      <4>4. AllRight(ToSet(settling'), x, tree'[x]) /\ AllRight(flushing', x, tree'[x])
        BY <3>3, <3>5
      <4> QED BY <4>1, <4>2, <4>3, <4>4 DEF NewestRight
    <3>7. Covered(x)'
      BY <1>5, <3>1 DEF Covered
    <3> QED BY <1>1, <3>1, <3>6, <3>7
  <2> QED BY <2>3, <2>4, <2>5
<1>18. DriveKnows'
  BY <1>17 DEF DriveKnows
<1> QED BY <1>13, <1>14, <1>15, <1>16, <1>18 DEF EventsInv

\* Of a file that is free no rename is under way.
LEMMA FreeIsStill ==
    ASSUME Typed, Careful, NEW x, Free(x)
    PROVE  Still(x)
<1>1. ~Moving(x)
  BY DEF Free
<1>2. \A e \in Raw \cup halves : e.kind \in {"made", "gone", "from", "to"}
  <2>1. \A e \in Raw : e.kind \in {"made", "gone", "from", "to"}
    BY QueuedTypes DEF Watch, Moved
  <2>2. \A e \in halves : e.kind = "from"
    BY DEF Typed, WatchTypeOK
  <2> QED BY <2>1, <2>2
<1>3. \A e \in Queued : e.kind \in {"made", "gone", "renamed"}
  BY QueuedTypes DEF Event
<1>4. ASSUME NEW e \in Raw \cup halves, Moves(e), Speaks(e, x)
      PROVE  FALSE
  <2>1. e.kind \in {"from", "to"} /\ e.path = x
    BY <1>2, <1>4 DEF Moves, Speaks
  <2> QED BY <1>1, <1>4, <2>1 DEF Moving, Raw
<1>5. ASSUME NEW e \in Queued, Moves(e), Speaks(e, x)
      PROVE  FALSE
  <2>1. e.kind = "renamed" /\ x \in {e.path, e.from}
    BY <1>3, <1>5 DEF Moves, Speaks
  <2> QED BY <1>1, <1>5, <2>1 DEF Moving
<1>6. x \notin ToSet(reaped)
  BY <1>1 DEF Moving
<1> QED BY <1>4, <1>5, <1>6 DEF Still, Words

\* Of a file that rests nothing at all is under way.
LEMMA RestingIsSilent ==
    ASSUME Typed, Careful, NEW x, Resting(x)
    PROVE  Silent(x) /\ Still(x)
<1>1. ~Moving(x) /\ ~Awaited(x)
  BY DEF Resting
<1>2. \A e \in Words : e.path # x
  BY <1>1 DEF Awaited, Words, Raw
<1>3. Still(x)
  BY <1>1, FreeIsStill DEF Free
<1>4. \A e \in Words : ~Speaks(e, x)
  BY <1>2, <1>3 DEF Speaks, Still, Moves
<1> QED BY <1>3, <1>4 DEF Silent, Still, Tells

\* What is done in a folder without a watch waits for the folder to be walked.
LEMMA Unreported ==
    ASSUME EventsInv, NEW x \in Paths, ~Reports(x), Parent[x] # Root => Exists(Parent[x])
    PROVE  Silent(x) /\ shown[x] = 0 /\ \E e \in Raw : e.path = Parent[x]
<1>1. Parent[x] \in Folders \cup {Root} /\ Root \in watched
  BY LocalEventsAssumption DEF EventsInv, FoldersWatched
<1>2. Parent[x] \in Folders \ watched /\ Exists(Parent[x])
  BY <1>1 DEF Reports
<1> QED BY <1>2 DEF EventsInv, FoldersWatched

\* A file is written or removed, or a folder made.
LEMMA InvPlain ==
    ASSUME Typed, EventsInv, NEW x \in Paths, NEW v, NEW e, Still(x),
           IF v = 0 THEN x \in Files /\ e = Gone(x) ELSE e = Made(x),
           Parent[x] # Root => Exists(Parent[x]),
           Do([tree EXCEPT ![x] = v], If(Reports(x), e))
    PROVE  EventsInv'
<1> DEFINE raw == If(Reports(x), e)
           T == ToSet(raw)
<1>1. /\ edits < MaxEdits /\ edits' = edits + 1 /\ tree' = [tree EXCEPT ![x] = v] /\ inotify' = inotify \o raw
      /\ UNCHANGED <<watcher, debounce, shown>>
  BY DEF Do
<1>2. tree \in [Paths -> 0..MaxEdits]
  BY DEF Typed, WatchTypeOK
<1>3. tree'[x] = v /\ \A y \in Paths : y # x => tree'[y] = tree[y]
  BY <1>1, <1>2
<1>4. e \in Watch /\ e.path = x /\ e.kind \in {"made", "gone"} /\ (e.kind = "made" <=> v # 0)
  <2>1. Made(x) \in Watch /\ Gone(x) \in Watch
    BY <1>1, RawTypes
  <2> QED BY <2>1 DEF Made, Gone
<1>5. raw \in Seq(Watch \cup Moved) /\ \A i, j \in DOMAIN raw : raw[i] = raw[j] => i = j
  <2>1. CASE Reports(x)
    BY <1>4, <2>1 DEF If
  <2>2. CASE ~Reports(x)
    BY <2>2 DEF If
  <2> QED BY <2>1, <2>2
<1>6. T = IF Reports(x) THEN {e} ELSE {}
  BY DEF If, ToSet
<1> HIDE DEF T, raw
<1>7. \A y \in Paths : Speaks(e, y) <=> y = x
  BY <1>4 DEF Speaks
<1>8. \A f \in T : f = e /\ ~Moves(f) /\ Parent[x] \in watched
  BY <1>4, <1>6 DEF Moves, Reports
<1>9. Folders \cap Files = {} /\ \A d \in Folders : Parent[d] = Root /\ d \in Paths
  BY LocalEventsAssumption DEF Paths
<1>10. Root \in watched /\ \A y \in Paths : Exists(y) /\ Parent[y] # Root => Exists(Parent[y])
  BY DEF EventsInv, FoldersWatched
<1>11. \A y \in Paths : tree'[y] # tree[y] => Still(y)
  BY <1>3
<1>12. \A f \in T : \A y \in Paths : Speaks(f, y) => Still(y) /\ Parent[y] \in watched
  BY <1>7, <1>8
<1>13. \A y \in Paths : AllRight(T, y, tree'[y])
  BY <1>3, <1>4, <1>7, <1>8 DEF AllRight, Right
<1>14. \A f \in T : f.path \in Folders => f.kind \in {"made", "to"} /\ tree'[f.path] # 0
  BY <1>3, <1>4, <1>8, <1>9
<1>15. \A d \in Folders : tree[d] # 0 => tree'[d] # 0
  BY <1>3, <1>9
<1>16. \A y \in Paths : tree'[y] # 0 /\ Parent[y] # Root => tree[y] # 0 \/ tree'[Parent[y]] # 0
  <2>1. Parent[x] # Root => tree'[Parent[x]] # 0
    BY <1>15, LocalEventsAssumption DEF Exists
  <2> QED BY <1>3, <2>1
<1>17. \A d \in Folders : tree'[d] # 0 /\ tree[d] = 0 => \E f \in T : f.path = d
  BY <1>3, <1>4, <1>6, <1>9, <1>10 DEF Reports
<1>18. \A y \in Paths : tree'[y] # tree[y] /\ ~Tells(T, y) =>
         Silent(y) /\ shown[y] = 0 /\ \E f \in Raw \cup T : f.path = Parent[y]
  <2>1. SUFFICES ASSUME tree'[x] # tree[x], ~Tells(T, x)
                 PROVE  Silent(x) /\ shown[x] = 0 /\ \E f \in Raw \cup T : f.path = Parent[x]
    BY <1>3
  <2>2. ~Reports(x)
    BY <1>6, <1>7, <2>1 DEF Tells
  <2> QED BY <2>2, Unreported
<1>19. Edited(T)
  BY <1>8, <1>11, <1>12, <1>13, <1>14, <1>15, <1>16, <1>17, <1>18 DEF Edited
<1> QED BY <1>1, <1>5, <1>19, InvEdit DEF T

\* A file or a folder comes from outside.
LEMMA InvMoveIn ==
    ASSUME Typed, EventsInv, Careful, NEW x \in Paths, MoveIn(x)
    PROVE  EventsInv'
<1>1. PICK with \in SUBSET {y \in Files : Parent[y] = x} :
        Do([y \in Paths |-> IF y \in {x} \cup with THEN edits + 1 ELSE tree[y]], <<Half("to", x, edits + 1)>>)
  BY DEF MoveIn
<1> DEFINE e == Half("to", x, edits + 1)
           raw == <<e>>
           T == ToSet(raw)
<1>2. /\ edits < MaxEdits /\ edits' = edits + 1 /\ inotify' = inotify \o raw
      /\ tree' = [y \in Paths |-> IF y \in {x} \cup with THEN edits + 1 ELSE tree[y]]
      /\ UNCHANGED <<watcher, debounce, shown>>
  BY <1>1 DEF Do
<1>3. tree \in [Paths -> 0..MaxEdits] /\ edits \in Nat /\ edits + 1 # 0
  BY LocalEventsAssumption DEF Typed, WatchTypeOK
<1>4. \A y \in Paths : tree'[y] = IF y \in {x} \cup with THEN edits + 1 ELSE tree[y]
  BY <1>2
<1>5. e \in Moved /\ e.path = x /\ e.kind = "to" /\ e.cookie = edits + 1
  BY <1>2, RawTypes DEF Half
<1>6. raw \in Seq(Watch \cup Moved) /\ \A i, j \in DOMAIN raw : raw[i] = raw[j] => i = j
  BY <1>5
<1>7. T = {e}
  BY DEF ToSet
<1> HIDE DEF T, raw, e
<1>8. \A y \in Paths : Speaks(e, y) <=> y = x
  BY <1>5 DEF Speaks
<1>9. Silent(x) /\ Still(x) /\ Parent[x] = Root /\ ~Exists(x) /\ Root \in watched
  BY RestingIsSilent DEF MoveIn, EventsInv, FoldersWatched
<1>10. Folders \cap Files = {} /\ Root \notin Paths /\ Paths = Files \cup Folders
       /\ \A y \in Paths : Parent[y] \in Folders \cup {Root}
  BY LocalEventsAssumption DEF Paths
<1>11. x \notin watched
  BY <1>9, <1>10 DEF EventsInv, FoldersWatched
<1>12. ASSUME NEW y \in with
       PROVE  y \in Files /\ Parent[y] = x /\ Silent(y) /\ Still(y) /\ shown[y] = 0
  <2>1. y \in Files /\ Parent[y] = x /\ y \in Paths /\ x \in Folders \ watched
    BY <1>10, <1>11
  <2>2. Silent(y) /\ shown[y] = 0
    BY <2>1 DEF EventsInv, FoldersWatched
  <2> QED BY <2>1, <2>2 DEF Silent, Still, Tells
<1>13. \A y \in Paths : tree'[y] # tree[y] => Still(y)
  BY <1>4, <1>9, <1>12
<1>14. \A f \in T : \A y \in Paths : Speaks(f, y) => Still(y) /\ Parent[y] \in watched /\ Silent(y)
  BY <1>7, <1>8, <1>9
<1>15. \A y \in Paths : AllRight(T, y, tree'[y])
  BY <1>3, <1>4, <1>5, <1>7, <1>8 DEF AllRight, Right
<1>16. \A f \in T : f = e /\ f.cookie = edits + 1 /\ f.kind = "to" /\ f.path = x /\ Moves(f) /\ tree'[x] # 0
  BY <1>3, <1>4, <1>5, <1>7 DEF Moves
<1>17. \A d \in Folders : tree[d] # 0 => tree'[d] # 0
  BY <1>3, <1>4, <1>10
<1>18. \A y \in Paths : tree'[y] # 0 /\ Parent[y] # Root => tree[y] # 0 \/ tree'[Parent[y]] # 0
  BY <1>3, <1>4, <1>9, <1>12
<1>19. \A d \in Folders : tree'[d] # 0 /\ tree[d] = 0 => \E f \in T : f.path = d
  BY <1>4, <1>5, <1>7, <1>10, <1>12
<1>20. \A y \in Paths : tree'[y] # tree[y] /\ ~Tells(T, y) =>
         Silent(y) /\ shown[y] = 0 /\ \E f \in Raw \cup T : f.path = Parent[y]
  BY <1>4, <1>5, <1>7, <1>8, <1>12 DEF Tells
<1>21. Edited(T)
  BY <1>13, <1>14, <1>15, <1>16, <1>17, <1>18, <1>19, <1>20 DEF Edited
<1> QED BY <1>2, <1>6, <1>21, InvEdit DEF T

\* A file leaves.
LEMMA InvMoveOut ==
    ASSUME Typed, EventsInv, Careful, NEW x \in Paths, MoveOut(x)
    PROVE  EventsInv'
<1> DEFINE e == Half("from", x, edits + 1)
           raw == <<e>>
           T == ToSet(raw)
<1>1. /\ edits < MaxEdits /\ edits' = edits + 1 /\ inotify' = inotify \o raw
      /\ tree' = [tree EXCEPT ![x] = 0] /\ x \in Files /\ Reports(x)
      /\ UNCHANGED <<watcher, debounce, shown>>
  BY DEF MoveOut, Do
<1>2. tree \in [Paths -> 0..MaxEdits]
  BY DEF Typed, WatchTypeOK
<1>3. tree'[x] = 0 /\ \A y \in Paths : y # x => tree'[y] = tree[y]
  BY <1>1, <1>2
<1>4. e \in Moved /\ e.path = x /\ e.kind = "from" /\ e.cookie = edits + 1
  BY <1>1, RawTypes DEF Half
<1>5. raw \in Seq(Watch \cup Moved) /\ \A i, j \in DOMAIN raw : raw[i] = raw[j] => i = j
  BY <1>4
<1>6. T = {e}
  BY DEF ToSet
<1> HIDE DEF T, raw, e
<1>7. \A y \in Paths : Speaks(e, y) <=> y = x
  BY <1>4 DEF Speaks
<1>8. Silent(x) /\ Still(x) /\ Parent[x] \in watched
  BY <1>1, RestingIsSilent DEF MoveOut, Reports
<1>9. x \notin Folders
  BY <1>1, LocalEventsAssumption
<1>10. \A f \in T : \A y \in Paths : Speaks(f, y) => Still(y) /\ Parent[y] \in watched /\ Silent(y)
  BY <1>6, <1>7, <1>8
<1>11. \A y \in Paths : AllRight(T, y, tree'[y])
  BY <1>3, <1>4, <1>6, <1>7 DEF AllRight, Right
<1>12. \A f \in T : f = e /\ f.cookie = edits + 1 /\ f.kind = "from" /\ f.path = x /\ Moves(f)
  BY <1>4, <1>6 DEF Moves
<1>13. \A d \in Folders : tree'[d] = tree[d]
  BY <1>3, <1>9 DEF Paths
<1>14. \A y \in Paths : tree'[y] # 0 => tree[y] # 0
  BY <1>3
<1>15. \A y \in Paths : tree'[y] # tree[y] => Still(y) /\ Tells(T, y)
  BY <1>3, <1>6, <1>7, <1>8 DEF Tells
<1>16. Edited(T)
  BY <1>9, <1>10, <1>11, <1>12, <1>13, <1>14, <1>15 DEF Edited
<1> QED BY <1>1, <1>5, <1>16, InvEdit DEF T

\* A file is renamed: Drive has what it is, or nothing.
LEMMA InvRename ==
    ASSUME Typed, EventsInv, Careful, NEW x \in Paths, NEW y \in Paths, Rename(x, y)
    PROVE  EventsInv'
<1> DEFINE e == Half("from", x, edits + 1)
           f == Half("to", y, edits + 1)
           raw == <<e, f>>
           T == ToSet(raw)
<1>1. /\ edits < MaxEdits /\ edits' = edits + 1 /\ inotify' = inotify \o raw
      /\ tree' = [tree EXCEPT ![x] = 0, ![y] = tree[x]]
      /\ UNCHANGED <<watcher, debounce, shown>>
  BY DEF Rename, Do
<1>2. /\ {x, y} \subseteq Files /\ x # y /\ Reports(x) /\ Reports(y) /\ tree[x] # 0
      /\ y \in Ignored => x \in Ignored
  BY DEF Rename, Exists
<1>3. tree \in [Paths -> 0..MaxEdits]
  BY DEF Typed, WatchTypeOK
<1>4. tree'[x] = 0 /\ tree'[y] = tree[x] /\ \A z \in Paths : z # x /\ z # y => tree'[z] = tree[z]
  BY <1>1, <1>2, <1>3
<1>5. /\ e \in Moved /\ e.path = x /\ e.kind = "from" /\ e.cookie = edits + 1
      /\ f \in Moved /\ f.path = y /\ f.kind = "to" /\ f.cookie = edits + 1
  BY <1>1, <1>2, RawTypes DEF Half
<1>6. raw \in Seq(Watch \cup Moved) /\ \A i, j \in DOMAIN raw : raw[i] = raw[j] => i = j
  <2>1. e # f
    BY <1>5
  <2> HIDE DEF e, f
  <2> QED BY <1>5, <2>1
<1>7. T = {e, f}
  <2> HIDE DEF e, f
  <2>1. DOMAIN raw = {1, 2} /\ raw[1] = e /\ raw[2] = f
    OBVIOUS
  <2> QED BY <2>1 DEF ToSet
<1> HIDE DEF T, raw, e, f
<1>8. \A z \in Paths : (Speaks(e, z) <=> z = x) /\ (Speaks(f, z) <=> z = y)
  BY <1>5 DEF Speaks
<1>9. /\ Silent(x) /\ Still(x) /\ Parent[x] \in watched
      /\ Silent(y) /\ Still(y) /\ Parent[y] \in watched
  BY <1>2, RestingIsSilent DEF Rename, Reports
<1>10. x \notin Folders /\ y \notin Folders /\ \A z \in Paths : Parent[z] \in Folders \cup {Root}
  BY <1>2, LocalEventsAssumption
<1>11. \A g \in T : \A z \in Paths : Speaks(g, z) => Still(z) /\ Parent[z] \in watched /\ Silent(z)
  BY <1>7, <1>8, <1>9
<1>12. \A z \in Paths : AllRight(T, z, tree'[z])
  BY <1>2, <1>4, <1>5, <1>7, <1>8 DEF AllRight, Right
<1>13. \A g \in T : g \in {e, f} /\ g.cookie = edits + 1 /\ g.path \notin Folders /\ Moves(g)
  BY <1>5, <1>7, <1>10 DEF Moves
<1>14. \A g, h \in T : g.kind = h.kind => g = h
  BY <1>5, <1>7
<1>15. PairOK(x, y)'
  <2>1. shown[x] \in {0, tree[x]}
    <3>1. CASE x \in Ignored
      BY <3>1 DEF EventsInv, IgnoredApart
    <3>2. CASE x \notin Ignored
      BY <1>9, <3>2 DEF EventsInv, DriveKnows
    <3> QED BY <3>1, <3>2
  <2> QED BY <1>1, <1>2, <1>4, <2>1 DEF PairOK
<1>16. \A g, h \in T : g.kind = "from" /\ h.kind = "to" => PairOK(g.path, h.path)'
  <2>1. \A g, h \in T : g.kind = "from" /\ h.kind = "to" => g.path = x /\ h.path = y
    BY <1>5, <1>7
  <2> QED BY <1>15, <2>1 DEF PairOK
<1>17. \A d \in Folders : tree'[d] = tree[d]
  BY <1>4, <1>10 DEF Paths
<1>18. \A z \in Paths : tree'[z] # 0 /\ Parent[z] # Root => tree[z] # 0 \/ tree'[Parent[z]] # 0
  <2>1. Parent[y] # Root => tree'[Parent[y]] # 0
    BY <1>9, <1>10, <1>17 DEF EventsInv, FoldersWatched, Exists
  <2> QED BY <1>4, <2>1
<1>19. \A z \in Paths : tree'[z] # tree[z] => Still(z) /\ Tells(T, z)
  BY <1>4, <1>7, <1>8, <1>9 DEF Tells
<1>20. Edited(T)
  BY <1>11, <1>12, <1>13, <1>14, <1>16, <1>17, <1>18, <1>19 DEF Edited
<1> QED BY <1>1, <1>6, <1>20, InvEdit DEF T

\* What users do.
LEMMA InvUser ==
    ASSUME Typed, EventsInv, Careful, UserStep
    PROVE  EventsInv'
<1>1. PICK x \in Paths : Write(x) \/ Unlink(x) \/ MoveIn(x) \/ MoveOut(x) \/ \E y \in Paths : Rename(x, y)
  BY DEF UserStep
<1>2. CASE Write(x)
  <2>1. Still(x) /\ edits \in Nat /\ edits + 1 # 0
    BY <1>2, FreeIsStill, LocalEventsAssumption DEF Write, Typed, WatchTypeOK
  <2>2. /\ Parent[x] # Root => Exists(Parent[x])
        /\ Do([tree EXCEPT ![x] = edits + 1], If(Reports(x), Made(x)))
    BY <1>2 DEF Write
  <2> QED BY <2>1, <2>2, InvPlain
<1>3. CASE Unlink(x)
  <2>1. Still(x) /\ x \in Files /\ Exists(x) /\ Do([tree EXCEPT ![x] = 0], If(Reports(x), Gone(x)))
    BY <1>3, FreeIsStill DEF Unlink
  <2>2. Parent[x] # Root => Exists(Parent[x])
    BY <2>1 DEF EventsInv, FoldersWatched
  <2> QED BY <2>1, <2>2, InvPlain
<1>4. CASE MoveIn(x)
  BY <1>4, InvMoveIn
<1>5. CASE MoveOut(x)
  BY <1>5, InvMoveOut
<1>6. CASE \E y \in Paths : Rename(x, y)
  BY <1>6, InvRename
<1> QED BY <1>1, <1>2, <1>3, <1>4, <1>5, <1>6
-----------------------------------------------------------------------------
\* The invariant, and Drive at rest.

\* Nothing is under way at first.
LEMMA EventsInit ==
    ASSUME WatchInit
    PROVE  EventsInv
<1>1. Raw = {} /\ Words = {} /\ halves = {} /\ ToSet(reaped) = {} /\ Queued = {}
  BY DEF WatchInit, Raw, Words, Queued, ToSet
<1>2. \A x \in Paths : tree[x] = 0 /\ shown[x] = 0
  BY DEF WatchInit
<1>3. \A x \in Paths : Parent[x] \in Folders \cup {Root}
  BY LocalEventsAssumption
<1>4. MovesAlone
  BY <1>1 DEF WatchInit, MovesAlone
<1>5. HalvesPair
  BY <1>1 DEF HalvesPair
<1>6. \A x : Silent(x)
  BY <1>1 DEF Silent, Tells
<1>7. FoldersWatched
  <2>1. watched = {Root} /\ Folders \subseteq Paths
    BY DEF WatchInit, Paths
  <2> QED BY <1>1, <1>2, <1>6, <2>1 DEF FoldersWatched, Exists
<1>8. IgnoredApart
  BY <1>1, <1>2, LocalEventsAssumption DEF IgnoredApart, Tells, Paths
<1>9. \A x \in Paths : NewestRight(x)
  <2>1. \A x \in Paths : LastRight(<<>>, x, tree[x]) /\ AllRight({}, x, tree[x])
    BY DEF LastRight, AllRight
  <2>2. ToSet(<<>>) = {}
    BY DEF ToSet
  <2> QED BY <2>1, <2>2 DEF WatchInit, NewestRight
<1>10. DriveKnows
  BY <1>2, <1>9 DEF DriveKnows
<1> QED BY <1>4, <1>5, <1>7, <1>8, <1>10 DEF EventsInv

\* What was dropped stays dropped.
LEMMA DroppedStays ==
    ASSUME Typed, [WatchNext]_watchVars, ~dropped'
    PROVE  ~dropped
<1>1. CASE UserStep
  BY <1>1 DEF UserStep, Write, Unlink, MoveIn, MoveOut, Rename, Do, watcher
<1>2. CASE Deliver
  <2>1. inotify # <<>> /\ TrySend(Added(Head(inotify)))
    BY <1>2, Delivered
  <2>2. Added(Head(inotify)) \in Seq(Event)
    BY <2>1, Headed
  <2> QED BY <2>1, <2>2, Sent
<1>3. CASE DaemonStep /\ ~Deliver
  BY <1>3 DEF DaemonStep, Reap, SendReaped, Receive, Apply, Age, Flush, Forward, watcher
<1>4. CASE UNCHANGED watchVars
  BY <1>4 DEF watchVars, watcher
<1> QED BY <1>1, <1>2, <1>3, <1>4 DEF WatchNext

\* Every step keeps the invariant, unless it drops an event.
LEMMA EventsStep ==
    ASSUME Careful, \A x \in Ignored : Parent[x] = Root,
           Typed, EventsInv, [WatchNext]_watchVars, ~dropped'
    PROVE  EventsInv'
<1>1. CASE UserStep
  BY <1>1, InvUser
<1>2. CASE Deliver
  BY <1>2, InvDeliver
<1>3. CASE Reap \/ SendReaped \/ Receive \/ Apply
  BY <1>3, InvReap, InvSendReaped, InvReceive, InvApply
<1>4. CASE \/ \E h \in halves : Age(h)
           \/ \E n \in DOMAIN settling : Flush(n)
           \/ \E e \in flushing : Forward(e)
  BY <1>4, InvAge, InvFlush, InvForward
<1>5. CASE UNCHANGED watchVars
  <2>1. /\ UNCHANGED <<tree, edits, inotify, watched, halves, reaped>>
        /\ UNCHANGED <<channel, settling, flushing, forwarded, shown>>
    BY <1>5 DEF watchVars, world, watcher, debounce
  <2>2. Queued' = Queued
    BY <2>1 DEF Queued
  <2>3. \A x \in Paths \ Ignored : NewestRight(x)'
    BY <2>1 DEF EventsInv, DriveKnows, NewestRight, Raw
  <2> QED BY <2>1, <2>2, <2>3, WordsGoOn
<1> QED BY <1>1, <1>2, <1>3, <1>4, <1>5 DEF WatchNext, DaemonStep

\* Where nothing is under way, every path is silent, and no folder waits to be walked.
LEMMA RestIsMirrored ==
    ASSUME EventsInv, AtRest
    PROVE  Mirrored
<1>1. Raw = {} /\ Queued = {} /\ Words = {} /\ ToSet(reaped) = {}
  BY DEF AtRest, Raw, Words, ToSet
<1>2. \A x \in Paths : Silent(x) /\ ~Covered(x)
  BY <1>1 DEF Silent, Covered, Tells
<1>3. \A x \in Paths \ Ignored : shown[x] = tree[x]
  BY <1>2 DEF EventsInv, DriveKnows
<1>4. \A x \in Ignored : shown[x] = 0
  BY DEF EventsInv, IgnoredApart
<1> QED BY <1>3, <1>4 DEF Mirrored

\* When everything has run through, Drive mirrors the tree (watch/mod.rs, debounce.rs):
\* the debouncer replaces an event only by a newer one of its path, and flushes in any
\* order; late halves of renames are told; a new folder is walked.  Users leave a file
\* alone for a while after a rename, no ignored file is in a folder that is walked, and the
\* channel dropped nothing.
THEOREM RestMirrors ==
    Careful /\ (\A x \in Ignored : Parent[x] = Root) => (WatchSpec => []RestMeansMirrored)
<1> SUFFICES ASSUME Careful, \A x \in Ignored : Parent[x] = Root
             PROVE  WatchSpec => []RestMeansMirrored
  OBVIOUS
<1> DEFINE I == Typed /\ (~dropped => EventsInv)
<1>1. WatchInit => I
  BY TypedInit, EventsInit
<1>2. I /\ [WatchNext]_watchVars => I'
  <2> SUFFICES ASSUME Typed, ~dropped => EventsInv, [WatchNext]_watchVars
               PROVE  Typed' /\ (~dropped' => EventsInv')
    OBVIOUS
  <2>1. Typed'
    BY TypedStep
  <2>2. ASSUME ~dropped'
        PROVE  EventsInv'
    BY <2>2, DroppedStays, EventsStep
  <2> QED BY <2>1, <2>2
<1>3. I => RestMeansMirrored
  BY RestIsMirrored DEF RestMeansMirrored
<1> QED BY <1>1, <1>2, <1>3, PTL DEF WatchSpec
-----------------------------------------------------------------------------
\* Ignored files.

\* No event of an ignored file gets past the callback, and Drive has none.
Hidden ==
    /\ IgnoredStayLocal
    /\ \A e \in Queued : e.path \notin Ignored
    /\ ToSet(reaped) \cap Ignored = {}

\* What a try_send adds, even if it is cut off.
LEMMA SentSet ==
    ASSUME Typed, NEW events \in Seq(Event), TrySend(events)
    PROVE  ToSet(channel') \subseteq ToSet(channel) \cup ToSet(events)
<1> DEFINE room == Capacity - Len(channel)
           k == IF Len(events) < room THEN Len(events) ELSE room
           cut == SubSeq(events, 1, k)
<1>1. channel \in Seq(Event) /\ Len(channel) <= Capacity /\ Capacity \in Nat
  BY LocalEventsAssumption DEF Typed, WatchTypeOK
<1>2. room \in Nat /\ Len(events) \in Nat /\ k \in Nat /\ k <= Len(events)
  BY <1>1
<1>3. cut \in Seq(Event) /\ DOMAIN cut = 1..k /\ \A i \in 1..k : cut[i] = events[i] /\ i \in DOMAIN events
  BY <1>2
<1>4. channel' = channel \o cut
  BY DEF TrySend
<1>5. ToSet(cut) \subseteq ToSet(events)
  BY <1>3 DEF ToSet
<1> HIDE DEF cut
<1> QED BY <1>1, <1>3, <1>4, <1>5, ConcatSet

\* The callback asks for the patterns.
LEMMA AddedAccepted ==
    ASSUME Typed, inotify # <<>>
    PROVE  \A f \in ToSet(Added(Head(inotify))) : f.path \notin Ignored
<1> DEFINE e == Head(inotify)
<1>1. \A f \in ToSet(Own(e)) : f.path \notin Ignored
  <2> DEFINE h0 == CHOOSE h \in {h \in halves \ Stale : h.cookie = e.cookie} : TRUE
  <2>1. Made(e.path).path = e.path /\ Renamed(h0.path, e.path).path = e.path
    BY DEF Made, Renamed
  <2>3. Own(e) \in {<<>>, <<e>>, <<Made(e.path)>>, <<Renamed(h0.path, e.path)>>}
        /\ (Own(e) = <<>> \/ e.path \notin Ignored)
    BY DEF Own, If, Accepted
  <2> HIDE DEF h0
  <2>2. ToSet(<<>>) = {} /\ \A f : ToSet(<<f>>) = {f}
    BY DEF ToSet
  <2> QED BY <2>1, <2>2, <2>3
<1>2. Told(Stale) \in Seq(Event) /\ Own(e) \in Seq(Event)
  BY ToldStale, Headed
<1>3. \A f \in ToSet(Told(Stale)) : f.path \notin Ignored
  BY ToldStale DEF Stale, Gone, Typed, WatchTypeOK
<1>4. ToSet(Told(Stale) \o Own(e)) = ToSet(Told(Stale)) \cup ToSet(Own(e))
  BY <1>2, ConcatSet
<1> QED BY <1>1, <1>3, <1>4 DEF Added

\* What the callback and the reaper send.
LEMMA HiddenSent ==
    ASSUME Typed, Hidden, Deliver \/ Reap \/ SendReaped \/ \E h \in halves : Age(h)
    PROVE  Hidden'
<1>1. CASE Deliver
  <2>1. /\ inotify # <<>> /\ TrySend(Added(Head(inotify)))
        /\ UNCHANGED <<reaped, settling, flushing, forwarded, shown>>
    BY <1>1, Delivered DEF debounce
  <2>2. Added(Head(inotify)) \in Seq(Event) /\ \A f \in ToSet(Added(Head(inotify))) : f.path \notin Ignored
    BY <2>1, Headed, AddedAccepted
  <2>3. Queued' \subseteq Queued \cup ToSet(Added(Head(inotify)))
    BY <2>1, <2>2, SentSet DEF Queued
  <2> QED BY <2>1, <2>2, <2>3 DEF Hidden, IgnoredStayLocal
<1>2. CASE Reap
  <2>1. /\ reaped' = SetToSeq({h.path : h \in Stale})
        /\ UNCHANGED <<channel, settling, flushing, forwarded, shown>>
    BY <1>2 DEF Reap, debounce
  <2>2. Stale \subseteq halves /\ IsFiniteSet(halves)
    BY DEF Stale, Typed
  <2>3. IsFiniteSet({h.path : h \in Stale})
    BY <2>2, FS_Subset, FinitePaths
  <2>4. ToSet(reaped') = {h.path : h \in Stale}
    <3>1. {h.path : h \in Stale} \in SUBSET {h.path : h \in Stale}
      OBVIOUS
    <3> QED BY <2>1, <2>3, <3>1, SetAsSeq
  <2>5. ToSet(reaped') \cap Ignored = {}
    BY <2>2, <2>4 DEF Typed, WatchTypeOK
  <2> QED BY <2>1, <2>5 DEF Hidden, IgnoredStayLocal, Queued
<1>3. CASE SendReaped
  <2>1. /\ reaped # <<>> /\ channel' = Append(channel, Gone(Head(reaped))) /\ reaped' = Tail(reaped)
        /\ UNCHANGED <<settling, flushing, forwarded, shown>>
    BY <1>3 DEF SendReaped, debounce
  <2>2. channel \in Seq(Event) /\ reaped \in Seq(Files)
    BY DEF Typed, WatchTypeOK
  <2>3. Head(reaped) \in Files /\ ToSet(reaped) = {Head(reaped)} \cup ToSet(reaped')
    BY <2>1, <2>2, TailSet
  <2>4. Gone(Head(reaped)) \in Event /\ Gone(Head(reaped)).path \notin Ignored
    BY <2>3 DEF Gone, Event, Paths, Hidden
  <2>5. ToSet(channel') = ToSet(channel) \cup {Gone(Head(reaped))}
    BY <2>1, <2>2, <2>4, AppendSet
  <2> QED BY <2>1, <2>3, <2>4, <2>5 DEF Hidden, IgnoredStayLocal, Queued
<1>4. CASE \E h \in halves : Age(h)
  BY <1>4 DEF Age, debounce, Hidden, IgnoredStayLocal, Queued
<1> QED BY <1>1, <1>2, <1>3, <1>4

\* What the debouncer passes on it was given.
LEMMA HiddenSettles ==
    ASSUME Typed, Hidden, Receive \/ (\E n \in DOMAIN settling : Flush(n)) \/ \E e \in flushing : Forward(e)
    PROVE  Hidden'
<1>1. CASE Receive
  <2> DEFINE e == Head(channel)
             others == {f \in ToSet(settling) : Key(f) # Key(e)}
             s == Only(settling, others)
  <2>1. /\ channel # <<>> /\ settling' = Append(s, e) /\ channel' = Tail(channel)
        /\ UNCHANGED <<reaped, flushing, forwarded, shown>>
    BY <1>1 DEF Receive
  <2>2. channel \in Seq(Event) /\ settling \in Seq(Event)
    BY DEF Typed, WatchTypeOK
  <2>3. e \in Event /\ ToSet(channel) = {e} \cup ToSet(channel')
    BY <2>1, <2>2, TailSet
  <2>4. s \in Seq(Event) /\ ToSet(s) \subseteq ToSet(settling)
    BY <2>2, OnlyKeeps
  <2> HIDE DEF s, e
  <2>5. ToSet(settling') = ToSet(s) \cup {e}
    BY <2>1, <2>3, <2>4, AppendSet
  <2> QED BY <2>1, <2>3, <2>4, <2>5 DEF Hidden, IgnoredStayLocal, Queued
<1>2. CASE \E n \in DOMAIN settling : Flush(n)
  <2>1. PICK n \in DOMAIN settling : Flush(n)
    BY <1>2
  <2>2. /\ flushing' = {settling[i] : i \in 1..n} /\ settling' = SubSeq(settling, n + 1, Len(settling))
        /\ UNCHANGED <<reaped, channel, forwarded, shown>>
    BY <2>1 DEF Flush, watcher
  <2>3. /\ settling \in Seq(Event) /\ n \in 1..Len(settling) /\ Len(settling) \in Nat
        /\ DOMAIN settling = 1..Len(settling)
    BY DEF Typed
  <2>4. /\ DOMAIN settling' = 1..Len(settling) - n
        /\ \A i \in 1..Len(settling) - n : settling'[i] = settling[n + i] /\ n + i \in DOMAIN settling
    BY <2>2, <2>3
  <2>5. ToSet(settling') \subseteq ToSet(settling)
    BY <2>4 DEF ToSet
  <2>6. flushing' \subseteq ToSet(settling)
    BY <2>2, <2>3 DEF ToSet
  <2> QED BY <2>2, <2>5, <2>6 DEF Hidden, IgnoredStayLocal, Queued
<1>3. CASE \E e \in flushing : Forward(e)
  <2>1. PICK e \in flushing : Forward(e)
    BY <1>3
  <2>2. /\ flushing' = flushing \ {e} /\ forwarded' = Append(forwarded, e)
        /\ UNCHANGED <<reaped, channel, settling, shown>>
    BY <2>1 DEF Forward, watcher
  <2>3. forwarded \in Seq(Event) /\ e \in Event
    BY DEF Typed, WatchTypeOK
  <2>4. ToSet(forwarded') = ToSet(forwarded) \cup {e}
    BY <2>2, <2>3, AppendSet
  <2> QED BY <2>2, <2>4 DEF Hidden, IgnoredStayLocal, Queued
<1> QED BY <1>1, <1>2, <1>3

\* The reconciler walks folders, and an ignored file is in none.
LEMMA HiddenApplies ==
    ASSUME Typed, Hidden, Apply, \A x \in Ignored : Parent[x] = Root
    PROVE  Hidden'
<1> DEFINE e == Head(forwarded)
<1>1. /\ forwarded # <<>> /\ forwarded' = Tail(forwarded)
      /\ UNCHANGED <<reaped, channel, settling, flushing>>
  BY DEF Apply, watcher
<1>2. e \in Event /\ ToSet(forwarded) = {e} \cup ToSet(forwarded')
  BY <1>1, TailSet DEF Typed
<1>3. e \in Queued /\ e.path \notin Ignored
  BY <1>2 DEF Queued, Hidden
<1>4. Ignored \subseteq Paths /\ Root \notin Paths /\ Folders \subseteq Paths
  BY LocalEventsAssumption DEF Paths
<1>5. shown \in [Paths -> 0..MaxEdits] /\ \A x \in Ignored : shown[x] = 0
  BY DEF Typed, WatchTypeOK, Hidden, IgnoredStayLocal
<1>6. \A x \in Ignored : shown'[x] = 0
  <2>1. CASE e.kind = "made" \/ (e.kind = "renamed" /\ ~Tracked(e.from))
    <3>1. shown' = OnMade(e.path)
      BY <2>1 DEF Apply
    <3>2. \A x \in Ignored : x \notin {e.path} \cup Walked(e.path)
      BY <1>3, <1>4 DEF Walked
    <3> QED BY <1>4, <1>5, <3>1, <3>2 DEF OnMade
  <2>2. CASE ~(e.kind = "made" \/ (e.kind = "renamed" /\ ~Tracked(e.from))) /\ e.kind = "gone"
    <3>1. shown' = [shown EXCEPT ![e.path] = 0]
      BY <2>2 DEF Apply
    <3> QED BY <1>4, <1>5, <3>1
  <2>3. CASE ~(e.kind = "made" \/ (e.kind = "renamed" /\ ~Tracked(e.from))) /\ e.kind # "gone"
    <3>1. shown' = [shown EXCEPT ![e.path] = shown[e.from], ![e.from] = 0]
      BY <2>3 DEF Apply
    <3> QED BY <1>3, <1>4, <1>5, <3>1
  <2> QED BY <2>1, <2>2, <2>3
<1> QED BY <1>1, <1>2, <1>6 DEF Hidden, IgnoredStayLocal, Queued

\* An ignored file of the watched directory never reaches Drive, whatever users do and
\* whatever is dropped: every way into the channel asks for the patterns (watch/mod.rs), and
\* the walk of a new folder, which does not, has none of its files to find.
THEOREM IgnoredStay ==
    (\A x \in Ignored : Parent[x] = Root) => (WatchSpec => []IgnoredStayLocal)
<1> SUFFICES ASSUME \A x \in Ignored : Parent[x] = Root
             PROVE  WatchSpec => []IgnoredStayLocal
  OBVIOUS
<1> DEFINE I == Typed /\ Hidden
<1>1. WatchInit => I
  <2> SUFFICES ASSUME WatchInit PROVE Typed /\ Hidden
    OBVIOUS
  <2>1. Queued = {} /\ ToSet(reaped) = {}
    BY DEF WatchInit, Queued, ToSet
  <2>2. \A x \in Ignored : shown[x] = 0
    BY LocalEventsAssumption DEF WatchInit, Paths
  <2> QED BY <2>1, <2>2, TypedInit DEF Hidden, IgnoredStayLocal
<1>2. I /\ [WatchNext]_watchVars => I'
  <2> SUFFICES ASSUME Typed, Hidden, [WatchNext]_watchVars
               PROVE  Hidden'
    BY TypedStep
  <2>1. CASE UserStep
    <3>1. UNCHANGED <<watcher, debounce, shown>>
      BY <2>1 DEF UserStep, Write, Unlink, MoveIn, MoveOut, Rename, Do
    <3> QED BY <3>1 DEF watcher, debounce, Hidden, IgnoredStayLocal, Queued
  <2>2. CASE DaemonStep
    BY <2>2, HiddenSent, HiddenSettles, HiddenApplies DEF DaemonStep
  <2>3. CASE UNCHANGED watchVars
    BY <2>3 DEF watchVars, watcher, debounce, Hidden, IgnoredStayLocal, Queued
  <2> QED BY <2>1, <2>2, <2>3 DEF WatchNext
<1>3. I => IgnoredStayLocal
  BY DEF Hidden
<1> QED BY <1>1, <1>2, <1>3, PTL DEF WatchSpec
=============================================================================
