-------------------------- MODULE FolderSyncProofs --------------------------
(***************************************************************************)
(* What holds of the rows and of the local tree while folders are created, *)
(* renamed and moved on Drive, for any files, folders, number of changes   *)
(* and of failures: the path of a row is its own, and what is on disk is   *)
(* in a directory that is there.                                           *)
(*                                                                         *)
(* Three observations carry it.                                            *)
(*                                                                         *)
(* Drive is a tree (Grounded): every set of existing objects has one whose *)
(* parent is not in the set.  What is computed along the parents (Above,   *)
(* Prefix) is thus a recursion that ends, with one solution (TreeUnique,   *)
(* TreeRecursion).  A move keeps it: nothing moves into what is below it.  *)
(*                                                                         *)
(* A name is used once.  Hence there is a set K of the names of folders,   *)
(* which only grows: a path ends with a name of K if and only if it is one *)
(* of a folder (Paths), however old it is and whatever was renamed since.  *)
(* So an outdated path of a file never is that of a directory, nor the     *)
(* other way round.                                                        *)
(*                                                                         *)
(* The disk is solid: with a path it has the path's parent, a directory,   *)
(* made of names of folders.  Every operation makes the parents it needs   *)
(* first, and a merge of two directories replaces no directory by a file.  *)
(*                                                                         *)
(* The second half is about users who wait: they change something on Drive *)
(* only while the daemon is at rest (Calm).  One change is under way then, *)
(* and CalmInv says how far it has come.  Something new or edited (Coming) *)
(* needs its entry, then one operation.  Something moved or renamed        *)
(* (Moving) takes what is below it along: each row has its old path or its *)
(* new one, and once a row has the new one so have those below (Halfway).  *)
(* The cache has the old paths until the entry of what moved comes         *)
(* (Unaware), the new ones after (Informed), and until its row has its new *)
(* path something is under way that will bring it there (Told).            *)
(***************************************************************************)
EXTENDS FolderSync, QueuesProofs

-----------------------------------------------------------------------------
\* K is the set of the names of folders: a name is used once.

\* The paths an object can have: through folders, with a last name of its own kind.
Paths(x, K) ==
    {p \in Seq(1..named) : /\ p # Top
                           /\ \A i \in 1..Len(p) : i < Len(p) => p[i] \in K
                           /\ p[Len(p)] \in K <=> x \in Folders}

Entries(K) == [parent : Folders \cup {Root}, name : 1..named, rev : Nat]

\* What exists is in something that exists, and in nothing that is in it.
DriveOK(K) ==
    /\ drive \in [Ids -> Entries(K) \cup {Nothing}]
    /\ \A x \in Ids : Exists(x) => Place(drive[x].parent) /\ (drive[x].name \in K <=> x \in Folders)

Grounded ==
    \A S \in SUBSET {x \in Ids : Exists(x)} : S # {} => \E x \in S : drive[x].parent \notin S

FeedOK(K) ==
    /\ changed \subseteq {x \in Ids : Exists(x)} /\ lost \subseteq Ids
    /\ delta \subseteq [id : Ids, parent : Folders \cup {Root}, name : 1..named, rev : Nat]
    /\ \A s \in delta : Exists(s.id) /\ Place(s.parent) /\ (s.name \in K <=> s.id \in Folders)
    /\ DOMAIN cache = Folders \cup {Root} /\ cache[Root] = Top
    /\ \A f \in Folders : cache[f] # Nothing => cache[f] \in Paths(f, K)

RowsOK(K) ==
    /\ rows \in [Ids -> [path : Seq(1..named), rev : Nat] \cup {Nothing}]
    /\ \A x \in Ids : rows[x] # Nothing => Exists(x) /\ rows[x].path \in Paths(x, K)
    /\ \A x, y \in Ids : rows[x] # Nothing /\ rows[y] # Nothing /\ rows[x].path = rows[y].path => x = y

Jobs == [kind : {"mkdir", "download", "rename"}, id : Ids, path : Seq(1..named)]
JobOK(job, K) ==
    /\ rows[job.id] # Nothing /\ job.path \in Paths(job.id, K)
    /\ job.kind = "mkdir" => job.id \in Folders
    /\ job.kind = "download" => job.id \in Files

JobsOK(K) ==
    /\ ops \in Seq(Jobs) /\ waiting \subseteq Jobs
    /\ \A job \in ToSet(ops) \cup waiting : JobOK(job, K)

\* What is there is in a directory that is there.
Solid(d, K) ==
    /\ Top \in DOMAIN d
    /\ \A p \in DOMAIN d :
         /\ p \in Seq(1..named)
         /\ p # Top => Front(p) \in DOMAIN d /\ Front(p) \in Seq(K)
         /\ p \in Seq(K) => d[p] = "dir"

DiskOK(K) == Solid(disk, K)

Named(K) ==
    /\ K \subseteq 1..named
    /\ DriveOK(K) /\ FeedOK(K) /\ RowsOK(K) /\ JobsOK(K) /\ DiskOK(K)

IInv ==
    /\ named \in 0..MaxChanges /\ faults \in 0..MaxFaults
    /\ Grounded
    /\ \E K \in SUBSET (1..named) : Named(K)

-----------------------------------------------------------------------------
\* Sequences.

\* Two sequences with the same elements are the same.
LEMMA SameSeq ==
    ASSUME NEW S, NEW s \in Seq(S), NEW t \in Seq(S), Len(s) = Len(t), \A i \in 1..Len(s) : s[i] = t[i]
    PROVE  s = t
OBVIOUS

\* A sequence of some elements is one of more.
LEMMA WiderSeq ==
    ASSUME NEW S, NEW T \in SUBSET S, NEW s \in Seq(T)
    PROVE  s \in Seq(S) /\ Len(s) \in Nat /\ \A i \in 1..Len(s) : s[i] \in T
<1>1. Len(s) \in Nat /\ s \in [1..Len(s) -> T]
  OBVIOUS
<1>2. s \in [1..Len(s) -> S]
  BY <1>1
<1> QED BY <1>1, <1>2

\* What Append adds, Front takes away.
LEMMA AppendFacts ==
    ASSUME NEW S, NEW d \in Seq(S), NEW n \in S
    PROVE  /\ Append(d, n) \in Seq(S) /\ Len(Append(d, n)) = Len(d) + 1 /\ Append(d, n) # Top
           /\ \A i \in 1..Len(d) : Append(d, n)[i] = d[i]
           /\ Append(d, n)[Len(d) + 1] = n /\ Front(Append(d, n)) = d
<1>1. /\ Append(d, n) \in Seq(S) /\ Len(Append(d, n)) = Len(d) + 1 /\ Append(d, n) # <<>>
      /\ \A i \in 1..Len(d) : Append(d, n)[i] = d[i]
      /\ Append(d, n)[Len(d) + 1] = n
  OBVIOUS
<1>2. Front(Append(d, n)) = d
  BY DEF Front
<1> QED BY <1>1, <1>2 DEF Top

\* The path of the directory something is in.
LEMMA FrontFacts ==
    ASSUME NEW S, NEW p \in Seq(S), p # Top
    PROVE  /\ Len(p) \in Nat \ {0} /\ Front(p) \in Seq(S) /\ Len(Front(p)) = Len(p) - 1
           /\ \A i \in 1..Len(p) - 1 : Front(p)[i] = p[i]
<1>1. Len(p) \in Nat /\ Len(p) # 0
  BY DEF Top
<1>2. \A n \in 0..Len(p) : /\ SubSeq(p, 1, n) \in Seq(S) /\ Len(SubSeq(p, 1, n)) = n
                           /\ \A i \in 1..n : SubSeq(p, 1, n)[i] = p[i]
  OBVIOUS
<1>3. Len(p) - 1 \in 0..Len(p)
  BY <1>1
<1> QED BY <1>1, <1>2, <1>3 DEF Front

\* One path begins with another.
LEMMA PrefixFacts ==
    ASSUME NEW S, NEW a \in Seq(S), NEW p \in Seq(S)
    PROVE  IsPrefix(a, p) <=> Len(a) <= Len(p) /\ \A i \in 1..Len(a) : a[i] = p[i]
<1>1. Len(a) <= Len(p) => /\ SubSeq(p, 1, Len(a)) \in Seq(S) /\ Len(SubSeq(p, 1, Len(a))) = Len(a)
                          /\ \A i \in 1..Len(a) : SubSeq(p, 1, Len(a))[i] = p[i]
  OBVIOUS
<1>2. SubSeq(a, 1, Len(a)) = a
  OBVIOUS
<1>3. IsPrefix(a, p) <=> Len(a) <= Len(p) /\ a = SubSeq(p, 1, Len(a))
  BY <1>2 DEF IsPrefix
<1> QED BY <1>1, <1>3, SameSeq

\* q is where p is after the move.
IsShift(q, p, from, to, S) ==
    /\ q \in Seq(S) /\ Within(to, q)
    /\ Len(q) = Len(to) + Len(p) - Len(from) /\ Len(from) <= Len(p)
    /\ \A i \in 1..Len(from) : p[i] = from[i]
    /\ \A i \in 1..Len(to) : q[i] = to[i]
    /\ \A i \in 1..Len(p) - Len(from) : q[Len(to) + i] = p[Len(from) + i]

\* Element by element, what is below one directory moved below another.
LEMMA ShiftedFacts ==
    ASSUME NEW S, NEW from \in Seq(S), NEW to \in Seq(S), NEW p \in Seq(S), Within(from, p)
    PROVE  IsShift(Shifted(p, from, to), p, from, to, S)
<1> DEFINE q == SubSeq(p, Len(from) + 1, Len(p))
<1>1. Len(from) <= Len(p) /\ Len(from) \in Nat /\ Len(p) \in Nat /\ Len(to) \in Nat
      /\ \A i \in 1..Len(from) : p[i] = from[i]
  BY PrefixFacts DEF Within
<1>2. q \in Seq(S) /\ Len(q) = Len(p) - Len(from) /\ \A i \in 1..Len(p) - Len(from) : q[i] = p[Len(from) + i]
  BY <1>1
<1>3. Shifted(p, from, to) = to \o q
  BY DEF Shifted
<1> HIDE DEF q
<1>4. /\ to \o q \in Seq(S) /\ Len(to \o q) = Len(to) + Len(q)
      /\ \A i \in 1..Len(to) : (to \o q)[i] = to[i]
      /\ \A i \in 1..Len(q) : (to \o q)[Len(to) + i] = q[i]
  <2> \A s \in Seq(S) : /\ to \o s \in Seq(S) /\ Len(to \o s) = Len(to) + Len(s)
                        /\ \A i \in 1..Len(to) : (to \o s)[i] = to[i]
                        /\ \A i \in 1..Len(s) : (to \o s)[Len(to) + i] = s[i]
    OBVIOUS
  <2> QED BY <1>2
<1>5. Within(to, to \o q)
  <2>1. Len(to) <= Len(to \o q) /\ \A i \in 1..Len(to) : to[i] = (to \o q)[i]
    BY <1>1, <1>2, <1>4
  <2> QED BY <2>1, <1>4, PrefixFacts DEF Within
<1> QED BY <1>1, <1>2, <1>3, <1>4, <1>5 DEF IsShift

\* A move there and back.
LEMMA ShiftedBack ==
    ASSUME NEW S, NEW from \in Seq(S), NEW to \in Seq(S), NEW p \in Seq(S), Within(from, p)
    PROVE  Shifted(Shifted(p, from, to), to, from) = p
<1> DEFINE q == Shifted(p, from, to)
           r == Shifted(q, to, from)
<1>0. IsShift(q, p, from, to, S)
  BY ShiftedFacts
<1> HIDE DEF q
<1>1. /\ q \in Seq(S) /\ Within(to, q)
      /\ Len(q) = Len(to) + Len(p) - Len(from) /\ Len(from) <= Len(p)
      /\ \A i \in 1..Len(from) : p[i] = from[i]
      /\ \A i \in 1..Len(p) - Len(from) : q[Len(to) + i] = p[Len(from) + i]
  BY <1>0 DEF IsShift
<1>2. IsShift(r, q, to, from, S)
  BY <1>1, ShiftedFacts
<1> HIDE DEF r
<1>21. /\ r \in Seq(S) /\ Len(r) = Len(from) + Len(q) - Len(to)
       /\ \A i \in 1..Len(from) : r[i] = from[i]
       /\ \A i \in 1..Len(q) - Len(to) : r[Len(from) + i] = q[Len(to) + i]
  BY <1>2 DEF IsShift
<1>3. Len(r) = Len(p) /\ Len(q) - Len(to) = Len(p) - Len(from) /\ Len(p) \in Nat /\ Len(from) \in Nat
  BY <1>1, <1>21
<1>4. \A i \in 1..Len(p) - Len(from) : r[Len(from) + i] = p[Len(from) + i]
  <2> TAKE i \in 1..Len(p) - Len(from)
  <2>1. i \in 1..Len(q) - Len(to)
    BY <1>3
  <2> QED BY <2>1, <1>1, <1>21
<1>5. \A i \in 1..Len(p) : r[i] = p[i]
  <2> TAKE i \in 1..Len(p)
  <2>1. CASE i <= Len(from)
    BY <2>1, <1>1, <1>21, <1>3
  <2>2. CASE i > Len(from)
    <3>1. i - Len(from) \in 1..Len(p) - Len(from) /\ Len(from) + (i - Len(from)) = i
      BY <2>2, <1>3
    <3> QED BY <3>1, <1>4
  <2> QED BY <2>1, <2>2, <1>3
<1>6. r = p
  BY <1>21, <1>3, <1>5, SameSeq
<1> QED BY <1>6 DEF r, q

\* Two paths that arrive at the same place came from the same place.
LEMMA ShiftedOne ==
    ASSUME NEW S, NEW from \in Seq(S), NEW to \in Seq(S), NEW p \in Seq(S), NEW q \in Seq(S),
           Within(from, p), Within(from, q), Shifted(p, from, to) = Shifted(q, from, to)
    PROVE  p = q
<1>1. Shifted(Shifted(p, from, to), to, from) = p /\ Shifted(Shifted(q, from, to), to, from) = q
  BY ShiftedBack
<1> QED BY <1>1

\* What is below a directory, but not the directory itself, is in one that moves with it.
LEMMA ShiftedFront ==
    ASSUME NEW S, NEW from \in Seq(S), NEW to \in Seq(S), NEW p \in Seq(S), Within(from, p), p # from
    PROVE  /\ p # Top /\ Within(from, Front(p)) /\ Shifted(p, from, to) # Top
           /\ Front(Shifted(p, from, to)) = Shifted(Front(p), from, to)
<1>0. Len(from) \in Nat /\ Len(to) \in Nat /\ Len(p) \in Nat
  OBVIOUS
<1>1. Len(from) <= Len(p) /\ \A i \in 1..Len(from) : p[i] = from[i]
  BY ShiftedFacts DEF IsShift
<1>2. Len(from) < Len(p)
  <2>1. Len(from) # Len(p)
    BY <1>1, SameSeq
  <2> QED BY <2>1, <1>0, <1>1
<1>3. p # Top
  BY <1>0, <1>2 DEF Top
<1>4. /\ Front(p) \in Seq(S) /\ Len(Front(p)) = Len(p) - 1
      /\ \A i \in 1..Len(p) - 1 : Front(p)[i] = p[i]
  BY <1>3, FrontFacts
<1>5. Within(from, Front(p))
  <2>1. Len(from) <= Len(Front(p)) /\ \A i \in 1..Len(from) : from[i] = Front(p)[i]
    BY <1>0, <1>1, <1>2, <1>4
  <2> QED BY <2>1, <1>4, PrefixFacts DEF Within
<1> DEFINE q == Shifted(p, from, to)
           r == Shifted(Front(p), from, to)
<1>61. IsShift(q, p, from, to, S)
  BY ShiftedFacts
<1>71. IsShift(r, Front(p), from, to, S)
  BY <1>4, <1>5, ShiftedFacts
<1> HIDE DEF q, r
<1>6. /\ q \in Seq(S) /\ Len(q) = Len(to) + Len(p) - Len(from)
      /\ \A i \in 1..Len(to) : q[i] = to[i]
      /\ \A i \in 1..Len(p) - Len(from) : q[Len(to) + i] = p[Len(from) + i]
  BY <1>61 DEF IsShift
<1>7. /\ r \in Seq(S) /\ Len(r) = Len(to) + Len(Front(p)) - Len(from)
      /\ \A i \in 1..Len(to) : r[i] = to[i]
      /\ \A i \in 1..Len(Front(p)) - Len(from) : r[Len(to) + i] = Front(p)[Len(from) + i]
  BY <1>71 DEF IsShift
<1>8. Len(q) = Len(to) + Len(p) - Len(from) /\ Len(q) > 0 /\ q # Top
  BY <1>0, <1>2, <1>6 DEF Top
<1>9. /\ Front(q) \in Seq(S) /\ Len(Front(q)) = Len(q) - 1
      /\ \A i \in 1..Len(q) - 1 : Front(q)[i] = q[i]
  BY <1>6, <1>8, FrontFacts
<1>10. Len(r) = Len(Front(q))
  BY <1>0, <1>4, <1>6, <1>7, <1>9
<1>11. \A i \in 1..Len(r) : r[i] = Front(q)[i]
  <2> TAKE i \in 1..Len(r)
  <2>1. Len(r) = Len(to) + Len(p) - Len(from) - 1
    BY <1>0, <1>4, <1>7
  <2>2. i \in 1..Len(q) - 1 /\ Front(q)[i] = q[i]
    BY <2>1, <1>0, <1>6, <1>9
  <2>3. CASE i <= Len(to)
    BY <2>2, <2>3, <1>0, <1>6, <1>7
  <2>4. CASE i > Len(to)
    <3> DEFINE j == i - Len(to)
    <3>1. j \in 1..Len(Front(p)) - Len(from) /\ j \in 1..Len(p) - Len(from) /\ Len(to) + j = i
      BY <2>1, <2>4, <1>0, <1>4
    <3>2. Len(from) + j \in 1..Len(p) - 1
      BY <3>1, <1>0, <1>4
    <3> HIDE DEF j
    <3>3. /\ r[i] = Front(p)[Len(from) + j] /\ q[i] = p[Len(from) + j]
          /\ Front(p)[Len(from) + j] = p[Len(from) + j]
      BY <3>1, <3>2, <1>4, <1>6, <1>7
    <3> QED BY <3>3, <2>2
  <2> QED BY <2>3, <2>4, <1>0
<1>12. Front(q) = r
  BY <1>7, <1>9, <1>10, <1>11, SameSeq
<1> QED BY <1>3, <1>5, <1>8, <1>12 DEF q, r

\* A directory and those it is in.
LEMMA DirsFacts ==
    ASSUME NEW S, NEW path \in Seq(S)
    PROVE  /\ Top \in Dirs(path) /\ path \in Dirs(path) /\ Dirs(path) \subseteq Seq(S)
           /\ \A p \in Dirs(path) : p # Top => Front(p) \in Dirs(path)
<1>0. Len(path) \in Nat
  OBVIOUS
<1>1. \A n \in 0..Len(path) : /\ SubSeq(path, 1, n) \in Seq(S) /\ Len(SubSeq(path, 1, n)) = n
                              /\ \A i \in 1..n : SubSeq(path, 1, n)[i] = path[i]
  OBVIOUS
<1>2. SubSeq(path, 1, 0) = Top /\ SubSeq(path, 1, Len(path)) = path
  BY DEF Top
<1>3. Dirs(path) \subseteq Seq(S)
  BY <1>1 DEF Dirs
<1>4. ASSUME NEW p \in Dirs(path), p # Top
      PROVE  Front(p) \in Dirs(path)
  <2>1. PICK n \in 0..Len(path) : p = SubSeq(path, 1, n)
    BY DEF Dirs
  <2>2. n # 0 /\ n - 1 \in 0..Len(path)
    BY <2>1, <1>0, <1>2, <1>4
  <2>3. /\ p \in Seq(S) /\ Len(p) = n
        /\ \A i \in 1..n : p[i] = path[i]
    BY <2>1, <1>1
  <2>4. /\ Front(p) \in Seq(S) /\ Len(Front(p)) = n - 1
        /\ \A i \in 1..n - 1 : Front(p)[i] = p[i]
    BY <2>3, <1>4, FrontFacts
  <2>5. Front(p) = SubSeq(path, 1, n - 1)
    <3>1. \A i \in 1..n - 1 : Front(p)[i] = SubSeq(path, 1, n - 1)[i]
      BY <2>2, <2>3, <2>4, <1>1
    <3> QED BY <3>1, <2>2, <2>4, <1>1, SameSeq
  <2> QED BY <2>2, <2>5 DEF Dirs
<1>5. 0 \in 0..Len(path) /\ Len(path) \in 0..Len(path)
  BY <1>0
<1>6. SubSeq(path, 1, 0) \in Dirs(path) /\ SubSeq(path, 1, Len(path)) \in Dirs(path)
  BY <1>5 DEF Dirs
<1> QED BY <1>2, <1>3, <1>4, <1>6

-----------------------------------------------------------------------------
\* Recursion along a tree: base[f] at the bottom, step[f] of the parent's value above it.

\* g follows the recursion on C.
Follows(g, C, Base, base, par, step) ==
    \A f \in C : g[f] = IF f \in Base THEN base[f] ELSE step[f][g[par[f]]]

\* C has the parents of what is in it.
Upward(C, Base, par) == \A f \in C : f \notin Base => par[f] \in C

\* Two functions that follow it agree.
LEMMA TreeUnique ==
    ASSUME NEW D, NEW Base \in SUBSET D, NEW base, NEW par, NEW step,
           \A S \in SUBSET (D \ Base) : S # {} => \E f \in S : par[f] \notin S,
           NEW B \in SUBSET D, NEW C \in SUBSET D, NEW g, NEW h,
           Upward(B, Base, par), Upward(C, Base, par),
           Follows(g, B, Base, base, par, step), Follows(h, C, Base, base, par, step)
    PROVE  \A f \in B \cap C : g[f] = h[f]
<1> DEFINE S == {f \in B \cap C : g[f] # h[f]}
<1>1. SUFFICES ASSUME S # {} PROVE FALSE
  OBVIOUS
<1>2. S \in SUBSET (D \ Base)
  BY DEF Follows
<1>3. PICK f \in S : par[f] \notin S
  BY <1>1, <1>2
<1>4. f \in B /\ f \in C /\ f \notin Base /\ g[f] # h[f]
  BY <1>2, <1>3
<1>5. par[f] \in B /\ par[f] \in C
  BY <1>4 DEF Upward
<1>6. g[par[f]] = h[par[f]]
  BY <1>3, <1>5
<1>7. g[f] = step[f][g[par[f]]] /\ h[f] = step[f][h[par[f]]]
  BY <1>4 DEF Follows
<1> QED BY <1>4, <1>6, <1>7

\* There is a function that follows the recursion everywhere.
LEMMA TreeRecursion ==
    ASSUME NEW D, NEW V, NEW Base \in SUBSET D, NEW base \in [Base -> V],
           NEW par \in [D \ Base -> D], NEW step \in [D \ Base -> [V -> V]],
           \A S \in SUBSET (D \ Base) : S # {} => \E f \in S : par[f] \notin S
    PROVE  \E g \in [D -> V] : Follows(g, D, Base, base, par, step)
<1> DEFINE Partial(C, h) == /\ C \in SUBSET D /\ Upward(C, Base, par) /\ h \in [C -> V]
                            /\ Follows(h, C, Base, base, par, step)
           Good == {C \in SUBSET D : \E h : Partial(C, h)}
           U == UNION Good
<1>1. Partial(Base, base)
  BY DEF Upward, Follows
<1>2. Base \in Good
  BY <1>1
<1>3. ASSUME NEW f \in D \ Base, NEW C, NEW h, Partial(C, h), par[f] \in C, f \notin C
      PROVE  \E k : Partial(C \cup {f}, k)
  <2> DEFINE E == C \cup {f}
             k == [e \in E |-> IF e = f THEN step[f][h[par[f]]] ELSE h[e]]
  <2>1. E \in SUBSET D /\ Upward(E, Base, par)
    BY <1>3 DEF Upward
  <2>2. k \in [E -> V]
    <3>1. h[par[f]] \in V /\ step[f] \in [V -> V]
      BY <1>3
    <3>2. step[f][h[par[f]]] \in V
      BY <3>1
    <3> QED BY <3>2, <1>3
  <2>3. Follows(k, E, Base, base, par, step)
    <3>1. k[f] = step[f][k[par[f]]]
      BY <1>3
    <3>2. ASSUME NEW e \in C
          PROVE  k[e] = IF e \in Base THEN base[e] ELSE step[e][k[par[e]]]
      <4>1. k[e] = h[e]
        BY <1>3
      <4>2. e \notin Base => k[par[e]] = h[par[e]]
        <5>1. e \notin Base => par[e] \in C
          BY <1>3 DEF Upward
        <5> QED BY <5>1, <1>3
      <4>3. h[e] = IF e \in Base THEN base[e] ELSE step[e][h[par[e]]]
        BY <1>3 DEF Follows
      <4> HIDE DEF k
      <4> QED BY <4>1, <4>2, <4>3
    <3>3. f \notin Base
      OBVIOUS
    <3> HIDE DEF k
    <3> QED BY <3>1, <3>2, <3>3 DEF Follows
  <2> HIDE DEF k
  <2>4. Partial(E, k)
    BY <2>1, <2>2, <2>3
  <2> QED BY <2>4
<1> HIDE DEF Partial
<1>4. U = D
  <2> DEFINE S == D \ U
  <2>1. SUFFICES ASSUME S # {} PROVE FALSE
    OBVIOUS
  <2>2. S \in SUBSET (D \ Base)
    BY <1>2
  <2>3. PICK f \in S : par[f] \notin S
    BY <2>1, <2>2
  <2>4. f \in D \ Base /\ par[f] \in D
    BY <2>2, <2>3
  <2>5. PICK C \in Good : par[f] \in C
    BY <2>3, <2>4
  <2>6. PICK h : Partial(C, h)
    BY <2>5
  <2>7. f \notin C
    BY <2>3, <2>5
  <2>8. \E k : Partial(C \cup {f}, k)
    BY <2>4, <2>5, <2>6, <2>7, <1>3
  <2>9. C \cup {f} \in Good
    BY <2>4, <2>5, <2>8
  <2> HIDE DEF Good
  <2>10. f \in U
    BY <2>9
  <2> QED BY <2>3, <2>10
<1>5. \A f \in D : \E v \in V : \E C \in Good : \E h : Partial(C, h) /\ f \in C /\ v = h[f]
  <2> TAKE f \in D
  <2>1. PICK C \in Good : f \in C
    BY <1>4
  <2>2. PICK h : Partial(C, h)
    BY <2>1
  <2>3. h[f] \in V
    BY <2>1, <2>2 DEF Partial
  <2> QED BY <2>1, <2>2, <2>3
<1> DEFINE g == [f \in D |-> CHOOSE v \in V : \E C \in Good : \E h : Partial(C, h) /\ f \in C /\ v = h[f]]
<1>6. g \in [D -> V]
  BY <1>5
<1>7. \A f \in D : \E C \in Good : \E h : Partial(C, h) /\ f \in C /\ g[f] = h[f]
  BY <1>5
<1> HIDE DEF g
<1>8. ASSUME NEW C, NEW h, Partial(C, h), NEW f \in C
      PROVE  g[f] = h[f]
  <2>1. f \in D
    BY <1>8 DEF Partial
  <2>2. PICK B, k : Partial(B, k) /\ f \in B /\ g[f] = k[f]
    BY <2>1, <1>7
  <2>21. /\ B \in SUBSET D /\ Upward(B, Base, par) /\ Follows(k, B, Base, base, par, step)
         /\ C \in SUBSET D /\ Upward(C, Base, par) /\ Follows(h, C, Base, base, par, step)
    BY <1>8, <2>2 DEF Partial
  <2>3. \A e \in B \cap C : k[e] = h[e]
    BY <2>21, TreeUnique
  <2> QED BY <2>2, <2>3
<1>9. Follows(g, D, Base, base, par, step)
  <2>1. ASSUME NEW f \in D
        PROVE  g[f] = IF f \in Base THEN base[f] ELSE step[f][g[par[f]]]
    <3>1. PICK C, h : Partial(C, h) /\ f \in C /\ g[f] = h[f]
      BY <1>7
    <3>2. h[f] = IF f \in Base THEN base[f] ELSE step[f][h[par[f]]]
      BY <3>1 DEF Partial, Follows
    <3>3. f \notin Base => par[f] \in C
      BY <3>1 DEF Partial, Upward
    <3>4. f \notin Base => g[par[f]] = h[par[f]]
      BY <3>1, <3>3, <1>8
    <3> QED BY <3>1, <3>2, <3>4
  <2> QED BY <2>1 DEF Follows
<1> QED BY <1>6, <1>9

-----------------------------------------------------------------------------
\* The recursive functions of the folder tree.

\* What exists has an entry, and is in a folder that exists or in the watched one.
LEMMA EntryFacts ==
    ASSUME NEW K, DriveOK(K), NEW x \in Ids, Exists(x)
    PROVE  /\ drive[x] \in Entries(K) /\ drive[x].parent \in Folders \cup {Root} /\ drive[x].name \in 1..named
           /\ drive[x].rev \in Nat /\ drive[x].parent \in Places /\ drive[x].parent \in There
           /\ drive[x].name \in K <=> x \in Folders
BY DEF DriveOK, Entries, Exists, Place, Places, There, Ids

\* A set of objects that exist has one whose parent is outside.
LEMMA GroundedAt ==
    ASSUME Grounded, NEW S, S # {}, \A x \in S : x \in Ids /\ Exists(x)
    PROVE  \E x \in S : drive[x].parent \notin S
BY DEF Grounded

AboveAs(x, g) == IF x = Root \/ drive[x].parent = Root THEN {} ELSE {drive[x].parent} \cup g[drive[x].parent]

\* Above is what its definition says.
LEMMA AboveIs ==
    ASSUME NEW K, DriveOK(K), Grounded
    PROVE  \A x \in There : Above[x] = AboveAs(x, Above)
<1> DEFINE V == SUBSET Ids
           Base == {x \in There : x = Root \/ drive[x].parent = Root}
           base == [x \in Base |-> {}]
           par == [x \in There \ Base |-> drive[x].parent]
           step == [x \in There \ Base |-> [v \in V |-> {drive[x].parent} \cup v]]
<1>1. \A x \in There \ Base : x \in Ids /\ Exists(x) /\ drive[x].parent \in There /\ drive[x].parent \in Folders
  BY EntryFacts DEF There
<1>2. Base \in SUBSET There /\ base \in [Base -> V]
  OBVIOUS
<1>3. par \in [There \ Base -> There]
  BY <1>1
<1>4. step \in [There \ Base -> [V -> V]]
  <2>1. \A x \in There \ Base : \A v \in V : {drive[x].parent} \cup v \in V
    BY <1>1 DEF Ids
  <2> HIDE DEF V
  <2> QED BY <2>1
<1>5. ASSUME NEW S \in SUBSET (There \ Base), S # {}
      PROVE  \E x \in S : par[x] \notin S
  <2>1. PICK x \in S : drive[x].parent \notin S
    BY <1>1, <1>5, GroundedAt
  <2> QED BY <2>1
<1> HIDE DEF V, Base, base, par, step
<1>6. PICK g \in [There -> V] : Follows(g, There, Base, base, par, step)
  BY <1>2, <1>3, <1>4, <1>5, TreeRecursion
<1>7. \A x \in There : g[x] = AboveAs(x, g)
  <2> TAKE x \in There
  <2>1. g[x] = IF x \in Base THEN base[x] ELSE step[x][g[par[x]]]
    BY <1>6 DEF Follows
  <2>2. CASE x \in Base
    BY <2>1, <2>2 DEF Base, base, AboveAs
  <2>3. CASE x \notin Base
    <3>1. par[x] = drive[x].parent /\ par[x] \in There /\ g[par[x]] \in V
      BY <2>3, <1>3, <1>6 DEF par
    <3>2. step[x][g[par[x]]] = {drive[x].parent} \cup g[par[x]]
      BY <2>3, <3>1 DEF step
    <3> QED BY <2>1, <2>3, <3>1, <3>2 DEF Base, AboveAs
  <2> QED BY <2>2, <2>3
<1>8. g = [x \in There |-> AboveAs(x, g)]
  BY <1>6, <1>7
<1>9. Above = [x \in There |-> AboveAs(x, Above)]
  BY <1>8 DEF Above, AboveAs
<1> QED BY <1>9

\* What something is in exists, and what that is in is above too.
LEMMA AboveUp ==
    ASSUME NEW K, DriveOK(K), Grounded, NEW x \in There
    PROVE  \A y \in Above[x] : /\ y \in Folders /\ Exists(y)
                               /\ drive[y].parent = Root \/ drive[y].parent \in Above[x]
<1> DEFINE Ok(z) == \A y \in Above[z] : /\ y \in Folders /\ Exists(y)
                                        /\ drive[y].parent = Root \/ drive[y].parent \in Above[z]
           S == {z \in There : ~Ok(z)}
<1>1. SUFFICES ASSUME S # {} PROVE FALSE
  OBVIOUS
<1>2. \A z \in There : Above[z] = AboveAs(z, Above)
  BY AboveIs
<1>3. \A z \in S : z # Root /\ drive[z].parent # Root
  BY <1>2 DEF AboveAs
<1>4. \A z \in S : z \in Ids /\ Exists(z)
  BY <1>3 DEF There
<1>5. PICK z \in S : drive[z].parent \notin S
  <2> HIDE DEF S
  <2> QED BY <1>1, <1>4, GroundedAt
<1> DEFINE p == drive[z].parent
<1>6. p \in There /\ p \in Folders /\ Exists(p)
  BY <1>3, <1>4, <1>5, EntryFacts DEF There, Place, Places
<1>7. Ok(p)
  BY <1>5, <1>6
<1>8. Above[z] = {p} \cup Above[p]
  BY <1>2, <1>3, <1>5 DEF AboveAs
<1>9. drive[p].parent = Root \/ drive[p].parent \in Above[p]
  BY <1>2, <1>6 DEF AboveAs
<1> HIDE DEF p
<1>10. Ok(z)
  BY <1>6, <1>7, <1>8, <1>9
<1> QED BY <1>5, <1>10

PrefixAs(f, g) == IF cache[f] # Nothing THEN cache[f] ELSE Append(g[drive[f].parent], drive[f].name)
WalkedAs(f, g) == IF cache[f] # Nothing THEN {} ELSE {f} \cup g[drive[f].parent]

\* The cached paths are paths of directories.
LEMMA CacheFacts ==
    ASSUME NEW K, FeedOK(K), NEW f \in Folders \cup {Root}, cache[f] # Nothing
    PROVE  cache[f] \in Seq(K) /\ cache[f] \in Seq(1..named) /\ (f # Root => cache[f] \in Paths(f, K))
<1>1. CASE f = Root
  BY <1>1 DEF FeedOK, Top
<1>2. CASE f # Root
  <2>1. cache[f] \in Paths(f, K) /\ f \in Folders
    BY <1>2 DEF FeedOK
  <2>2. cache[f] \in Seq(1..named) /\ \A i \in 1..Len(cache[f]) : cache[f][i] \in K
    BY <2>1 DEF Paths
  <2> QED BY <2>1, <2>2
<1> QED BY <1>1, <1>2

\* What is no folder in the cache is a folder on Drive, in another place.
LEMMA UncachedFacts ==
    ASSUME NEW K, DriveOK(K), FeedOK(K), NEW f \in Places, cache[f] = Nothing, Nothing # Top
    PROVE  /\ f \in Folders /\ f \in Ids /\ Exists(f) /\ drive[f].parent \in Places
           /\ drive[f].name \in K /\ drive[f].name \in 1..named
<1>1. f # Root
  BY DEF FeedOK
<1>2. f \in Folders /\ f \in Ids /\ Exists(f)
  BY <1>1 DEF Places, Place, Ids
<1> QED BY <1>2, EntryFacts

\* "No entry" is no path.
LEMMA NothingIsNoPath == Nothing # Top
<1>1. <<>> \in Seq(1..MaxChanges)
  OBVIOUS
<1> QED BY <1>1, FolderSyncAssumption DEF Top

\* Prefix and Walked are what their definitions say.
LEMMA PrefixIs ==
    ASSUME NEW K, DriveOK(K), FeedOK(K), Grounded
    PROVE  /\ \A f \in Places : Prefix[f] = PrefixAs(f, Prefix)
           /\ \A f \in Places : Walked[f] = WalkedAs(f, Walked)
<1> DEFINE V == Seq(1..named)
           W == SUBSET Folders
           Base == {f \in Places : cache[f] # Nothing}
           base == [f \in Base |-> cache[f]]
           empty == [f \in Base |-> {}]
           par == [f \in Places \ Base |-> drive[f].parent]
           step == [f \in Places \ Base |-> [v \in V |-> Append(v, drive[f].name)]]
           walk == [f \in Places \ Base |-> [v \in W |-> {f} \cup v]]
<1>1. \A f \in Places \ Base : /\ f \in Folders /\ f \in Ids /\ Exists(f) /\ drive[f].parent \in Places
                               /\ drive[f].name \in 1..named
  BY UncachedFacts, NothingIsNoPath
<1>2. Base \in SUBSET Places /\ base \in [Base -> V] /\ empty \in [Base -> W]
  BY CacheFacts DEF Places
<1>3. par \in [Places \ Base -> Places]
  BY <1>1
<1>4. step \in [Places \ Base -> [V -> V]]
  <2>1. \A f \in Places \ Base : \A v \in V : Append(v, drive[f].name) \in V
    BY <1>1
  <2> HIDE DEF V
  <2> QED BY <2>1
<1>5. walk \in [Places \ Base -> [W -> W]]
  <2>1. \A f \in Places \ Base : \A v \in W : {f} \cup v \in W
    BY <1>1
  <2> HIDE DEF W
  <2> QED BY <2>1
<1>6. ASSUME NEW S \in SUBSET (Places \ Base), S # {}
      PROVE  \E f \in S : par[f] \notin S
  <2>1. PICK f \in S : drive[f].parent \notin S
    BY <1>1, <1>6, GroundedAt
  <2> QED BY <2>1
<1> HIDE DEF V, W, Base, base, empty, par, step, walk
<1>7. PICK g \in [Places -> V] : Follows(g, Places, Base, base, par, step)
  BY <1>2, <1>3, <1>4, <1>6, TreeRecursion
<1>8. PICK h \in [Places -> W] : Follows(h, Places, Base, empty, par, walk)
  BY <1>2, <1>3, <1>5, <1>6, TreeRecursion
<1>9. \A f \in Places : g[f] = PrefixAs(f, g)
  <2> TAKE f \in Places
  <2>1. g[f] = IF f \in Base THEN base[f] ELSE step[f][g[par[f]]]
    BY <1>7 DEF Follows
  <2>2. CASE f \in Base
    BY <2>1, <2>2 DEF Base, base, PrefixAs
  <2>3. CASE f \notin Base
    <3>1. par[f] = drive[f].parent /\ par[f] \in Places /\ g[par[f]] \in V
      BY <2>3, <1>3, <1>7 DEF par
    <3>2. step[f][g[par[f]]] = Append(g[par[f]], drive[f].name)
      BY <2>3, <3>1 DEF step
    <3> QED BY <2>1, <2>3, <3>1, <3>2 DEF Base, PrefixAs
  <2> QED BY <2>2, <2>3
<1>10. \A f \in Places : h[f] = WalkedAs(f, h)
  <2> TAKE f \in Places
  <2>1. h[f] = IF f \in Base THEN empty[f] ELSE walk[f][h[par[f]]]
    BY <1>8 DEF Follows
  <2>2. CASE f \in Base
    BY <2>1, <2>2 DEF Base, empty, WalkedAs
  <2>3. CASE f \notin Base
    <3>1. par[f] = drive[f].parent /\ par[f] \in Places /\ h[par[f]] \in W
      BY <2>3, <1>3, <1>8 DEF par
    <3>2. walk[f][h[par[f]]] = {f} \cup h[par[f]]
      BY <2>3, <3>1 DEF walk
    <3> QED BY <2>1, <2>3, <3>1, <3>2 DEF Base, WalkedAs
  <2> QED BY <2>2, <2>3
<1>11. g = [f \in Places |-> PrefixAs(f, g)] /\ h = [f \in Places |-> WalkedAs(f, h)]
  BY <1>7, <1>8, <1>9, <1>10
<1>12. Prefix = [f \in Places |-> PrefixAs(f, Prefix)]
  BY <1>11 DEF Prefix, PrefixAs
<1>13. Walked = [f \in Places |-> WalkedAs(f, Walked)]
  BY <1>11 DEF Walked, WalkedAs
<1> QED BY <1>12, <1>13

\* The path of a directory and a name make a path of the name's own kind.
LEMMA ChildPath ==
    ASSUME NEW K \in SUBSET (1..named), NEW d \in Seq(K), NEW n \in 1..named, NEW x, n \in K <=> x \in Folders
    PROVE  Append(d, n) \in Paths(x, K) /\ (n \in K => Append(d, n) \in Seq(K)) /\ Front(Append(d, n)) = d
<1> DEFINE p == Append(d, n)
<1>1. d \in Seq(1..named) /\ Len(d) \in Nat /\ \A i \in 1..Len(d) : d[i] \in K
  BY WiderSeq
<1>2. /\ p \in Seq(1..named) /\ Len(p) = Len(d) + 1 /\ p # Top
      /\ \A i \in 1..Len(d) : p[i] = d[i]
      /\ p[Len(d) + 1] = n /\ Front(p) = d
  <2> \A e \in Seq(1..named) : \A m \in 1..named :
        /\ Append(e, m) \in Seq(1..named) /\ Len(Append(e, m)) = Len(e) + 1 /\ Append(e, m) # Top
        /\ \A i \in 1..Len(e) : Append(e, m)[i] = e[i]
        /\ Append(e, m)[Len(e) + 1] = m /\ Front(Append(e, m)) = e
    BY AppendFacts
  <2> QED BY <1>1
<1>3. n \in K => p \in Seq(K)
  BY AppendFacts
<1> HIDE DEF p
<1>4. p \in Paths(x, K)
  <2>1. \A i \in 1..Len(p) : i < Len(p) => i \in 1..Len(d)
    BY <1>1, <1>2
  <2> QED BY <2>1, <1>1, <1>2 DEF Paths
<1> QED BY <1>2, <1>3, <1>4 DEF p

\* A folder resolves to the path of a directory.
LEMMA PrefixOK ==
    ASSUME NEW K \in SUBSET (1..named), DriveOK(K), FeedOK(K), Grounded
    PROVE  \A f \in Places : Prefix[f] \in Seq(K) /\ (f # Root => Prefix[f] \in Paths(f, K))
<1> DEFINE Ok(f) == Prefix[f] \in Seq(K) /\ (f # Root => Prefix[f] \in Paths(f, K))
           S == {f \in Places : ~Ok(f)}
<1>1. SUFFICES ASSUME S # {} PROVE FALSE
  OBVIOUS
<1>2. \A f \in Places : Prefix[f] = PrefixAs(f, Prefix)
  BY PrefixIs
<1>3. \A f \in S : f \in Places /\ cache[f] = Nothing
  <2>1. ASSUME NEW f \in Places, cache[f] # Nothing
        PROVE  Ok(f)
    <3>1. Prefix[f] = cache[f]
      BY <1>2, <2>1 DEF PrefixAs
    <3>2. f \in Folders \cup {Root}
      BY DEF Places
    <3> QED BY <2>1, <3>1, <3>2, CacheFacts
  <2> QED BY <2>1
<1>4. \A f \in S : f \in Ids /\ Exists(f)
  BY <1>3, UncachedFacts, NothingIsNoPath
<1>5. PICK f \in S : drive[f].parent \notin S
  <2> HIDE DEF S
  <2> QED BY <1>1, <1>4, GroundedAt
<1>6. f \in Folders /\ drive[f].parent \in Places /\ drive[f].name \in K /\ drive[f].name \in 1..named
  BY <1>3, <1>5, UncachedFacts, NothingIsNoPath
<1>7. Prefix[drive[f].parent] \in Seq(K)
  BY <1>5, <1>6
<1>8. Prefix[f] = Append(Prefix[drive[f].parent], drive[f].name)
  BY <1>2, <1>3, <1>5 DEF PrefixAs
<1>9. Prefix[f] \in Paths(f, K) /\ Prefix[f] \in Seq(K)
  BY <1>6, <1>7, <1>8, ChildPath
<1> QED BY <1>5, <1>9

\* The folders walked are on Drive.
LEMMA WalkedOK ==
    ASSUME NEW K \in SUBSET (1..named), DriveOK(K), FeedOK(K), Grounded
    PROVE  \A f \in Places : Walked[f] \subseteq {d \in Folders : Exists(d)}
<1> DEFINE Ok(f) == Walked[f] \subseteq {d \in Folders : Exists(d)}
           S == {f \in Places : ~Ok(f)}
<1>1. SUFFICES ASSUME S # {} PROVE FALSE
  OBVIOUS
<1>2. \A f \in Places : Walked[f] = WalkedAs(f, Walked)
  BY PrefixIs
<1>3. \A f \in S : f \in Places /\ cache[f] = Nothing
  BY <1>2 DEF WalkedAs
<1>4. \A f \in S : f \in Ids /\ Exists(f)
  BY <1>3, UncachedFacts, NothingIsNoPath
<1>5. PICK f \in S : drive[f].parent \notin S
  <2> HIDE DEF S
  <2> QED BY <1>1, <1>4, GroundedAt
<1>6. f \in Folders /\ Exists(f) /\ drive[f].parent \in Places
  BY <1>3, <1>5, UncachedFacts, NothingIsNoPath
<1>7. Ok(drive[f].parent)
  BY <1>5, <1>6
<1>8. Walked[f] = {f} \cup Walked[drive[f].parent]
  BY <1>2, <1>3, <1>5 DEF WalkedAs
<1> QED BY <1>5, <1>6, <1>7, <1>8

\* A change resolves to a path its object can have, in a directory.
LEMMA ResolvedOK ==
    ASSUME NEW K \in SUBSET (1..named), DriveOK(K), FeedOK(K), Grounded, NEW s \in delta
    PROVE  /\ Resolved(s) \in Paths(s.id, K) /\ Front(Resolved(s)) = Prefix[s.parent]
           /\ s.parent \in Places /\ (s.parent # Root => Prefix[s.parent] \in Paths(s.parent, K))
<1>1. s.parent \in Places /\ s.name \in 1..named /\ (s.name \in K <=> s.id \in Folders)
  BY DEF FeedOK, Place, Places
<1>2. Prefix[s.parent] \in Seq(K) /\ (s.parent # Root => Prefix[s.parent] \in Paths(s.parent, K))
  BY <1>1, PrefixOK
<1> QED BY <1>1, <1>2, ChildPath DEF Resolved

-----------------------------------------------------------------------------
\* What the users do.

\* L names what K names and the new name, if that is a folder's.
Names(K, L) == /\ named \in Nat /\ named' = named + 1 /\ K \subseteq 1..named /\ L \subseteq 1..named + 1
               /\ \A n \in 1..named : n \in K <=> n \in L

\* The paths there were are paths still.
LEMMA PathsStay ==
    ASSUME NEW K, NEW L, Names(K, L)
    PROVE  /\ \A p \in Seq(1..named) : p \in Seq((1..named)') /\ (p \in Seq(K) <=> p \in Seq(L))
           /\ \A x : \A p \in Paths(x, K) : p \in Paths(x, L)'
<1>0. 1..named \subseteq (1..named)' /\ (1..named)' = 1..named + 1
  BY DEF Names
<1>1. ASSUME NEW p \in Seq(1..named)
      PROVE  p \in Seq((1..named)') /\ (p \in Seq(K) <=> p \in Seq(L))
  <2>1. Len(p) \in Nat /\ \A i \in 1..Len(p) : p[i] \in 1..named
    BY WiderSeq
  <2>2. \A M : p \in Seq(M) <=> \A i \in 1..Len(p) : p[i] \in M
    <3>1. \A M : p \in Seq(M) => \A i \in 1..Len(p) : p[i] \in M
      OBVIOUS
    <3>2. p = [i \in 1..Len(p) |-> p[i]]
      OBVIOUS
    <3>3. ASSUME NEW M, \A i \in 1..Len(p) : p[i] \in M
          PROVE  p \in Seq(M)
      <4>1. p \in [1..Len(p) -> M]
        BY <3>2, <3>3
      <4> QED BY <4>1, <2>1
    <3> QED BY <3>1, <3>3
  <2>3. \A i \in 1..Len(p) : (p[i] \in K <=> p[i] \in L) /\ p[i] \in (1..named)'
    BY <2>1, <1>0 DEF Names
  <2> QED BY <2>2, <2>3
<1>2. ASSUME NEW x, NEW p \in Paths(x, K)
      PROVE  p \in Paths(x, L)'
  <2>1. /\ p \in Seq(1..named) /\ p # Top
        /\ \A i \in 1..Len(p) : i < Len(p) => p[i] \in K
        /\ p[Len(p)] \in K <=> x \in Folders
    BY DEF Paths
  <2>2. Len(p) \in Nat /\ Len(p) # 0 /\ \A i \in 1..Len(p) : p[i] \in 1..named
    BY <2>1, WiderSeq, FrontFacts
  <2>3. \A i \in 1..Len(p) : p[i] \in K <=> p[i] \in L
    BY <2>2 DEF Names
  <2>4. Len(p) \in 1..Len(p)
    BY <2>2
  <2>5. /\ p \in Seq((1..named)') /\ p # Top'
        /\ \A i \in 1..Len(p) : i < Len(p) => p[i] \in L
        /\ p[Len(p)] \in L <=> x \in Folders
    BY <2>1, <2>3, <2>4, <1>1 DEF Top
  <2> QED BY <2>5 DEF Paths, Top
<1> QED BY <1>1, <1>2

\* A folder put into one that is not in it leaves the tree a tree.
LEMMA TreeStays ==
    ASSUME NEW K, DriveOK(K), Grounded, NEW x \in Ids, NEW entry, entry # Nothing,
           drive' = [drive EXCEPT ![x] = entry],
           entry.parent \in There, entry.parent # x, x \notin Above[entry.parent]
    PROVE  Grounded'
<1> DEFINE in == entry.parent
<1>0. Root \notin Ids
  BY FolderSyncAssumption
<1>1. \A y \in Ids : drive'[y] = IF y = x THEN entry ELSE drive[y]
  BY DEF DriveOK
<1>2. SUFFICES ASSUME NEW S \in SUBSET {y \in Ids : drive'[y] # Nothing}, S # {}
               PROVE  \E y \in S : drive'[y].parent \notin S
  BY DEF Grounded, Exists
<1>3. CASE x \notin S
  <2>1. \A y \in S : y \in Ids /\ Exists(y) /\ drive'[y] = drive[y]
    BY <1>1, <1>3 DEF Exists
  <2>2. PICK y \in S : drive[y].parent \notin S
    BY <1>2, <2>1, GroundedAt
  <2> QED BY <2>1, <2>2
<1>4. CASE x \in S
  <2>1. SUFFICES ASSUME \A y \in S : drive'[y].parent \in S PROVE FALSE
    OBVIOUS
  <2>2. in \in S /\ in \in Ids /\ in # Root
    BY <1>0, <1>1, <1>4, <2>1
  <2> DEFINE T == {y \in S : y = in \/ y \in Above[in]}
  <2>3. \A y \in T : y \in Ids /\ Exists(y) /\ drive'[y] = drive[y]
    BY <1>1 DEF Exists
  <2>4. in \in T
    BY <2>2
  <2>5. PICK y \in T : drive[y].parent \notin T
    <3> HIDE DEF T
    <3> QED BY <2>3, <2>4, GroundedAt
  <2>6. drive[y].parent \in S /\ drive[y].parent # Root
    BY <1>0, <2>1, <2>3, <2>5
  <2>7. CASE y = in
    <3>1. Above[in] = AboveAs(in, Above)
      BY AboveIs
    <3> QED BY <3>1, <2>2, <2>5, <2>6, <2>7 DEF AboveAs
  <2>8. CASE y \in Above[in]
    <3>1. drive[y].parent \in Above[in]
      BY <2>6, <2>8, AboveUp
    <3> QED BY <3>1, <2>5, <2>6
  <2> QED BY <2>5, <2>7, <2>8
<1> QED BY <1>3, <1>4

\* A new revision moves nothing.
LEMMA TreeSame ==
    ASSUME NEW K, DriveOK(K), Grounded, NEW x \in Ids, NEW entry, entry # Nothing, Exists(x),
           drive' = [drive EXCEPT ![x] = entry], entry.parent = drive[x].parent
    PROVE  Grounded'
<1>1. \A y \in Ids : drive'[y].parent = drive[y].parent /\ (drive'[y] # Nothing <=> Exists(y))
  BY DEF DriveOK, Exists
<1>2. SUFFICES ASSUME NEW S \in SUBSET {y \in Ids : drive'[y] # Nothing}, S # {}
               PROVE  \E y \in S : drive'[y].parent \notin S
  BY DEF Grounded, Exists
<1>3. \A y \in S : y \in Ids /\ Exists(y)
  BY <1>1
<1>4. PICK y \in S : drive[y].parent \notin S
  BY <1>2, <1>3, GroundedAt
<1> QED BY <1>1, <1>4

\* Whatever a user changes, the name given is new and nothing else moves.
LEMMA ChangeKeeps ==
    ASSUME NEW K \in SUBSET (1..named), Named(K), named \in 0..MaxChanges,
           NEW x \in Ids, NEW entry \in [parent : Folders \cup {Root}, name : 1..named + 1, rev : Nat],
           NEW reported,
           Change(x, entry, reported), Place(entry.parent),
           \A y \in reported : y \in Ids /\ (y = x \/ Exists(y)),
           entry.name = named + 1 \/ (Exists(x) /\ entry.name = drive[x].name)
    PROVE  /\ named' \in 0..MaxChanges /\ faults' = faults /\ entry # Nothing
           /\ drive' = [drive EXCEPT ![x] = entry]
           /\ \E L \in SUBSET (1..named)' : Named(L)'
<1>0. /\ named' = named + 1 /\ named \in Nat /\ named < MaxChanges /\ MaxChanges \in Nat
      /\ drive' = [drive EXCEPT ![x] = entry] /\ changed' = changed \cup reported
      /\ delta' = delta /\ cache' = cache /\ lost' = lost /\ masked' = masked
      /\ rows' = rows /\ ops' = ops /\ disk' = disk /\ waiting' = waiting /\ faults' = faults
  BY FolderSyncAssumption DEF Change, local
<1>1. DriveOK(K) /\ FeedOK(K) /\ RowsOK(K) /\ JobsOK(K) /\ DiskOK(K)
  BY DEF Named
<1>2. entry # Nothing
  <2>1. entry \in [parent : Folders \cup {Root}, name : Nat, rev : Nat]
    BY <1>0
  <2> QED BY <2>1, FolderSyncAssumption
<1>3. PICK L \in SUBSET (1..named + 1) : Names(K, L) /\ (entry.name \in L <=> x \in Folders)
  <2>1. Exists(x) => drive[x].name \in 1..named /\ (drive[x].name \in K <=> x \in Folders)
    BY <1>1, EntryFacts
  <2>2. named + 1 \notin K
    BY <1>0
  <2> DEFINE M == IF entry.name = named + 1 /\ x \in Folders THEN K \cup {named + 1} ELSE K
  <2>3. M \in SUBSET (1..named + 1) /\ Names(K, M)
    BY <1>0 DEF Names
  <2>4. entry.name \in M <=> x \in Folders
    BY <2>1, <2>2, <1>0
  <2> HIDE DEF M
  <2> QED BY <2>3, <2>4
<1>5. /\ \A p \in Seq(1..named) : p \in Seq((1..named)') /\ (p \in Seq(K) <=> p \in Seq(L))
      /\ \A y : \A p \in Paths(y, K) : p \in Paths(y, L)'
  BY <1>3, PathsStay
<1>6. 1..named \subseteq (1..named)' /\ (1..named)' = 1..named + 1
  BY <1>0
<1>7. \A y \in Ids : drive'[y] = IF y = x THEN entry ELSE drive[y]
  BY <1>0, <1>1 DEF DriveOK
<1>8. \A y : /\ y \in Ids /\ Exists(y) => drive'[y] # Nothing
             /\ Place(y) => y = Root \/ (y \in Folders /\ drive'[y] # Nothing)
  BY <1>2, <1>7 DEF Exists, Place, Ids
<1>9. DriveOK(L)'
  <2>1. ASSUME NEW y \in Ids
        PROVE  /\ drive'[y] \in Entries(L)' \cup {Nothing}
               /\ drive'[y] # Nothing =>
                    /\ \/ drive'[y].parent = Root
                       \/ drive'[y].parent \in Folders /\ drive'[drive'[y].parent] # Nothing
                    /\ drive'[y].name \in L <=> y \in Folders
    <3>1. CASE y = x
      <4>1. drive'[y] = entry
        BY <3>1, <1>7
      <4>2. entry \in Entries(L)'
        BY <1>6 DEF Entries
      <4> QED BY <3>1, <4>1, <4>2, <1>3, <1>8
    <3>2. CASE y # x /\ Exists(y)
      <4>1. drive'[y] = drive[y]
        BY <3>2, <1>7
      <4>2. /\ drive[y] \in Entries(K) /\ drive[y].parent \in Places
            /\ drive[y].name \in 1..named /\ (drive[y].name \in K <=> y \in Folders)
        BY <3>2, <1>1, EntryFacts
      <4>3. drive[y] \in Entries(L)'
        BY <4>2, <1>6 DEF Entries
      <4>4. Place(drive[y].parent) /\ (drive[y].name \in K <=> drive[y].name \in L)
        BY <4>2, <1>3 DEF Places, Names
      <4> QED BY <4>1, <4>2, <4>3, <4>4, <1>8
    <3>3. CASE y # x /\ ~Exists(y)
      BY <3>3, <1>7 DEF Exists
    <3> QED BY <3>1, <3>2, <3>3
  <2>2. drive' \in [Ids -> Entries(L)' \cup {Nothing}]
    <3>1. DOMAIN drive' = Ids /\ drive' = [y \in Ids |-> drive'[y]]
      BY <1>0, <1>1 DEF DriveOK
    <3> QED BY <3>1, <2>1
  <2> QED BY <2>1, <2>2 DEF DriveOK, Exists, Place
<1>10. FeedOK(L)'
  <2>1. changed' \subseteq {y \in Ids : drive'[y] # Nothing}
    BY <1>0, <1>1, <1>2, <1>7, <1>8 DEF FeedOK
  <2>2. delta \subseteq [id : Ids, parent : Folders \cup {Root}, name : (1..named)', rev : Nat]
    BY <1>1, <1>6 DEF FeedOK
  <2>3. ASSUME NEW s \in delta
        PROVE  /\ drive'[s.id] # Nothing
               /\ s.parent = Root \/ (s.parent \in Folders /\ drive'[s.parent] # Nothing)
               /\ s.name \in L <=> s.id \in Folders
    <3>1. /\ s.id \in Ids /\ Exists(s.id) /\ Place(s.parent)
          /\ s.name \in 1..named /\ (s.name \in K <=> s.id \in Folders)
      BY <1>1 DEF FeedOK
    <3> QED BY <3>1, <1>3, <1>8 DEF Names
  <2>4. \A f \in Folders : cache[f] # Nothing => cache[f] \in Paths(f, L)'
    BY <1>1, <1>5 DEF FeedOK
  <2>5. DOMAIN cache = Folders \cup {Root} /\ cache[Root] = Top /\ lost \subseteq Ids
    BY <1>1 DEF FeedOK
  <2> QED BY <2>1, <2>2, <2>3, <2>4, <2>5, <1>0 DEF FeedOK, Exists, Place, Top
<1>11. RowsOK(L)'
  <2>1. rows \in [Ids -> [path : Seq((1..named)'), rev : Nat] \cup {Nothing}]
    BY <1>1, <1>5 DEF RowsOK
  <2>2. \A y \in Ids : rows[y] # Nothing => drive'[y] # Nothing /\ rows[y].path \in Paths(y, L)'
    BY <1>1, <1>5, <1>8 DEF RowsOK
  <2>3. \A y, z \in Ids : rows[y] # Nothing /\ rows[z] # Nothing /\ rows[y].path = rows[z].path => y = z
    BY <1>1 DEF RowsOK
  <2> QED BY <2>1, <2>2, <2>3, <1>0 DEF RowsOK, Exists
<1>12. JobsOK(L)'
  <2>0. Jobs \subseteq Jobs'
    BY <1>5 DEF Jobs
  <2>1. ops \in Seq(Jobs') /\ waiting \subseteq Jobs'
    BY <2>0, <1>1, WiderSeq DEF JobsOK
  <2>2. ASSUME NEW job \in ToSet(ops) \cup waiting
        PROVE  JobOK(job, L)'
    <3>1. JobOK(job, K)
      BY <1>1 DEF JobsOK
    <3> QED BY <3>1, <1>0, <1>5 DEF JobOK
  <2> QED BY <2>1, <2>2, <1>0 DEF JobsOK
<1>13. DiskOK(L)'
  <2>1. ASSUME NEW p \in DOMAIN disk
        PROVE  /\ p \in Seq((1..named)')
               /\ p # Top => Front(p) \in DOMAIN disk /\ Front(p) \in Seq(L)
               /\ p \in Seq(L) => disk[p] = "dir"
    <3>1. /\ p \in Seq(1..named)
          /\ p # Top => Front(p) \in DOMAIN disk /\ Front(p) \in Seq(K) /\ Front(p) \in Seq(1..named)
          /\ p \in Seq(K) => disk[p] = "dir"
      BY <1>1 DEF DiskOK, Solid
    <3> QED BY <3>1, <1>5
  <2>2. Top \in DOMAIN disk
    BY <1>1 DEF DiskOK, Solid
  <2> QED BY <2>1, <2>2, <1>0 DEF DiskOK, Solid, Top
<1>14. L \in SUBSET (1..named)' /\ Named(L)'
  BY <1>3, <1>6, <1>9, <1>10, <1>11, <1>12, <1>13 DEF Named
<1> QED BY <1>0, <1>2, <1>14

\* A new object.
LEMMA CreateKeeps ==
    ASSUME IInv, NEW x \in Ids, NEW in \in Folders \cup {Root}, Create(x, in)
    PROVE  IInv'
<1> DEFINE entry == [parent |-> in, name |-> named + 1, rev |-> 1]
<1>1. PICK K \in SUBSET (1..named) : Named(K)
  BY DEF IInv
<1>2. /\ named \in 0..MaxChanges /\ faults \in 0..MaxFaults /\ Grounded /\ DriveOK(K)
      /\ ~Exists(x) /\ Place(in) /\ Change(x, entry, {x})
  BY <1>1 DEF IInv, Create, Named
<1>3. /\ entry \in [parent : Folders \cup {Root}, name : 1..named + 1, rev : Nat]
      /\ entry.name = named + 1 /\ entry.parent = in
  BY <1>2
<1> HIDE DEF entry
<1>4. /\ named' \in 0..MaxChanges /\ faults' = faults /\ entry # Nothing
      /\ drive' = [drive EXCEPT ![x] = entry]
      /\ \E L \in SUBSET (1..named)' : Named(L)'
  BY <1>1, <1>2, <1>3, ChangeKeeps
<1>5. in \in There /\ in # x
  BY <1>2, FolderSyncAssumption DEF There, Place, Ids
<1>6. x \notin Above[in]
  BY <1>2, <1>5, AboveUp
<1>7. Grounded'
  BY <1>2, <1>3, <1>4, <1>5, <1>6, TreeStays
<1> QED BY <1>2, <1>4, <1>7 DEF IInv

\* A file edited.
LEMMA TouchKeeps ==
    ASSUME IInv, NEW x \in Files, Touch(x)
    PROVE  IInv'
<1> DEFINE entry == [drive[x] EXCEPT !.rev = @ + 1]
<1>1. PICK K \in SUBSET (1..named) : Named(K)
  BY DEF IInv
<1>2. /\ named \in 0..MaxChanges /\ faults \in 0..MaxFaults /\ Grounded /\ DriveOK(K)
      /\ Exists(x) /\ x \in Ids /\ Change(x, entry, {x})
  BY <1>1 DEF IInv, Touch, Named, Ids
<1>3. /\ drive[x] \in Entries(K) /\ drive[x].name \in 1..named /\ drive[x].parent \in Places
  BY <1>2, EntryFacts
<1>4. /\ entry \in [parent : Folders \cup {Root}, name : 1..named + 1, rev : Nat]
      /\ entry.name = drive[x].name /\ entry.parent = drive[x].parent /\ Place(entry.parent)
  BY <1>2, <1>3 DEF Entries, Places
<1> HIDE DEF entry
<1>5. /\ named' \in 0..MaxChanges /\ faults' = faults /\ entry # Nothing
      /\ drive' = [drive EXCEPT ![x] = entry]
      /\ \E L \in SUBSET (1..named)' : Named(L)'
  BY <1>1, <1>2, <1>4, ChangeKeeps
<1>6. Grounded'
  BY <1>2, <1>4, <1>5, TreeSame
<1> QED BY <1>2, <1>5, <1>6 DEF IInv

\* A rename in place, or a move into a folder that is not in what moves.
LEMMA RelocateKeeps ==
    ASSUME IInv, NEW x \in Ids, NEW in \in Folders \cup {Root}, Relocate(x, in)
    PROVE  IInv'
<1> DEFINE entry == [drive[x] EXCEPT !.parent = in, !.name = IF in = drive[x].parent THEN named + 1 ELSE @]
<1>1. PICK K \in SUBSET (1..named) : Named(K)
  BY DEF IInv
<1>2. PICK reported \in SUBSET ({x} \cup Below(x)) : Change(x, entry, reported)
  BY DEF Relocate
<1>3. /\ named \in 0..MaxChanges /\ faults \in 0..MaxFaults /\ Grounded /\ DriveOK(K)
      /\ Exists(x) /\ Place(in) /\ in # x /\ (in # Root => x \notin Above[in])
  BY <1>1 DEF IInv, Relocate, Named
<1>4. \A y \in reported : y \in Ids /\ (y = x \/ Exists(y))
  BY DEF Below
<1>5. /\ drive[x] \in Entries(K) /\ drive[x].name \in 1..named
  BY <1>3, EntryFacts
<1>6. /\ entry \in [parent : Folders \cup {Root}, name : 1..named + 1, rev : Nat]
      /\ entry.name = named + 1 \/ entry.name = drive[x].name
      /\ entry.parent = in
  <2> DEFINE R == [parent : Folders \cup {Root}, name : 1..named + 1, rev : Nat]
             n == IF in = drive[x].parent THEN named + 1 ELSE drive[x].name
  <2>1. drive[x] \in R /\ n \in 1..named + 1 /\ (n = named + 1 \/ n = drive[x].name)
    BY <1>3, <1>5 DEF Entries
  <2>2. \A e \in R : [e EXCEPT !.parent = in, !.name = n] \in R
    BY <2>1
  <2>3. \A e \in R : /\ [e EXCEPT !.parent = in, !.name = n].name = n
                     /\ [e EXCEPT !.parent = in, !.name = n].parent = in
    OBVIOUS
  <2>4. entry = [drive[x] EXCEPT !.parent = in, !.name = n]
    OBVIOUS
  <2> HIDE DEF entry, n, R
  <2>5. entry \in R /\ entry.name = n /\ entry.parent = in
    BY <2>1, <2>2, <2>3, <2>4
  <2> QED BY <2>1, <2>5 DEF R
<1> HIDE DEF entry
<1>7. /\ named' \in 0..MaxChanges /\ faults' = faults /\ entry # Nothing
      /\ drive' = [drive EXCEPT ![x] = entry]
      /\ \E L \in SUBSET (1..named)' : Named(L)'
  BY <1>1, <1>2, <1>3, <1>4, <1>6, ChangeKeeps
<1>8. in \in There
  BY <1>3 DEF There, Place, Ids
<1>9. x \notin Above[in]
  <2>1. Above[in] = AboveAs(in, Above)
    BY <1>3, <1>8, AboveIs
  <2> QED BY <2>1, <1>3 DEF AboveAs
<1>10. Grounded'
  BY <1>3, <1>6, <1>7, <1>8, <1>9, TreeStays
<1> QED BY <1>3, <1>7, <1>10 DEF IInv

-----------------------------------------------------------------------------
\* What the poller does, and what comes and goes in the queue.

\* What a step leaves alone stays as it was.
LEMMA RemoteStays ==
    ASSUME NEW K \in SUBSET (1..named), DriveOK(K), Grounded, UNCHANGED remote
    PROVE  DriveOK(K)' /\ Grounded' /\ named' = named
<1>1. drive' = drive /\ named' = named
  BY DEF remote
<1> QED BY <1>1 DEF DriveOK, Grounded, Exists, Place, Entries

\* The feed, if no part of it moves.
LEMMA FeedStays ==
    ASSUME NEW K \in SUBSET (1..named), FeedOK(K), UNCHANGED remote, UNCHANGED feed
    PROVE  FeedOK(K)'
BY DEF FeedOK, Exists, Place, Paths, Top, remote, feed

\* The rows, if no row changes.
LEMMA RowsStay ==
    ASSUME NEW K \in SUBSET (1..named), RowsOK(K), UNCHANGED remote, rows' = rows
    PROVE  RowsOK(K)'
BY DEF RowsOK, Exists, Paths, Top, remote

\* The operations, if neither they nor the rows change.
LEMMA JobsStay ==
    ASSUME NEW K \in SUBSET (1..named), JobsOK(K), UNCHANGED remote,
           rows' = rows, ops' = ops, waiting' = waiting
    PROVE  JobsOK(K)'
BY DEF JobsOK, JobOK, Jobs, Paths, Top, remote

\* The local tree, if nothing on it changes.
LEMMA DiskStays ==
    ASSUME NEW K \in SUBSET (1..named), DiskOK(K), UNCHANGED remote, disk' = disk
    PROVE  DiskOK(K)'
BY DEF DiskOK, Solid, Top, remote

\* A step of the daemon has to keep the four parts that are its own.
LEMMA DaemonKeeps ==
    ASSUME IInv, UNCHANGED remote, faults' \in 0..MaxFaults,
           \A K \in SUBSET (1..named) : Named(K) => FeedOK(K)' /\ RowsOK(K)' /\ JobsOK(K)' /\ DiskOK(K)'
    PROVE  IInv'
<1>1. PICK K \in SUBSET (1..named) : Named(K)
  BY DEF IInv
<1>2. Grounded /\ DriveOK(K) /\ named \in 0..MaxChanges
  BY <1>1 DEF IInv, Named
<1>3. DriveOK(K)' /\ Grounded' /\ named' = named
  BY <1>2, RemoteStays
<1>4. FeedOK(K)' /\ RowsOK(K)' /\ JobsOK(K)' /\ DiskOK(K)'
  BY <1>1
<1>5. K \in SUBSET (1..named)' /\ Named(K)'
  BY <1>3, <1>4 DEF Named
<1> QED BY <1>2, <1>3, <1>5 DEF IInv

\* The entries as they are now.
LEMMA FetchKeeps ==
    ASSUME IInv, NEW ids \in SUBSET changed, Fetch(ids)
    PROVE  IInv'
<1>1. /\ UNCHANGED remote /\ faults' = faults
      /\ changed' = changed \ ids /\ cache' = cache /\ lost' = lost /\ rows' = rows /\ ops' = ops
      /\ disk' = disk /\ waiting' = waiting
      /\ delta' = {[id |-> x, parent |-> drive[x].parent,
                    name |-> drive[x].name, rev |-> drive[x].rev] : x \in ids}
  BY DEF Fetch, local
<1>2. ASSUME NEW K \in SUBSET (1..named), Named(K)
      PROVE  FeedOK(K)' /\ RowsOK(K)' /\ JobsOK(K)' /\ DiskOK(K)'
  <2>1. DriveOK(K) /\ FeedOK(K) /\ RowsOK(K) /\ JobsOK(K) /\ DiskOK(K)
    BY <1>2 DEF Named
  <2>2. drive' = drive /\ named' = named
    BY <1>1 DEF remote
  <2>3. \A x \in ids : x \in Ids /\ Exists(x)
    BY <2>1 DEF FeedOK
  <2>4. \A x \in ids : /\ drive[x].parent \in Folders \cup {Root} /\ drive[x].name \in 1..named
                       /\ drive[x].rev \in Nat /\ Place(drive[x].parent)
                       /\ drive[x].name \in K <=> x \in Folders
    BY <2>1, <2>3, EntryFacts DEF Places
  <2>5. delta' \subseteq [id : Ids, parent : Folders \cup {Root}, name : 1..named, rev : Nat]
    BY <1>1, <2>3, <2>4
  <2>6. \A s \in delta' : Exists(s.id) /\ Place(s.parent) /\ (s.name \in K <=> s.id \in Folders)
    BY <1>1, <2>3, <2>4
  <2>7. FeedOK(K)'
    BY <1>1, <2>1, <2>2, <2>5, <2>6 DEF FeedOK, Exists, Place, Paths, Top
  <2> QED BY <1>1, <2>1, <2>7, RowsStay, JobsStay, DiskStays
<1>3. faults' \in 0..MaxFaults
  BY <1>1 DEF IInv
<1> QED BY <1>1, <1>2, <1>3, DaemonKeeps

\* A look-up that fails drops its change.
LEMMA LookUpFailsKeeps ==
    ASSUME IInv, NEW s \in delta, LookUpFails(s)
    PROVE  IInv'
<1>1. /\ UNCHANGED remote /\ faults' = faults + 1 /\ faults < MaxFaults
      /\ changed' = changed /\ cache' = cache /\ lost' = lost \cup {s.id} /\ rows' = rows /\ ops' = ops
      /\ disk' = disk /\ waiting' = waiting /\ delta' = delta \ {s}
  BY DEF LookUpFails, local
<1>2. ASSUME NEW K \in SUBSET (1..named), Named(K)
      PROVE  FeedOK(K)' /\ RowsOK(K)' /\ JobsOK(K)' /\ DiskOK(K)'
  <2>1. FeedOK(K) /\ RowsOK(K) /\ JobsOK(K) /\ DiskOK(K)
    BY <1>2 DEF Named
  <2>2. drive' = drive /\ named' = named
    BY <1>1 DEF remote
  <2>3. s.id \in Ids
    BY <2>1 DEF FeedOK
  <2>4. FeedOK(K)'
    BY <1>1, <2>1, <2>2, <2>3 DEF FeedOK, Exists, Place, Paths, Top
  <2> QED BY <1>1, <2>1, <2>4, RowsStay, JobsStay, DiskStays
<1>3. faults' \in 0..MaxFaults
  BY <1>1, FolderSyncAssumption DEF IInv
<1> QED BY <1>1, <1>2, <1>3, DaemonKeeps

\* A restart forgets the cache and what was fetched, not that it changed.
LEMMA RestartKeeps ==
    ASSUME IInv, Restart
    PROVE  IInv'
<1>1. /\ UNCHANGED remote /\ faults' = faults + 1 /\ faults < MaxFaults
      /\ changed' = changed \cup {s.id : s \in delta} /\ lost' = lost /\ rows' = rows /\ ops' = ops
      /\ disk' = disk /\ waiting' = waiting /\ delta' = {}
      /\ cache' = [f \in Folders \cup {Root} |-> IF f = Root THEN Top ELSE Nothing]
  BY DEF Restart, local
<1>2. ASSUME NEW K \in SUBSET (1..named), Named(K)
      PROVE  FeedOK(K)' /\ RowsOK(K)' /\ JobsOK(K)' /\ DiskOK(K)'
  <2>1. FeedOK(K) /\ RowsOK(K) /\ JobsOK(K) /\ DiskOK(K)
    BY <1>2 DEF Named
  <2>2. drive' = drive /\ named' = named
    BY <1>1 DEF remote
  <2>3. changed' \subseteq {x \in Ids : Exists(x)}
    BY <1>1, <2>1 DEF FeedOK
  <2>4. Root \notin Folders
    BY FolderSyncAssumption DEF Ids
  <2>5. DOMAIN cache' = Folders \cup {Root} /\ cache'[Root] = Top /\ \A f \in Folders : cache'[f] = Nothing
    BY <1>1, <2>4
  <2>6. FeedOK(K)'
    BY <1>1, <2>1, <2>2, <2>3, <2>5 DEF FeedOK, Exists, Place, Top
  <2> QED BY <1>1, <2>1, <2>6, RowsStay, JobsStay, DiskStays
<1>3. faults' \in 0..MaxFaults
  BY <1>1, FolderSyncAssumption DEF IInv
<1> QED BY <1>1, <1>2, <1>3, DaemonKeeps

\* A failed operation leaves the queue and comes back.
LEMMA RetryKeeps ==
    ASSUME IInv, ExecuteFails \/ \E job \in waiting : DueAgain(job)
    PROVE  IInv'
<1>1. /\ UNCHANGED remote /\ UNCHANGED feed /\ rows' = rows /\ disk' = disk
  BY DEF ExecuteFails, DueAgain
<1>2. ASSUME NEW K \in SUBSET (1..named), Named(K)
      PROVE  FeedOK(K)' /\ RowsOK(K)' /\ JobsOK(K)' /\ DiskOK(K)'
  <2>1. FeedOK(K) /\ RowsOK(K) /\ JobsOK(K) /\ DiskOK(K)
    BY <1>2 DEF Named
  <2>2. drive' = drive /\ named' = named
    BY <1>1 DEF remote
  <2>3. /\ ops' \in Seq(Jobs) /\ waiting' \subseteq Jobs
        /\ ToSet(ops') \cup waiting' \subseteq ToSet(ops) \cup waiting
    <3>1. CASE ExecuteFails
      <4>1. ops # <<>> /\ ops' = Tail(ops) /\ waiting' = waiting \cup {Head(ops)}
        BY <3>1 DEF ExecuteFails
      <4>2. ops \in Seq(Jobs) /\ waiting \subseteq Jobs
        BY <2>1 DEF JobsOK
      <4>3. Tail(ops) \in Seq(Jobs) /\ Head(ops) \in Jobs /\ ToSet(ops) = {Head(ops)} \cup ToSet(Tail(ops))
        BY <4>1, <4>2, TailSet
      <4> QED BY <4>1, <4>2, <4>3
    <3>2. CASE \E job \in waiting : DueAgain(job)
      <4>1. PICK job \in waiting : ops' = Append(ops, job) /\ waiting' = waiting \ {job}
        BY <3>2 DEF DueAgain
      <4>2. ops \in Seq(Jobs) /\ job \in Jobs /\ waiting \subseteq Jobs
        BY <2>1, <4>1 DEF JobsOK
      <4>3. Append(ops, job) \in Seq(Jobs) /\ ToSet(Append(ops, job)) = ToSet(ops) \cup {job}
        BY <4>2, AppendSet
      <4> QED BY <4>1, <4>2, <4>3
    <3> QED BY <3>1, <3>2
  <2>4. JobsOK(K)'
    BY <1>1, <2>1, <2>2, <2>3 DEF JobsOK, JobOK, Jobs, Paths, Top
  <2> QED BY <1>1, <2>1, <2>4, FeedStays, RowsStay, DiskStays
<1>3. faults' \in 0..MaxFaults
  BY FolderSyncAssumption DEF IInv, ExecuteFails, DueAgain
<1> QED BY <1>1, <1>2, <1>3, DaemonKeeps

-----------------------------------------------------------------------------
\* What the reconciler does.

\* A row and a path are something.
LEMMA Something ==
    ASSUME named \in 0..MaxChanges
    PROVE  /\ \A p \in Seq(1..named) : p # Nothing
           /\ \A r \in [path : Seq(1..named), rev : Nat] : r # Nothing
<1>1. 1..named \in SUBSET (1..MaxChanges)
  BY FolderSyncAssumption
<1>2. \A p \in Seq(1..named) : p \in Seq(1..MaxChanges)
  BY <1>1, WiderSeq
<1>3. \A r \in [path : Seq(1..named), rev : Nat] : r \in [path : Seq(1..MaxChanges), rev : Nat]
  BY <1>2
<1> QED BY <1>2, <1>3, FolderSyncAssumption

\* None, one and two operations.
LEMMA FewJobs ==
    ASSUME NEW S
    PROVE  /\ <<>> \in Seq(S) /\ ToSet(<<>>) = {}
           /\ \A a \in S : <<a>> \in Seq(S) /\ ToSet(<<a>>) = {a}
           /\ \A a, b \in S : <<a>> \o <<b>> \in Seq(S) /\ ToSet(<<a>> \o <<b>>) = {a, b}
<1>1. <<>> \in Seq(S) /\ ToSet(<<>>) = {}
  BY DEF ToSet
<1>2. ASSUME NEW a \in S
      PROVE  <<a>> \in Seq(S) /\ ToSet(<<a>>) = {a}
  <2>1. Append(<<>>, a) = <<a>>
    OBVIOUS
  <2>2. Append(<<>>, a) \in Seq(S) /\ ToSet(Append(<<>>, a)) = ToSet(<<>>) \cup {a}
    BY <1>1, AppendSet
  <2> QED BY <2>1, <2>2, <1>1
<1>3. ASSUME NEW a \in S, NEW b \in S
      PROVE  <<a>> \o <<b>> \in Seq(S) /\ ToSet(<<a>> \o <<b>>) = {a, b}
  <2>1. /\ <<a>> \in Seq(S) /\ ToSet(<<a>>) = {a}
        /\ <<b>> \in Seq(S) /\ ToSet(<<b>>) = {b}
    BY <1>2
  <2>2. <<a>> \o <<b>> \in Seq(S) /\ ToSet(<<a>> \o <<b>>) = ToSet(<<a>>) \cup ToSet(<<b>>)
    BY <2>1, ConcatSet
  <2> QED BY <2>1, <2>2
<1> QED BY <1>1, <1>2, <1>3

\* Good operations join good ones.
LEMMA EnqueueKeeps ==
    ASSUME NEW K \in SUBSET (1..named), JobsOK(K), UNCHANGED remote, waiting' = waiting,
           \A x \in Ids : rows[x] # Nothing => rows'[x] # Nothing,
           NEW jobs \in Seq(Jobs), Enqueue(jobs), \A job \in ToSet(jobs) : JobOK(job, K)'
    PROVE  JobsOK(K)'
<1>1. drive' = drive /\ named' = named
  BY DEF remote
<1>2. ops \in Seq(Jobs) /\ waiting \subseteq Jobs /\ \A job \in ToSet(ops) \cup waiting : JobOK(job, K)
  BY DEF JobsOK
<1>3. ops' \in Seq(Jobs) /\ ToSet(ops') = ToSet(ops) \cup ToSet(jobs)
  BY <1>2, ConcatSet DEF Enqueue
<1>4. ASSUME NEW job \in ToSet(ops) \cup waiting
      PROVE  JobOK(job, K)'
  <2>1. job \in Jobs
    BY <1>2 DEF ToSet
  <2> QED BY <2>1, <1>1, <1>2 DEF JobOK, Jobs, Paths, Top
<1>5. Jobs' = Jobs
  BY <1>1 DEF Jobs
<1> QED BY <1>2, <1>3, <1>4, <1>5 DEF JobsOK

\* An operation on an object that has a row, with a path of the object's kind.
LEMMA GoodJob ==
    ASSUME NEW K \in SUBSET (1..named), UNCHANGED remote,
           NEW x \in Ids, rows'[x] # Nothing, NEW p \in Paths(x, K),
           NEW kind \in {"mkdir", "download", "rename"},
           kind = "mkdir" => x \in Folders, kind = "download" => x \in Files
    PROVE  Job(kind, x, p) \in Jobs /\ JobOK(Job(kind, x, p), K)'
<1>1. drive' = drive /\ named' = named
  BY DEF remote
<1>2. p \in Seq(1..named) /\ p \in Paths(x, K)'
  BY <1>1 DEF Paths, Top
<1>3. Job(kind, x, p) \in Jobs
  BY <1>2 DEF Job, Jobs
<1>4. JobOK(Job(kind, x, p), K)'
  BY <1>2 DEF Job, JobOK
<1> QED BY <1>3, <1>4

\* The cache learns the paths of the folders walked, and of a folder that changed.
LEMMA RememberKeeps ==
    ASSUME NEW K \in SUBSET (1..named), DriveOK(K), FeedOK(K), Grounded, NEW s \in delta, UNCHANGED remote,
           changed' = changed, lost' = lost, delta' = delta \ {s}, Remember(s)
    PROVE  FeedOK(K)'
<1>1. drive' = drive /\ named' = named
  BY DEF remote
<1>2. /\ Resolved(s) \in Paths(s.id, K) /\ s.parent \in Places
  BY ResolvedOK
<1>3. Walked[s.parent] \subseteq {d \in Folders : Exists(d)}
  BY <1>2, WalkedOK
<1>4. s.id \in Ids /\ Root \notin Ids /\ Root \notin Folders
  BY FolderSyncAssumption DEF FeedOK, Ids
<1>5. \A f \in Folders \cup {Root} : cache'[f] = IF f = s.id THEN Resolved(s)
                                                 ELSE IF f \in Walked[s.parent] THEN Prefix[f] ELSE cache[f]
  BY DEF Remember
<1>6. DOMAIN cache' = Folders \cup {Root}
  BY DEF Remember
<1>7. cache'[Root] = Top
  BY <1>3, <1>4, <1>5 DEF FeedOK
<1>8. ASSUME NEW f \in Folders, cache'[f] # Nothing
      PROVE  cache'[f] \in Paths(f, K)
  <2>1. CASE f = s.id
    BY <2>1, <1>2, <1>5
  <2>2. CASE f # s.id /\ f \in Walked[s.parent]
    <3>1. f \in Places /\ f # Root
      BY <2>2, <1>3, <1>4 DEF Places, Place
    <3> QED BY <2>2, <3>1, <1>5, PrefixOK
  <2>3. CASE f # s.id /\ f \notin Walked[s.parent]
    BY <2>3, <1>5, <1>8 DEF FeedOK
  <2> QED BY <2>1, <2>2, <2>3
<1> QED BY <1>1, <1>6, <1>7, <1>8 DEF FeedOK, Exists, Place, Paths, Top

\* A change of an object without a row.
LEMMA NewObjectKeeps ==
    ASSUME NEW K \in SUBSET (1..named), Named(K), named \in 0..MaxChanges, NEW s \in delta, UNCHANGED remote,
           waiting' = waiting, NEW path \in Paths(s.id, K), NewObject(s, path)
    PROVE  RowsOK(K)' /\ JobsOK(K)'
<1>1. drive' = drive /\ named' = named
  BY DEF remote
<1>2. FeedOK(K) /\ RowsOK(K) /\ JobsOK(K)
  BY DEF Named
<1>3. CASE RowAt(path) # {}
  <2>1. rows' = rows /\ ops' = ops
    BY <1>3 DEF NewObject
  <2> QED BY <2>1, <1>2, RowsStay, JobsStay
<1>4. CASE RowAt(path) = {}
  <2> DEFINE row == [path |-> path, rev |-> s.rev]
             job == Job(IF s.id \in Folders THEN "mkdir" ELSE "download", s.id, path)
  <2>1. s.id \in Ids /\ s.rev \in Nat /\ Exists(s.id)
    BY <1>2 DEF FeedOK
  <2>2. rows' = [rows EXCEPT ![s.id] = row] /\ Enqueue(<<job>>)
    BY <1>4 DEF NewObject
  <2>3. path \in Seq(1..named)
    BY DEF Paths
  <2>4. row \in [path : Seq(1..named), rev : Nat] /\ row.path = path
    BY <2>1, <2>3
  <2>5. row # Nothing
    BY <2>4, Something
  <2> HIDE DEF row, job
  <2>6. \A x \in Ids : rows'[x] = IF x = s.id THEN row ELSE rows[x]
    BY <2>2, <1>2 DEF RowsOK
  <2>7. rows' \in [Ids -> [path : Seq(1..named), rev : Nat] \cup {Nothing}]
    BY <2>2, <2>4, <1>2 DEF RowsOK
  <2>8. \A x \in Ids : rows[x] # Nothing => rows[x].path # path
    BY <1>4 DEF RowAt
  <2>9. RowsOK(K)'
    <3>1. \A x \in Ids : rows'[x] # Nothing => Exists(x) /\ rows'[x].path \in Paths(x, K)
      BY <2>1, <2>4, <2>6, <1>2 DEF RowsOK
    <3>2. \A x, y \in Ids : rows'[x] # Nothing /\ rows'[y] # Nothing /\ rows'[x].path = rows'[y].path => x = y
      BY <2>4, <2>6, <2>8, <1>2 DEF RowsOK
    <3> QED BY <2>7, <3>1, <3>2, <1>1 DEF RowsOK, Exists, Paths, Top
  <2>10. job \in Jobs /\ JobOK(job, K)'
    <3>1. rows'[s.id] # Nothing /\ (s.id \notin Folders => s.id \in Files)
      BY <2>1, <2>5, <2>6 DEF Ids
    <3>2. CASE s.id \in Folders
      <4>1. job = Job("mkdir", s.id, path)
        BY <3>2 DEF job
      <4>2. Job("mkdir", s.id, path) \in Jobs /\ JobOK(Job("mkdir", s.id, path), K)'
        BY <2>1, <3>1, <3>2, GoodJob
      <4> QED BY <4>1, <4>2
    <3>3. CASE s.id \notin Folders
      <4>1. job = Job("download", s.id, path)
        BY <3>3 DEF job
      <4>2. Job("download", s.id, path) \in Jobs /\ JobOK(Job("download", s.id, path), K)'
        BY <2>1, <3>1, <3>3, GoodJob
      <4> QED BY <4>1, <4>2
    <3> QED BY <3>2, <3>3
  <2>11. <<job>> \in Seq(Jobs) /\ ToSet(<<job>>) = {job}
    BY <2>10, FewJobs
  <2>12. \A x \in Ids : rows[x] # Nothing => rows'[x] # Nothing
    BY <2>5, <2>6
  <2>13. JobsOK(K)'
    BY <2>2, <2>10, <2>11, <2>12, <1>2, EnqueueKeeps
  <2> QED BY <2>9, <2>13
<1> QED BY <1>3, <1>4

\* A change of an object with a row.
LEMMA KnownKeeps ==
    ASSUME NEW K \in SUBSET (1..named), Named(K), Grounded, NEW s \in delta, UNCHANGED remote,
           waiting' = waiting, NEW path, path = Resolved(s),
           FolderMoved(s, path) \/ FileMoved(s, path) \/ FileEdited(s, path)
    PROVE  RowsOK(K)' /\ JobsOK(K)'
<1>1. drive' = drive /\ named' = named
  BY DEF remote
<1>2. DriveOK(K) /\ FeedOK(K) /\ RowsOK(K) /\ JobsOK(K)
  BY DEF Named
<1>3. /\ path \in Paths(s.id, K) /\ Front(path) = Prefix[s.parent]
      /\ s.parent \in Places /\ (s.parent # Root => Prefix[s.parent] \in Paths(s.parent, K))
  BY <1>2, ResolvedOK
<1>4. rows' = rows /\ rows[s.id] # Nothing /\ s.id \in Ids
  BY <1>2 DEF FolderMoved, FileMoved, FileEdited, FeedOK
<1>5. PICK jobs : Enqueue(jobs) /\ jobs \in Seq(Jobs) /\ \A job \in ToSet(jobs) : JobOK(job, K)'
  <2>1. Job("rename", s.id, path) \in Jobs /\ JobOK(Job("rename", s.id, path), K)'
    BY <1>3, <1>4, GoodJob
  <2>2. s.id \in Files => Job("download", s.id, path) \in Jobs /\ JobOK(Job("download", s.id, path), K)'
    BY <1>3, <1>4, GoodJob
  <2> DEFINE a == Job("rename", s.id, path)
             b == Job("download", s.id, path)
             c == Job("rename", s.parent, ParentOf(path))
  <2>3. <<>> \in Seq(Jobs) /\ ToSet(<<>>) = {} /\ <<a>> \in Seq(Jobs) /\ ToSet(<<a>>) = {a}
    BY <2>1, FewJobs
  <2>4. s.id \in Files => <<b>> \in Seq(Jobs) /\ ToSet(<<b>>) = {b}
    BY <2>2, FewJobs
  <2>5. s.id \in Files => <<a>> \o <<b>> \in Seq(Jobs) /\ ToSet(<<a>> \o <<b>>) = {a, b}
    BY <2>1, <2>2, FewJobs
  <2>6. CASE FolderMoved(s, path)
    <3>1. Enqueue(<<>>) \/ Enqueue(<<a>>)
      BY <2>6 DEF FolderMoved
    <3> HIDE DEF a
    <3> QED BY <3>1, <2>1, <2>3 DEF a
  <2>7. CASE FileEdited(s, path)
    <3>1. s.id \in Files /\ (Enqueue(<<>>) \/ Enqueue(<<b>>))
      BY <2>7 DEF FileEdited
    <3> QED BY <3>1, <2>2, <2>3, <2>4
  <2>8. CASE FileMoved(s, path)
    <3>1. s.id \in Files
      BY <2>8 DEF FileMoved
    <3>2. CASE Renamer(s, rows[s.id].path, path) # {}
      <4>1. Enqueue(<<c>>)
        BY <2>8, <3>2 DEF FileMoved
      <4>2. s.parent \in Folders /\ rows[s.parent] # Nothing
        BY <3>2 DEF Renamer, RowAt
      <4>3. s.parent \in Ids /\ s.parent # Root
        BY <4>2, FolderSyncAssumption DEF Ids
      <4>4. ParentOf(path) \in Paths(s.parent, K)
        BY <4>3, <1>3 DEF ParentOf
      <4>5. c \in Jobs /\ JobOK(Job("rename", s.parent, ParentOf(path)), K)'
        BY <4>2, <4>3, <4>4, <1>4, GoodJob
      <4>6. <<c>> \in Seq(Jobs) /\ ToSet(<<c>>) = {c}
        BY <4>5, FewJobs
      <4> QED BY <4>1, <4>5, <4>6
    <3>3. CASE Renamer(s, rows[s.id].path, path) = {}
      <4>1. Enqueue(<<a>> \o <<>>) \/ Enqueue(<<a>> \o <<b>>)
        BY <2>8, <3>3 DEF FileMoved
      <4>2. <<a>> \o <<>> = <<a>>
        OBVIOUS
      <4> QED BY <4>1, <4>2, <3>1, <2>1, <2>2, <2>3, <2>5
    <3> QED BY <3>2, <3>3
  <2> QED BY <2>6, <2>7, <2>8, FolderMoved(s, path) \/ FileMoved(s, path) \/ FileEdited(s, path)
<1>6. JobsOK(K)'
  BY <1>2, <1>4, <1>5, EnqueueKeeps
<1> QED BY <1>2, <1>4, <1>6, RowsStay

\* A change is applied.
LEMMA ApplyKeeps ==
    ASSUME IInv, NEW s \in delta, Apply(s)
    PROVE  IInv'
<1>1. /\ UNCHANGED remote /\ faults' = faults /\ changed' = changed /\ lost' = lost /\ disk' = disk
      /\ waiting' = waiting /\ delta' = delta \ {s} /\ Remember(s)
      /\ \/ NewObject(s, Resolved(s)) \/ FolderMoved(s, Resolved(s))
         \/ FileMoved(s, Resolved(s)) \/ FileEdited(s, Resolved(s))
  BY DEF Apply
<1>2. Grounded /\ named \in 0..MaxChanges /\ faults \in 0..MaxFaults
  BY DEF IInv
<1>3. ASSUME NEW K \in SUBSET (1..named), Named(K)
      PROVE  FeedOK(K)' /\ RowsOK(K)' /\ JobsOK(K)' /\ DiskOK(K)'
  <2>1. DriveOK(K) /\ FeedOK(K) /\ DiskOK(K)
    BY <1>3 DEF Named
  <2>2. FeedOK(K)'
    BY <1>1, <1>2, <2>1, RememberKeeps
  <2>3. DiskOK(K)'
    BY <1>1, <2>1, DiskStays
  <2>4. PICK path : path = Resolved(s)
    OBVIOUS
  <2>5. path \in Paths(s.id, K)
    BY <1>2, <2>1, <2>4, ResolvedOK
  <2>6. RowsOK(K)' /\ JobsOK(K)'
    <3>1. CASE NewObject(s, Resolved(s))
      BY <3>1, <1>1, <1>2, <1>3, <2>4, <2>5, NewObjectKeeps
    <3>2. CASE FolderMoved(s, Resolved(s)) \/ FileMoved(s, Resolved(s)) \/ FileEdited(s, Resolved(s))
      BY <3>2, <1>1, <1>2, <1>3, <2>4, KnownKeeps
    <3> QED BY <3>1, <3>2, <1>1
  <2> QED BY <2>2, <2>3, <2>6
<1> QED BY <1>1, <1>2, <1>3, DaemonKeeps

-----------------------------------------------------------------------------
\* What the dispatcher does.

\* A path through folders is the path of a directory if its last name is a folder's.
LEMMA DirOrFile ==
    ASSUME NEW K \in SUBSET (1..named), NEW p \in Seq(1..named), p # Top
    PROVE  /\ Len(p) \in Nat \ {0} /\ Len(p) \in 1..Len(p)
           /\ Front(p) \in Seq(K) <=> \A i \in 1..Len(p) : i < Len(p) => p[i] \in K
           /\ p \in Seq(K) <=> Front(p) \in Seq(K) /\ p[Len(p)] \in K
<1>1. /\ Len(p) \in Nat \ {0} /\ Front(p) \in Seq(1..named) /\ Len(Front(p)) = Len(p) - 1
      /\ \A i \in 1..Len(p) - 1 : Front(p)[i] = p[i]
  BY FrontFacts
<1>2. ASSUME NEW s \in Seq(1..named)
      PROVE  s \in Seq(K) <=> \A i \in 1..Len(s) : s[i] \in K
  <2>1. s \in Seq(K) => \A i \in 1..Len(s) : s[i] \in K
    BY WiderSeq
  <2>2. ASSUME \A i \in 1..Len(s) : s[i] \in K
        PROVE  s \in Seq(K)
    <3>1. Len(s) \in Nat /\ s = [i \in 1..Len(s) |-> s[i]]
      OBVIOUS
    <3>2. s \in [1..Len(s) -> K]
      BY <3>1, <2>2
    <3> QED BY <3>1, <3>2
  <2> QED BY <2>1, <2>2
<1>3. Front(p) \in Seq(K) <=> \A i \in 1..Len(p) - 1 : p[i] \in K
  BY <1>1, <1>2
<1>4. p \in Seq(K) <=> \A i \in 1..Len(p) : p[i] \in K
  BY <1>2
<1>5. \A i \in 1..Len(p) : (i < Len(p) <=> i \in 1..Len(p) - 1) /\ (i \in 1..Len(p) - 1 \/ i = Len(p))
  BY <1>1
<1>6. Len(p) \in 1..Len(p) /\ 1..Len(p) - 1 \subseteq 1..Len(p)
  BY <1>1
<1> QED BY <1>1, <1>3, <1>4, <1>5, <1>6

\* The path of an object, read that way.
LEMMA PathFacts ==
    ASSUME NEW K \in SUBSET (1..named), NEW x, NEW p \in Paths(x, K)
    PROVE  /\ p \in Seq(1..named) /\ p # Top /\ Len(p) \in Nat \ {0} /\ Front(p) \in Seq(K)
           /\ p[Len(p)] \in K <=> x \in Folders
           /\ p \in Seq(K) <=> x \in Folders
           /\ \A i \in 1..Len(p) : i < Len(p) => p[i] \in K
<1>1. /\ p \in Seq(1..named) /\ p # Top /\ (p[Len(p)] \in K <=> x \in Folders)
      /\ \A i \in 1..Len(p) : i < Len(p) => p[i] \in K
  BY DEF Paths
<1> QED BY <1>1, DirOrFile

\* What was in a directory that moves is, after the move, of the kind it was.
LEMMA ShiftedKind ==
    ASSUME NEW K \in SUBSET (1..named), NEW x, NEW from \in Paths(x, K), NEW to \in Paths(x, K),
           NEW p \in Seq(1..named), Within(from, p), p # Top, Front(p) \in Seq(K)
    PROVE  LET q == Shifted(p, from, to) IN
             /\ q \in Seq(1..named) /\ q # Top /\ Front(q) \in Seq(K)
             /\ q \in Seq(K) <=> p \in Seq(K)
             /\ \A y : p \in Paths(y, K) => q \in Paths(y, K)
<1> DEFINE q == Shifted(p, from, to)
           f == Len(from)
           t == Len(to)
<1>1. /\ from \in Seq(1..named) /\ f \in Nat \ {0} /\ (from[f] \in K <=> x \in Folders)
      /\ \A i \in 1..f : i < f => from[i] \in K
  BY PathFacts
<1>2. /\ to \in Seq(1..named) /\ t \in Nat \ {0} /\ (to[t] \in K <=> x \in Folders)
      /\ \A i \in 1..t : i < t => to[i] \in K
  BY PathFacts
<1>3. IsShift(q, p, from, to, 1..named)
  BY <1>1, <1>2, ShiftedFacts
<1> HIDE DEF q
<1>4. /\ q \in Seq(1..named) /\ Len(q) = t + Len(p) - f /\ f <= Len(p)
      /\ \A i \in 1..f : p[i] = from[i]
      /\ \A i \in 1..t : q[i] = to[i]
      /\ \A i \in 1..Len(p) - f : q[t + i] = p[f + i]
  BY <1>3 DEF IsShift
<1>5. /\ Len(p) \in Nat \ {0} /\ \A i \in 1..Len(p) : i < Len(p) => p[i] \in K
      /\ p \in Seq(K) <=> p[Len(p)] \in K
  BY DirOrFile
<1> HIDE DEF f, t
<1>6. Len(q) \in Nat \ {0} /\ q # Top
  BY <1>1, <1>2, <1>4, <1>5 DEF Top
<1>7. ASSUME NEW i \in 1..Len(q), i < Len(q)
      PROVE  q[i] \in K
  <2>1. CASE i < t
    BY <2>1, <1>2, <1>4
  <2>2. CASE i = t
    <3>1. f \in 1..Len(p) /\ f < Len(p) /\ f \in 1..f /\ t \in 1..t
      BY <2>2, <1>1, <1>2, <1>4, <1>5, <1>7
    <3>2. from[f] \in K
      BY <3>1, <1>4, <1>5
    <3> QED BY <2>2, <3>1, <3>2, <1>1, <1>2, <1>4
  <2>3. CASE i > t
    <3> DEFINE j == i - t
    <3>1. j \in 1..Len(p) - f /\ t + j = i /\ f + j \in 1..Len(p) /\ f + j < Len(p)
      BY <2>3, <1>1, <1>2, <1>4, <1>5, <1>7
    <3> HIDE DEF j
    <3> QED BY <3>1, <1>4, <1>5
  <2> QED BY <2>1, <2>2, <2>3, <1>2
<1>8. q[Len(q)] \in K <=> p[Len(p)] \in K
  <2>1. CASE Len(p) = f
    <3>1. Len(q) = t /\ t \in 1..t /\ f \in 1..f
      BY <2>1, <1>1, <1>2, <1>4
    <3> QED BY <2>1, <3>1, <1>1, <1>2, <1>4
  <2>2. CASE Len(p) # f
    <3> DEFINE j == Len(p) - f
    <3>1. j \in 1..Len(p) - f /\ t + j = Len(q) /\ f + j = Len(p)
      BY <2>2, <1>1, <1>2, <1>4, <1>5
    <3> HIDE DEF j
    <3> QED BY <3>1, <1>4
  <2> QED BY <2>1, <2>2
<1>9. Front(q) \in Seq(K) /\ (q \in Seq(K) <=> q[Len(q)] \in K)
  BY <1>4, <1>6, <1>7, DirOrFile
<1>10. \A y : p \in Paths(y, K) => q \in Paths(y, K)
  BY <1>4, <1>6, <1>7, <1>8 DEF Paths
<1> QED BY <1>4, <1>5, <1>6, <1>8, <1>9, <1>10 DEF q

\* What is in a directory's directory is in it.
LEMMA WithinFront ==
    ASSUME NEW S, NEW from \in Seq(S), NEW p \in Seq(S), p # Top, Within(from, Front(p))
    PROVE  Within(from, p)
<1>1. /\ Len(p) \in Nat \ {0} /\ Front(p) \in Seq(S) /\ Len(Front(p)) = Len(p) - 1
      /\ \A i \in 1..Len(p) - 1 : Front(p)[i] = p[i]
  BY FrontFacts
<1>2. Len(from) \in Nat /\ Len(from) <= Len(p) - 1 /\ \A i \in 1..Len(from) : from[i] = Front(p)[i]
  BY <1>1, PrefixFacts DEF Within
<1>3. Len(from) <= Len(p) /\ \A i \in 1..Len(from) : from[i] = p[i]
  BY <1>1, <1>2
<1> QED BY <1>3, PrefixFacts DEF Within

\* The directory itself goes to where the move goes.
LEMMA ShiftedTop ==
    ASSUME NEW S, NEW from \in Seq(S), NEW to \in Seq(S)
    PROVE  Within(from, from) /\ Shifted(from, from, to) = to
<1>1. Within(from, from)
  BY PrefixFacts DEF Within
<1> DEFINE q == Shifted(from, from, to)
<1>2. IsShift(q, from, from, to, S)
  BY <1>1, ShiftedFacts
<1> HIDE DEF q
<1>3. q \in Seq(S) /\ Len(q) = Len(to) + Len(from) - Len(from) /\ \A i \in 1..Len(to) : q[i] = to[i]
  BY <1>2 DEF IsShift
<1>4. Len(q) = Len(to)
  BY <1>3
<1>5. q = to
  BY <1>3, <1>4, SameSeq
<1> QED BY <1>1, <1>5 DEF q

\* Making a directory and those above it.
LEMMA WithDirsSolid ==
    ASSUME NEW K \in SUBSET (1..named), DiskOK(K), NEW dir \in Seq(K)
    PROVE  Solid(WithDirs(Dirs(dir)), K) /\ dir \in DOMAIN WithDirs(Dirs(dir))
<1> DEFINE d == WithDirs(Dirs(dir))
<1>1. /\ dir \in Dirs(dir) /\ Dirs(dir) \subseteq Seq(K)
      /\ \A p \in Dirs(dir) : p # Top => Front(p) \in Dirs(dir)
  BY DirsFacts
<1>2. /\ DOMAIN d = DOMAIN disk \cup Dirs(dir)
      /\ \A p \in DOMAIN d : d[p] = IF p \in DOMAIN disk THEN disk[p] ELSE "dir"
  BY DEF WithDirs, OnDisk
<1>3. \A p \in Seq(K) : p \in Seq(1..named)
  BY WiderSeq
<1> HIDE DEF d
<1>4. Solid(d, K)
  BY <1>1, <1>2, <1>3 DEF DiskOK, Solid
<1> QED BY <1>1, <1>2, <1>4 DEF d

\* rename(2) or a merge leaves everything in a directory that is there.
LEMMA MoveTreeSolid ==
    ASSUME NEW K \in SUBSET (1..named), DiskOK(K), NEW x, NEW from \in Paths(x, K), NEW to \in Paths(x, K),
           ~(from # to /\ Within(from, to) /\ OnDisk(from)), MoveTree(from, to)
    PROVE  Solid(disk', K)
<1> DEFINE there == WithDirs(Dirs(ParentOf(to)))
           moved == {p \in DOMAIN there : Within(from, p)}
           stay  == DOMAIN there \ moved
           targets == {Shifted(p, from, to) : p \in moved}
<1>1. /\ from \in Seq(1..named) /\ from # Top /\ to \in Seq(1..named) /\ to # Top /\ Front(to) \in Seq(K)
      /\ Len(from) \in Nat \ {0}
  BY PathFacts
<1>2. Solid(there, K) /\ Front(to) \in DOMAIN there
  BY <1>1, WithDirsSolid DEF ParentOf
<1>3. CASE from = to \/ ~OnDisk(from)
  <2>1. disk' = there
    BY <1>3 DEF MoveTree
  <2> QED BY <2>1, <1>2
<1>4. CASE from # to /\ OnDisk(from)
  <2>1. disk' = [p \in stay \cup targets |-> IF p \in targets THEN there[Shifted(p, to, from)] ELSE there[p]]
    BY <1>4 DEF MoveTree
  <2>2. ~Within(from, to)
    BY <1>4
  <2> HIDE DEF there
  <2>3. \A p \in DOMAIN there : /\ p \in Seq(1..named)
                                /\ p # Top => Front(p) \in DOMAIN there /\ Front(p) \in Seq(K)
                                /\ p \in Seq(K) => there[p] = "dir"
    BY <1>2 DEF Solid
  <2>4. Top \in stay
    <3>1. Top \in DOMAIN there /\ Top \in Seq(1..named) /\ Len(Top) = 0
      BY <1>2 DEF Solid, Top
    <3>2. Within(from, Top) => Len(from) <= Len(Top)
      BY <3>1, <1>1, PrefixFacts DEF Within
    <3>3. ~Within(from, Top)
      BY <3>1, <3>2, <1>1
    <3> QED BY <3>1, <3>3
  <2>5. ASSUME NEW p \in stay, p # Top
        PROVE  Front(p) \in stay
    <3>1. p \in DOMAIN there /\ ~Within(from, p) /\ p \in Seq(1..named) /\ Front(p) \in DOMAIN there
      BY <2>3, <2>5
    <3>2. ~Within(from, Front(p))
      BY <3>1, <2>5, <1>1, WithinFront
    <3> QED BY <3>1, <3>2
  <2>6. ASSUME NEW p \in targets
        PROVE  /\ p \in Seq(1..named) /\ p # Top /\ Front(p) \in stay \cup targets /\ Front(p) \in Seq(K)
               /\ p \in Seq(K) => there[Shifted(p, to, from)] = "dir"
    <3>1. PICK q \in DOMAIN there : Within(from, q) /\ p = Shifted(q, from, to)
      OBVIOUS
    <3>2. q \in Seq(1..named) /\ q # Top
      BY <3>1, <2>3, <2>4
    <3>3. Front(q) \in DOMAIN there /\ Front(q) \in Seq(K)
      BY <3>1, <3>2, <2>3
    <3>4. /\ p \in Seq(1..named) /\ p # Top /\ Front(p) \in Seq(K)
          /\ p \in Seq(K) <=> q \in Seq(K)
      BY <3>1, <3>2, <3>3, ShiftedKind
    <3>5. Shifted(p, to, from) = q
      BY <3>1, <3>2, <1>1, ShiftedBack
    <3>6. Front(p) \in stay \cup targets
      <4>1. CASE q = from
        <5>1. p = to
          BY <4>1, <3>1, <1>1, ShiftedTop
        <5>2. ~Within(from, Front(to))
          BY <2>2, <1>1, WithinFront
        <5> QED BY <5>1, <5>2, <1>2
      <4>2. CASE q # from
        <5>1. Within(from, Front(q)) /\ Front(p) = Shifted(Front(q), from, to)
          BY <4>2, <3>1, <3>2, <1>1, ShiftedFront
        <5> QED BY <5>1, <3>3
      <4> QED BY <4>1, <4>2
    <3> QED BY <3>1, <3>4, <3>5, <3>6, <2>3
  <2>7. DOMAIN disk' = stay \cup targets
    BY <2>1
  <2>8. \A p \in stay \cup targets : disk'[p] = IF p \in targets THEN there[Shifted(p, to, from)] ELSE there[p]
    BY <2>1
  <2>9. \A p \in stay : p \in DOMAIN there
    OBVIOUS
  <2> HIDE DEF stay, targets, moved
  <2>10. ASSUME NEW p \in stay \cup targets
         PROVE  /\ p \in Seq(1..named)
                /\ p # Top => Front(p) \in stay \cup targets /\ Front(p) \in Seq(K)
                /\ p \in Seq(K) => disk'[p] = "dir"
    <3>1. CASE p \in targets
      BY <3>1, <2>6, <2>8
    <3>2. CASE p \in stay /\ p \notin targets
      BY <3>2, <2>3, <2>5, <2>8, <2>9
    <3> QED BY <3>1, <3>2
  <2> QED BY <2>4, <2>7, <2>10 DEF Solid
<1> QED BY <1>3, <1>4

\* The rows follow the directory, and no two rows come to one path.
LEMMA RewriteKeeps ==
    ASSUME NEW K \in SUBSET (1..named), RowsOK(K), named \in 0..MaxChanges, UNCHANGED remote,
           NEW x \in Ids, NEW from \in Paths(x, K), NEW to \in Paths(x, K), Rewrite(from, to)
    PROVE  RowsOK(K)'
<1> DEFINE Row == [path : Seq(1..named), rev : Nat]
           hit(y) == rows[y] # Nothing /\ Within(from, rows[y].path)
           new(y) == Shifted(rows[y].path, from, to)
<1>1. drive' = drive /\ named' = named
  BY DEF remote
<1>2. /\ rows \in [Ids -> Row \cup {Nothing}]
      /\ \A y \in Ids : rows[y] # Nothing => Exists(y) /\ rows[y].path \in Paths(y, K) /\ rows[y] \in Row
      /\ \A y, z \in Ids : rows[y] # Nothing /\ rows[z] # Nothing /\ rows[y].path = rows[z].path => y = z
  BY DEF RowsOK
<1>3. from \in Seq(1..named) /\ to \in Seq(1..named)
  BY PathFacts
<1>4. ASSUME NEW y \in Ids, hit(y)
      PROVE  /\ new(y) \in Paths(y, K) /\ new(y) \in Seq(1..named)
             /\ [rows[y] EXCEPT !.path = new(y)] \in Row /\ [rows[y] EXCEPT !.path = new(y)].path = new(y)
  <2>1. rows[y] \in Row /\ rows[y].path \in Paths(y, K) /\ Within(from, rows[y].path)
    BY <1>2, <1>4
  <2>2. rows[y].path \in Seq(1..named) /\ rows[y].path # Top /\ Front(rows[y].path) \in Seq(K)
    BY <2>1, PathFacts
  <2>3. new(y) \in Seq(1..named) /\ new(y) \in Paths(y, K)
    BY <2>1, <2>2, ShiftedKind
  <2> HIDE DEF new
  <2> QED BY <2>1, <2>3
<1>5. ASSUME NEW y \in Ids
      PROVE  \/ ~hit(y) /\ rows'[y] = rows[y]
             \/ rows'[y] = Nothing
             \/ hit(y) /\ RowAt(new(y)) \ {y} = {} /\ rows'[y] = [rows[y] EXCEPT !.path = new(y)]
  BY DEF Rewrite
<1>6. rows' \in [Ids -> Row \cup {Nothing}]
  <2>1. DOMAIN rows' = Ids /\ rows' = [y \in Ids |-> rows'[y]]
    BY DEF Rewrite
  <2> HIDE DEF Row, hit, new
  <2>2. ASSUME NEW y \in Ids
        PROVE  rows'[y] \in Row \cup {Nothing}
    <3>1. CASE ~hit(y) /\ rows'[y] = rows[y]
      BY <3>1, <1>2
    <3>2. CASE hit(y) /\ rows'[y] = [rows[y] EXCEPT !.path = new(y)]
      BY <3>2, <1>4
    <3> QED BY <3>1, <3>2, <1>5
  <2> QED BY <2>1, <2>2
<1>7. ASSUME NEW y \in Ids, rows'[y] # Nothing
      PROVE  /\ rows[y] # Nothing
             /\ \/ ~hit(y) /\ rows'[y].path = rows[y].path
                \/ hit(y) /\ RowAt(new(y)) \ {y} = {} /\ rows'[y].path = new(y) /\ new(y) \in Paths(y, K)
  BY <1>4, <1>5, <1>7
<1>8. ASSUME NEW y \in Ids, NEW z \in Ids, rows'[y] # Nothing, rows'[z] # Nothing, rows'[y].path = rows'[z].path
      PROVE  y = z
  <2>0. rows[y] # Nothing /\ rows[z] # Nothing
    BY <1>7, <1>8
  <2>1. CASE ~hit(y) /\ ~hit(z)
    BY <2>0, <2>1, <1>2, <1>7, <1>8
  <2>2. CASE hit(y) /\ ~hit(z)
    <3>1. RowAt(new(y)) \ {y} = {} /\ rows[z].path = new(y)
      BY <2>2, <1>7, <1>8
    <3>2. z \in RowAt(new(y))
      BY <2>0, <3>1 DEF RowAt
    <3> QED BY <3>1, <3>2
  <2>3. CASE ~hit(y) /\ hit(z)
    <3>1. RowAt(new(z)) \ {z} = {} /\ rows[y].path = new(z)
      BY <2>3, <1>7, <1>8
    <3>2. y \in RowAt(new(z))
      BY <2>0, <3>1 DEF RowAt
    <3> QED BY <3>1, <3>2
  <2>4. CASE hit(y) /\ hit(z)
    <3>1. new(y) = new(z)
      BY <2>4, <1>7, <1>8
    <3>2. rows[y].path \in Seq(1..named) /\ rows[z].path \in Seq(1..named)
      BY <2>0, <1>2
    <3>3. rows[y].path = rows[z].path
      BY <2>4, <3>1, <3>2, <1>3, ShiftedOne
    <3> QED BY <2>0, <3>3, <1>2
  <2> QED BY <2>1, <2>2, <2>3, <2>4
<1>9. \A y \in Ids : rows'[y] # Nothing => Exists(y) /\ rows'[y].path \in Paths(y, K)
  BY <1>2, <1>7
<1> HIDE DEF hit, new
<1> QED BY <1>1, <1>6, <1>8, <1>9 DEF RowsOK, Exists, Paths, Top

\* The operations of a row that goes go with it.
LEMMA QueueKeeps ==
    ASSUME NEW K \in SUBSET (1..named), JobsOK(K), UNCHANGED remote, ops # <<>>,
           ops' = Only(Tail(ops), {other \in ToSet(ops) : rows'[other.id] # Nothing}),
           waiting' = {other \in waiting : rows'[other.id] # Nothing}
    PROVE  JobsOK(K)'
<1>1. drive' = drive /\ named' = named
  BY DEF remote
<1>2. ops \in Seq(Jobs) /\ waiting \subseteq Jobs /\ \A job \in ToSet(ops) \cup waiting : JobOK(job, K)
  BY DEF JobsOK
<1>3. Tail(ops) \in Seq(Jobs) /\ ToSet(Tail(ops)) \subseteq ToSet(ops)
  BY <1>2, TailSet
<1>4. /\ ops' \in Seq(Jobs)
      /\ ToSet(ops') = ToSet(Tail(ops)) \cap {other \in ToSet(ops) : rows'[other.id] # Nothing}
  BY <1>3, OnlyKeeps
<1>5. ASSUME NEW job \in ToSet(ops') \cup waiting'
      PROVE  JobOK(job, K)'
  <2>1. rows'[job.id] # Nothing /\ job \in ToSet(ops) \cup waiting
    BY <1>3, <1>4
  <2>2. JobOK(job, K)
    BY <2>1, <1>2
  <2> QED BY <2>1, <2>2, <1>1 DEF JobOK, Paths, Top
<1>6. Jobs' = Jobs
  BY <1>1 DEF Jobs
<1> QED BY <1>2, <1>4, <1>5, <1>6 DEF JobsOK

\* A directory made for the row of a folder.
LEMMA MakeDirKeeps ==
    ASSUME NEW K \in SUBSET (1..named), Named(K), UNCHANGED remote,
           NEW job \in Jobs, JobOK(job, K), job.kind = "mkdir", MakeDir(job)
    PROVE  RowsOK(K)' /\ DiskOK(K)'
<1>1. drive' = drive /\ named' = named /\ rows' = rows /\ disk' = WithDirs(Dirs(rows[job.id].path))
  BY DEF remote, MakeDir
<1>2. RowsOK(K) /\ DiskOK(K)
  BY DEF Named
<1>3. job.id \in Folders /\ rows[job.id] # Nothing /\ job.id \in Ids
  BY DEF JobOK, Jobs
<1>4. rows[job.id].path \in Paths(job.id, K)
  BY <1>2, <1>3 DEF RowsOK
<1>5. rows[job.id].path \in Seq(K)
  BY <1>3, <1>4, PathFacts
<1>6. Solid(disk', K)
  BY <1>1, <1>2, <1>5, WithDirsSolid
<1>7. DiskOK(K)'
  BY <1>1, <1>6 DEF DiskOK, Solid, Top
<1> QED BY <1>1, <1>2, <1>7, RowsStay

\* A file is written where no directory can be.
LEMMA DownloadKeeps ==
    ASSUME NEW K \in SUBSET (1..named), Named(K), named \in 0..MaxChanges, UNCHANGED remote,
           NEW job \in Jobs, JobOK(job, K), job.kind = "download", Download(job)
    PROVE  RowsOK(K)' /\ DiskOK(K)'
<1> DEFINE entry == [id |-> job.id, rev |-> drive[job.id].rev]
           dirs == WithDirs(Dirs(ParentOf(job.path)))
           r == drive[job.id].rev
<1>1. /\ drive' = drive /\ named' = named
      /\ rows' = [rows EXCEPT ![job.id].rev = r]
      /\ disk' = [p \in DOMAIN dirs \cup {job.path} |-> IF p = job.path THEN entry ELSE dirs[p]]
  BY DEF remote, Download
<1>2. DriveOK(K) /\ RowsOK(K) /\ DiskOK(K)
  BY DEF Named
<1>3. /\ job.id \in Files /\ job.id \notin Folders /\ job.id \in Ids
      /\ rows[job.id] # Nothing /\ job.path \in Paths(job.id, K)
  BY FolderSyncAssumption DEF JobOK, Jobs
<1>4. /\ job.path \in Seq(1..named) /\ job.path # Top /\ Front(job.path) \in Seq(K) /\ job.path \notin Seq(K)
  BY <1>3, PathFacts
<1>5. Solid(dirs, K) /\ Front(job.path) \in DOMAIN dirs
  BY <1>2, <1>4, WithDirsSolid DEF ParentOf
<1>6. Exists(job.id) /\ rows[job.id] \in [path : Seq(1..named), rev : Nat]
  BY <1>2, <1>3 DEF RowsOK
<1>7. r \in Nat
  BY <1>2, <1>3, <1>6, EntryFacts
<1> HIDE DEF dirs, entry, r
<1>8. Solid(disk', K)
  <2>1. DOMAIN disk' = DOMAIN dirs \cup {job.path}
    BY <1>1
  <2>2. \A p \in DOMAIN dirs : p # job.path => disk'[p] = dirs[p]
    BY <1>1
  <2> QED BY <2>1, <2>2, <1>4, <1>5 DEF Solid
<1>9. DiskOK(K)'
  BY <1>1, <1>8 DEF DiskOK, Solid, Top
<1> DEFINE row == [rows[job.id] EXCEPT !.rev = r]
<1>10. row \in [path : Seq(1..named), rev : Nat] /\ row.path = rows[job.id].path
  BY <1>6, <1>7
<1>11. rows' = [rows EXCEPT ![job.id] = row]
  BY <1>1
<1> HIDE DEF row
<1>12. \A x \in Ids : rows'[x] = IF x = job.id THEN row ELSE rows[x]
  BY <1>2, <1>11 DEF RowsOK
<1>13. rows' \in [Ids -> [path : Seq(1..named), rev : Nat] \cup {Nothing}]
  BY <1>2, <1>10, <1>11 DEF RowsOK
<1>14. \A x \in Ids : rows'[x] # Nothing => rows[x] # Nothing /\ rows'[x].path = rows[x].path
  BY <1>3, <1>10, <1>12
<1>15. RowsOK(K)'
  <2>1. \A x \in Ids : rows'[x] # Nothing => Exists(x) /\ rows'[x].path \in Paths(x, K)
    BY <1>2, <1>14 DEF RowsOK
  <2>2. \A x, y \in Ids : rows'[x] # Nothing /\ rows'[y] # Nothing /\ rows'[x].path = rows'[y].path => x = y
    BY <1>2, <1>14 DEF RowsOK
  <2> QED BY <2>1, <2>2, <1>1, <1>13 DEF RowsOK, Exists, Paths, Top
<1> QED BY <1>9, <1>15

\* A move, or one that cannot be made.
LEMMA RenameKeeps ==
    ASSUME NEW K \in SUBSET (1..named), Named(K), named \in 0..MaxChanges, UNCHANGED remote,
           NEW job \in Jobs, JobOK(job, K), Rename(job)
    PROVE  RowsOK(K)' /\ DiskOK(K)'
<1>1. drive' = drive /\ named' = named
  BY DEF remote
<1>2. RowsOK(K) /\ DiskOK(K)
  BY DEF Named
<1>3. job.id \in Ids /\ rows[job.id] # Nothing /\ job.path \in Paths(job.id, K)
  BY DEF JobOK, Jobs
<1>4. PICK from \in Paths(job.id, K) : from = rows[job.id].path
  BY <1>2, <1>3 DEF RowsOK
<1>5. CASE from # job.path /\ Within(from, job.path) /\ OnDisk(from)
  <2>1. disk' = WithDirs(Dirs(ParentOf(job.path))) /\ rows' = rows
    BY <1>4, <1>5 DEF Rename
  <2>2. Front(job.path) \in Seq(K)
    BY <1>3, PathFacts
  <2>3. Solid(disk', K)
    BY <1>2, <2>1, <2>2, WithDirsSolid DEF ParentOf
  <2>4. DiskOK(K)'
    BY <1>1, <2>3 DEF DiskOK, Solid, Top
  <2> QED BY <1>2, <2>1, <2>4, RowsStay
<1>6. CASE ~(from # job.path /\ Within(from, job.path) /\ OnDisk(from))
  <2>1. MoveTree(from, job.path) /\ Rewrite(from, job.path)
    BY <1>4, <1>6 DEF Rename
  <2>2. Solid(disk', K)
    BY <1>2, <1>3, <1>6, <2>1, MoveTreeSolid
  <2>3. DiskOK(K)'
    BY <1>1, <2>2 DEF DiskOK, Solid, Top
  <2>4. RowsOK(K)'
    BY <1>2, <1>3, <2>1, RewriteKeeps
  <2> QED BY <2>3, <2>4
<1> QED BY <1>5, <1>6

\* The first operation runs.
LEMMA ExecuteKeeps ==
    ASSUME IInv, Execute
    PROVE  IInv'
<1>1. /\ UNCHANGED remote /\ UNCHANGED feed /\ faults' = faults /\ ops # <<>>
      /\ ops' = Only(Tail(ops), {other \in ToSet(ops) : rows'[other.id] # Nothing})
      /\ waiting' = {other \in waiting : rows'[other.id] # Nothing}
  BY DEF Execute
<1>2. named \in 0..MaxChanges /\ faults \in 0..MaxFaults
  BY DEF IInv
<1>3. PICK job : /\ job = Head(ops)
                 /\ \/ job.kind = "mkdir" /\ MakeDir(job)
                    \/ job.kind = "download" /\ Download(job)
                    \/ job.kind = "rename" /\ Rename(job)
  BY DEF Execute
<1>4. ASSUME NEW K \in SUBSET (1..named), Named(K)
      PROVE  FeedOK(K)' /\ RowsOK(K)' /\ JobsOK(K)' /\ DiskOK(K)'
  <2>1. FeedOK(K) /\ JobsOK(K)
    BY <1>4 DEF Named
  <2>2. ops \in Seq(Jobs) /\ \A other \in ToSet(ops) : JobOK(other, K)
    BY <2>1 DEF JobsOK
  <2>3. job \in Jobs /\ JobOK(job, K)
    BY <2>2, <1>1, <1>3, TailSet
  <2>4. RowsOK(K)' /\ DiskOK(K)'
    BY <2>3, <1>1, <1>2, <1>3, <1>4, MakeDirKeeps, DownloadKeeps, RenameKeeps
  <2> QED BY <2>1, <2>4, <1>1, FeedStays, QueueKeeps
<1> QED BY <1>1, <1>2, <1>4, DaemonKeeps

-----------------------------------------------------------------------------
\* The invariant holds at first.
LEMMA InitInv == Init => IInv
<1> SUFFICES ASSUME Init PROVE IInv
  OBVIOUS
<1>1. /\ drive = [x \in Ids |-> Nothing] /\ named = 0 /\ changed = {} /\ delta = {} /\ lost = {}
      /\ cache = [x \in Folders \cup {Root} |-> IF x = Root THEN Top ELSE Nothing]
      /\ rows = [x \in Ids |-> Nothing] /\ ops = <<>> /\ waiting = {}
      /\ disk = [path \in {Top} |-> "dir"] /\ faults = 0
  BY DEF Init
<1>2. Root \notin Folders /\ MaxChanges \in Nat /\ MaxFaults \in Nat
  BY FolderSyncAssumption DEF Ids
<1>3. \A x \in Ids : ~Exists(x)
  BY <1>1 DEF Exists
<1>4. Grounded
  BY <1>3 DEF Grounded
<1>5. DriveOK({})
  BY <1>1, <1>3 DEF DriveOK
<1>6. FeedOK({})
  BY <1>1, <1>2 DEF FeedOK
<1>7. RowsOK({})
  BY <1>1 DEF RowsOK
<1>8. JobsOK({})
  BY <1>1, FewJobs DEF JobsOK
<1>9. DiskOK({})
  <2>1. Top \in Seq(1..named)
    BY DEF Top
  <2>2. DOMAIN disk = {Top} /\ disk[Top] = "dir"
    BY <1>1
  <2> QED BY <2>1, <2>2 DEF DiskOK, Solid
<1>10. Named({})
  BY <1>5, <1>6, <1>7, <1>8, <1>9 DEF Named
<1> QED BY <1>1, <1>2, <1>4, <1>10 DEF IInv

\* Every step keeps it.
LEMMA NextInv == IInv /\ [Next]_vars => IInv'
<1> SUFFICES ASSUME IInv, [Next]_vars PROVE IInv'
  OBVIOUS
<1>1. ASSUME NEW x \in Ids, NEW in \in Folders \cup {Root}, Create(x, in)
      PROVE  IInv'
  BY <1>1, CreateKeeps
<1>2. ASSUME NEW x \in Ids, NEW in \in Folders \cup {Root}, Relocate(x, in)
      PROVE  IInv'
  BY <1>2, RelocateKeeps
<1>3. ASSUME NEW x \in Files, Touch(x)
      PROVE  IInv'
  BY <1>3, TouchKeeps
<1>4. ASSUME NEW ids \in SUBSET changed, Fetch(ids)
      PROVE  IInv'
  BY <1>4, FetchKeeps
<1>5. ASSUME NEW s \in delta, Apply(s)
      PROVE  IInv'
  BY <1>5, ApplyKeeps
<1>6. ASSUME NEW s \in delta, LookUpFails(s)
      PROVE  IInv'
  BY <1>6, LookUpFailsKeeps
<1>7. CASE ExecuteFails \/ \E job \in waiting : DueAgain(job)
  BY <1>7, RetryKeeps
<1>8. CASE Execute
  BY <1>8, ExecuteKeeps
<1>9. CASE Restart
  BY <1>9, RestartKeeps
<1>10. CASE UNCHANGED vars
  <2>1. /\ UNCHANGED remote /\ UNCHANGED feed /\ rows' = rows /\ ops' = ops /\ disk' = disk
        /\ waiting' = waiting /\ faults' = faults
    BY <1>10 DEF vars, local
  <2>2. ASSUME NEW K \in SUBSET (1..named), Named(K)
        PROVE  FeedOK(K)' /\ RowsOK(K)' /\ JobsOK(K)' /\ DiskOK(K)'
    <3>1. FeedOK(K) /\ RowsOK(K) /\ JobsOK(K) /\ DiskOK(K)
      BY <2>2 DEF Named
    <3> QED BY <2>1, <3>1, FeedStays, RowsStay, JobsStay, DiskStays
  <2>3. faults' \in 0..MaxFaults
    BY <2>1 DEF IInv
  <2> QED BY <2>1, <2>2, <2>3, DaemonKeeps
<1> QED BY <1>1, <1>2, <1>3, <1>4, <1>5, <1>6, <1>7, <1>8, <1>9, <1>10 DEF Next, UserStep, DaemonStep

\* The invariant is what the type invariant asks for, and more.
LEMMA InvTypes == IInv => TypeOK
<1> SUFFICES ASSUME IInv PROVE TypeOK
  OBVIOUS
<1>1. PICK K \in SUBSET (1..named) : Named(K)
  BY DEF IInv
<1>2. /\ DriveOK(K) /\ FeedOK(K) /\ RowsOK(K) /\ JobsOK(K) /\ DiskOK(K)
      /\ named \in 0..MaxChanges /\ faults \in 0..MaxFaults
  BY <1>1 DEF Named, IInv
<1>3. 1..named \in SUBSET (1..MaxChanges)
  BY <1>2, FolderSyncAssumption
<1>4. \A p \in Seq(1..named) : p \in Seq(1..MaxChanges)
  BY <1>3, WiderSeq
<1>5. \A x \in Ids : Exists(x) => drive[x].parent \in Folders \cup {Root}
  BY <1>2, EntryFacts
<1>6. \A f \in Folders : cache[f] # Nothing => cache[f] \in Seq(1..MaxChanges)
  BY <1>2, <1>4, CacheFacts
<1>7. /\ \A x \in Ids : rows[x] # Nothing => rows[x].path \in Seq(1..MaxChanges)
      /\ \A x, y \in Ids : rows[x] # Nothing /\ rows[y] # Nothing /\ rows[x].path = rows[y].path => x = y
  BY <1>2, <1>4 DEF RowsOK
<1>8. \A path \in DOMAIN disk \ {Top} : ParentOf(path) \in DOMAIN disk /\ disk[ParentOf(path)] = "dir"
  BY <1>2 DEF DiskOK, Solid, ParentOf
<1>9. changed \subseteq Ids /\ lost \subseteq Ids
  BY <1>2 DEF FeedOK
<1> QED BY <1>2, <1>5, <1>6, <1>7, <1>8, <1>9 DEF TypeOK

\* However folders are renamed and moved on Drive, whatever is lost on the way and whatever
\* operation fails: no two rows have one path, and what is on disk is in a directory that is
\* there (drive/changes.rs, reconcile/continuous.rs, daemon/runtime.rs).
THEOREM TreeCorrect == Spec => []TypeOK
<1>1. Init => IInv
  BY InitInv
<1>2. IInv /\ [Next]_vars => IInv'
  BY NextInv
<1>3. IInv => TypeOK
  BY InvTypes
<1> QED BY <1>1, <1>2, <1>3, PTL DEF Spec
-----------------------------------------------------------------------------
\* Paths along a tree, whatever the tree: d is the entries, T what exists.

\* T is a tree along the parents of d, and a name is had once.
IsTree(d, T) ==
    /\ Root \in T
    /\ \A y \in T \ {Root} : d[y].parent \in T /\ d[y].name \in Nat
    /\ \A S \in SUBSET (T \ {Root}) : S # {} => \E y \in S : d[y].parent \notin S
    /\ \A y, z \in T \ {Root} : d[y].name = d[z].name => y = z

\* n has the paths along it.
Climbs(n, d, T) ==
    /\ n[Root] = Top
    /\ \A y \in T \ {Root} : n[y] = Append(n[d[y].parent], d[y].name)

PathAs(x, d, g) == IF x = Root THEN Top ELSE Append(g[d[x].parent], d[x].name)
PathRec(d, T) == CHOOSE g : g = [x \in T |-> PathAs(x, d, g)]

\* The recursion along the parents has the paths.
LEMMA PathSolved ==
    ASSUME NEW d, NEW T, IsTree(d, T)
    PROVE  Climbs(PathRec(d, T), d, T)
<1> DEFINE V == Seq(Nat)
           Base == {Root}
           base == [x \in Base |-> Top]
           par == [x \in T \ Base |-> d[x].parent]
           step == [x \in T \ Base |-> [v \in V |-> Append(v, d[x].name)]]
<1>1. \A x \in T \ Base : d[x].parent \in T /\ d[x].name \in Nat
  BY DEF IsTree
<1>2. Base \in SUBSET T /\ base \in [Base -> V]
  BY DEF IsTree, Top
<1>3. par \in [T \ Base -> T]
  BY <1>1
<1>4. step \in [T \ Base -> [V -> V]]
  <2>1. \A x \in T \ Base : \A v \in V : Append(v, d[x].name) \in V
    BY <1>1
  <2> HIDE DEF V
  <2> QED BY <2>1
<1>5. ASSUME NEW S \in SUBSET (T \ Base), S # {}
      PROVE  \E x \in S : par[x] \notin S
  <2>1. PICK x \in S : d[x].parent \notin S
    BY <1>5 DEF IsTree
  <2> QED BY <2>1
<1> HIDE DEF V, base, par, step
<1>6. PICK g \in [T -> V] : Follows(g, T, Base, base, par, step)
  BY <1>2, <1>3, <1>4, <1>5, TreeRecursion
<1>7. \A x \in T : g[x] = PathAs(x, d, g)
  <2> TAKE x \in T
  <2>1. g[x] = IF x \in Base THEN base[x] ELSE step[x][g[par[x]]]
    BY <1>6 DEF Follows
  <2>2. CASE x = Root
    BY <2>1, <2>2 DEF base, PathAs
  <2>3. CASE x # Root
    <3>1. par[x] = d[x].parent /\ par[x] \in T /\ g[par[x]] \in V
      BY <2>3, <1>3, <1>6 DEF par
    <3>2. step[x][g[par[x]]] = Append(g[par[x]], d[x].name)
      BY <2>3, <3>1 DEF step
    <3> QED BY <2>1, <2>3, <3>1, <3>2 DEF PathAs
  <2> QED BY <2>2, <2>3
<1>8. g = [x \in T |-> PathAs(x, d, g)]
  BY <1>6, <1>7
<1>9. PathRec(d, T) = [x \in T |-> PathAs(x, d, PathRec(d, T))]
  BY <1>8 DEF PathRec
<1> QED BY <1>9 DEF Climbs, PathAs, IsTree

\* A path is one name longer than that of what it is in.
LEMMA ClimbFacts ==
    ASSUME NEW d, NEW T, IsTree(d, T), NEW n, Climbs(n, d, T)
    PROVE  /\ \A y \in T : n[y] \in Seq(Nat)
           /\ \A y \in T \ {Root} :
                /\ n[y] # Top /\ Len(n[y]) = Len(n[d[y].parent]) + 1
                /\ n[y][Len(n[y])] = d[y].name /\ Front(n[y]) = n[d[y].parent]
                /\ \A i \in 1..Len(n[d[y].parent]) : n[y][i] = n[d[y].parent][i]
           /\ \A y, z \in T : n[y] = n[z] => y = z
<1>1. \A y \in T : n[y] \in Seq(Nat)
  <2> DEFINE S == {y \in T : n[y] \notin Seq(Nat)}
  <2>1. SUFFICES ASSUME S # {} PROVE FALSE
    OBVIOUS
  <2>2. \A y \in S : y # Root
    <3>1. Top \in Seq(Nat)
      BY DEF Top
    <3> QED BY <3>1 DEF Climbs
  <2>3. PICK y \in S : d[y].parent \notin S
    BY <2>1, <2>2 DEF IsTree
  <2>4. d[y].parent \in T /\ d[y].name \in Nat
    BY <2>2, <2>3 DEF IsTree
  <2>5. n[d[y].parent] \in Seq(Nat)
    BY <2>3, <2>4
  <2>6. Append(n[d[y].parent], d[y].name) \in Seq(Nat)
    BY <2>4, <2>5, AppendFacts
  <2> QED BY <2>2, <2>3, <2>6 DEF Climbs
<1>2. ASSUME NEW y \in T \ {Root}
      PROVE  /\ n[y] # Top /\ Len(n[y]) = Len(n[d[y].parent]) + 1
             /\ n[y][Len(n[y])] = d[y].name /\ Front(n[y]) = n[d[y].parent]
             /\ \A i \in 1..Len(n[d[y].parent]) : n[y][i] = n[d[y].parent][i]
  <2>1. d[y].parent \in T /\ d[y].name \in Nat
    BY DEF IsTree
  <2>2. n[d[y].parent] \in Seq(Nat)
    BY <1>1, <2>1
  <2>3. n[y] = Append(n[d[y].parent], d[y].name)
    BY DEF Climbs
  <2>4. \A v \in Seq(Nat) : \A m \in Nat :
          /\ Append(v, m) # Top /\ Len(Append(v, m)) = Len(v) + 1
          /\ Append(v, m)[Len(v) + 1] = m /\ Front(Append(v, m)) = v
          /\ \A i \in 1..Len(v) : Append(v, m)[i] = v[i]
    BY AppendFacts
  <2> QED BY <2>1, <2>2, <2>3, <2>4
<1>3. ASSUME NEW y \in T, NEW z \in T, n[y] = n[z]
      PROVE  y = z
  <2>1. CASE y = Root \/ z = Root
    BY <1>2, <1>3, <2>1 DEF Climbs
  <2>2. CASE y # Root /\ z # Root
    <3>1. d[y].name = d[z].name
      BY <1>2, <1>3, <2>2
    <3> QED BY <2>2, <3>1 DEF IsTree
  <2> QED BY <2>1, <2>2
<1> QED BY <1>1, <1>2, <1>3

\* Prefixes: transitive, and two of one length are the same.
LEMMA PrefixChain ==
    ASSUME NEW a \in Seq(Nat), NEW b \in Seq(Nat), NEW c \in Seq(Nat)
    PROVE  /\ IsPrefix(a, a)
           /\ IsPrefix(a, b) /\ IsPrefix(b, c) => IsPrefix(a, c)
           /\ IsPrefix(a, c) /\ IsPrefix(b, c) /\ Len(a) = Len(b) => a = b
           /\ IsPrefix(a, b) /\ IsPrefix(b, a) => a = b
           /\ IsPrefix(a, b) /\ a # b => Len(a) < Len(b)
<1>0. Len(a) \in Nat /\ Len(b) \in Nat /\ Len(c) \in Nat
  OBVIOUS
<1>1. /\ IsPrefix(a, a) <=> \A i \in 1..Len(a) : a[i] = a[i]
      /\ IsPrefix(a, b) <=> Len(a) <= Len(b) /\ \A i \in 1..Len(a) : a[i] = b[i]
      /\ IsPrefix(b, a) <=> Len(b) <= Len(a) /\ \A i \in 1..Len(b) : b[i] = a[i]
      /\ IsPrefix(b, c) <=> Len(b) <= Len(c) /\ \A i \in 1..Len(b) : b[i] = c[i]
      /\ IsPrefix(a, c) <=> Len(a) <= Len(c) /\ \A i \in 1..Len(a) : a[i] = c[i]
  BY <1>0, PrefixFacts
<1>2. IsPrefix(a, c) /\ IsPrefix(b, c) /\ Len(a) = Len(b) => a = b
  <2> SUFFICES ASSUME IsPrefix(a, c), IsPrefix(b, c), Len(a) = Len(b) PROVE a = b
    OBVIOUS
  <2>1. \A i \in 1..Len(a) : a[i] = b[i]
    BY <1>1
  <2> QED BY <2>1, SameSeq
<1>3. IsPrefix(a, b) /\ Len(a) = Len(b) => a = b
  BY <1>1, SameSeq
<1>4. IsPrefix(a, b) /\ IsPrefix(b, c) => IsPrefix(a, c)
  <2> SUFFICES ASSUME IsPrefix(a, b), IsPrefix(b, c) PROVE IsPrefix(a, c)
    OBVIOUS
  <2>1. Len(a) <= Len(c)
    BY <1>0, <1>1
  <2>2. \A i \in 1..Len(a) : i \in 1..Len(b)
    BY <1>0, <1>1
  <2>3. \A i \in 1..Len(a) : a[i] = c[i]
    BY <1>1, <2>2
  <2> QED BY <1>1, <2>1, <2>3
<1>5. IsPrefix(a, a)
  BY <1>1
<1>6. IsPrefix(a, b) /\ IsPrefix(b, a) => a = b
  <2> SUFFICES ASSUME IsPrefix(a, b), IsPrefix(b, a) PROVE a = b
    OBVIOUS
  <2>1. Len(a) <= Len(b) /\ Len(b) <= Len(a)
    BY <1>1
  <2> QED BY <2>1, <1>0, <1>3
<1>7. IsPrefix(a, b) /\ a # b => Len(a) < Len(b)
  <2> SUFFICES ASSUME IsPrefix(a, b), a # b PROVE Len(a) < Len(b)
    OBVIOUS
  <2>1. Len(a) <= Len(b) /\ Len(a) # Len(b)
    BY <1>1, <1>3
  <2> QED BY <2>1, <1>0
<1> QED BY <1>2, <1>4, <1>5, <1>6, <1>7

\* What is below a directory and is not it is in something that is below it or is it.
LEMMA ChainUp ==
    ASSUME NEW d, NEW T, IsTree(d, T), NEW n, Climbs(n, d, T),
           NEW a \in Seq(Nat), NEW z \in T, IsPrefix(a, n[z]), a # n[z]
    PROVE  z # Root /\ d[z].parent \in T /\ IsPrefix(a, n[d[z].parent])
<1>1. n[z] \in Seq(Nat)
  BY ClimbFacts
<1>2. Len(a) \in Nat /\ Len(a) < Len(n[z]) /\ \A i \in 1..Len(a) : a[i] = n[z][i]
  BY <1>1, PrefixChain, PrefixFacts
<1>3. z # Root
  BY <1>2 DEF Climbs, Top
<1> DEFINE p == d[z].parent
<1>4. p \in T
  BY <1>3 DEF IsTree
<1>5. /\ n[p] \in Seq(Nat) /\ Len(n[z]) = Len(n[p]) + 1
      /\ \A i \in 1..Len(n[p]) : n[z][i] = n[p][i]
  BY <1>3, <1>4, ClimbFacts
<1>6. Len(n[p]) \in Nat
  BY <1>5
<1>7. Len(a) <= Len(n[p]) /\ \A i \in 1..Len(a) : a[i] = n[p][i]
  <2>1. Len(a) <= Len(n[p])
    BY <1>2, <1>5, <1>6
  <2>2. \A i \in 1..Len(a) : i \in 1..Len(n[p])
    BY <2>1, <1>2, <1>6
  <2> QED BY <2>1, <2>2, <1>2, <1>5
<1> QED BY <1>3, <1>4, <1>5, <1>7, PrefixFacts

\* Every name in a path is that of something whose path ends there.
LEMMA Along ==
    ASSUME NEW d, NEW T, IsTree(d, T), NEW n, Climbs(n, d, T), NEW z \in T, NEW k \in 1..Len(n[z])
    PROVE  \E w \in T \ {Root} : n[z][k] = d[w].name /\ IsPrefix(n[w], n[z]) /\ Len(n[w]) = k
<1> DEFINE Ok(y) == \A j \in 1..Len(n[y]) :
                      \E w \in T \ {Root} : n[y][j] = d[w].name /\ IsPrefix(n[w], n[y]) /\ Len(n[w]) = j
           S == {y \in T : ~Ok(y)}
<1>1. SUFFICES ASSUME S # {} PROVE FALSE
  OBVIOUS
<1>2. Root \notin S
  BY DEF Climbs, Top
<1>3. PICK y \in S : d[y].parent \notin S
  BY <1>1, <1>2 DEF IsTree
<1> DEFINE p == d[y].parent
<1>4. y \in T \ {Root} /\ p \in T
  BY <1>2, <1>3 DEF IsTree
<1>5. Ok(p)
  BY <1>3, <1>4
<1>51. y \in T
  BY <1>4
<1> HIDE DEF S
<1>6. /\ n[p] \in Seq(Nat) /\ n[y] \in Seq(Nat) /\ Len(n[y]) = Len(n[p]) + 1
      /\ n[y][Len(n[y])] = d[y].name
      /\ \A i \in 1..Len(n[p]) : n[y][i] = n[p][i]
  BY <1>4, ClimbFacts
<1>7. Len(n[p]) \in Nat
  BY <1>6
<1>8. IsPrefix(n[p], n[y])
  <2>1. Len(n[p]) <= Len(n[y]) /\ \A i \in 1..Len(n[p]) : n[p][i] = n[y][i]
    BY <1>6, <1>7
  <2> HIDE DEF p, Ok
  <2> QED BY <2>1, <1>6, PrefixFacts
<1>9. ASSUME NEW j \in 1..Len(n[y])
      PROVE  \E w \in T \ {Root} : n[y][j] = d[w].name /\ IsPrefix(n[w], n[y]) /\ Len(n[w]) = j
  <2>1. CASE j = Len(n[y])
    <3>1. IsPrefix(n[y], n[y])
      BY <1>6, PrefixChain
    <3> QED BY <2>1, <3>1, <1>4, <1>6
  <2>2. CASE j # Len(n[y])
    <3>1. j \in 1..Len(n[p])
      BY <2>2, <1>6, <1>7
    <3>2. PICK w \in T \ {Root} : n[p][j] = d[w].name /\ IsPrefix(n[w], n[p]) /\ Len(n[w]) = j
      BY <3>1, <1>5
    <3>3. n[w] \in Seq(Nat)
      BY ClimbFacts
    <3>4. IsPrefix(n[w], n[y])
      BY <3>2, <3>3, <1>6, <1>8, PrefixChain
    <3> QED BY <3>1, <3>2, <3>4, <1>6
  <2> QED BY <2>1, <2>2
<1> HIDE DEF p
<1>10. Ok(y)
  BY <1>9
<1> QED BY <1>3, <1>51, <1>10 DEF S

\* A name further down moves along.
LEMMA ShiftedAppend ==
    ASSUME NEW from \in Seq(Nat), NEW to \in Seq(Nat), NEW p \in Seq(Nat), NEW m \in Nat, Within(from, p)
    PROVE  Shifted(Append(p, m), from, to) = Append(Shifted(p, from, to), m)
<1> DEFINE q == Append(p, m)
           r == Shifted(p, from, to)
<1>1. /\ q \in Seq(Nat) /\ Len(q) = Len(p) + 1 /\ q[Len(p) + 1] = m
      /\ \A i \in 1..Len(p) : q[i] = p[i]
  OBVIOUS
<1>2. /\ Len(from) <= Len(p) /\ \A i \in 1..Len(from) : p[i] = from[i]
      /\ Len(from) \in Nat /\ Len(p) \in Nat /\ Len(to) \in Nat
  BY PrefixFacts DEF Within
<1>3. IsShift(r, p, from, to, Nat)
  BY ShiftedFacts
<1> HIDE DEF q, r
<1>4. Within(from, q)
  <2>1. Len(from) <= Len(q) /\ \A i \in 1..Len(from) : from[i] = q[i]
    BY <1>1, <1>2
  <2> QED BY <2>1, <1>1, PrefixFacts DEF Within
<1>5. IsShift(Shifted(q, from, to), q, from, to, Nat)
  BY <1>1, <1>4, ShiftedFacts
<1> DEFINE s == Shifted(q, from, to)
           t == Append(r, m)
<1> HIDE DEF s
<1>6. /\ s \in Seq(Nat) /\ Len(s) = Len(to) + Len(q) - Len(from)
      /\ \A i \in 1..Len(to) : s[i] = to[i]
      /\ \A i \in 1..Len(q) - Len(from) : s[Len(to) + i] = q[Len(from) + i]
  BY <1>5 DEF IsShift, s
<1>7. /\ r \in Seq(Nat) /\ Len(r) = Len(to) + Len(p) - Len(from)
      /\ \A i \in 1..Len(to) : r[i] = to[i]
      /\ \A i \in 1..Len(p) - Len(from) : r[Len(to) + i] = p[Len(from) + i]
  BY <1>3 DEF IsShift
<1>8. /\ t \in Seq(Nat) /\ Len(t) = Len(r) + 1 /\ t[Len(r) + 1] = m
      /\ \A i \in 1..Len(r) : t[i] = r[i]
  <2> \A v \in Seq(Nat) : /\ Append(v, m) \in Seq(Nat) /\ Len(Append(v, m)) = Len(v) + 1
                          /\ Append(v, m)[Len(v) + 1] = m
                          /\ \A i \in 1..Len(v) : Append(v, m)[i] = v[i]
    OBVIOUS
  <2> QED BY <1>7
<1> HIDE DEF t
<1>9. Len(s) = Len(t)
  BY <1>1, <1>2, <1>6, <1>7, <1>8
<1>10. ASSUME NEW i \in 1..Len(s)
       PROVE  s[i] = t[i]
  <2>1. CASE i <= Len(to)
    <3>1. i \in 1..Len(to) /\ i \in 1..Len(r)
      BY <2>1, <1>2, <1>7
    <3> QED BY <3>1, <1>6, <1>7, <1>8
  <2>2. CASE i > Len(to) /\ i <= Len(r)
    <3>0. /\ Len(from) <= Len(p) /\ Len(from) \in Nat /\ Len(p) \in Nat /\ Len(to) \in Nat
          /\ Len(q) = Len(p) + 1 /\ Len(r) = Len(to) + Len(p) - Len(from)
          /\ i \in Nat /\ i > Len(to) /\ i <= Len(r)
      BY <2>2, <1>1, <1>2, <1>7
    <3>1. /\ i - Len(to) \in 1..Len(p) - Len(from) /\ i - Len(to) \in 1..Len(q) - Len(from)
          /\ Len(to) + (i - Len(to)) = i /\ i \in 1..Len(r)
          /\ Len(from) + (i - Len(to)) \in 1..Len(p)
      BY <3>0
    <3> QED BY <3>1, <1>1, <1>6, <1>7, <1>8
  <2>3. CASE i = Len(r) + 1
    <3>1. /\ i - Len(to) \in 1..Len(q) - Len(from) /\ Len(to) + (i - Len(to)) = i
          /\ Len(from) + (i - Len(to)) = Len(p) + 1
      BY <2>3, <1>1, <1>2, <1>7
    <3> QED BY <3>1, <2>3, <1>1, <1>6, <1>8
  <2>4. i \in Nat /\ Len(r) \in Nat /\ i <= Len(r) + 1
    BY <1>7, <1>8, <1>9
  <2> QED BY <2>1, <2>2, <2>3, <2>4, <1>2
<1> QED BY <1>6, <1>8, <1>9, <1>10, SameSeq DEF s, t, q, r

-----------------------------------------------------------------------------
\* The paths of a tree before and after something in it is moved or renamed.

\* What has another path than it had.
Strays(o, n, T) == {y \in T : o[y] # n[y]}

\* The paths were o and are n, since x has another place or name.
TripIs(x, o, n, d, T) ==
    /\ x \in Strays(o, n, T) /\ o[Root] = Top
    /\ \A y \in T : o[y] \in Seq(Nat)
    /\ \A z \in T \ {x, Root} : o[z] = Append(o[d[z].parent], d[z].name)
    /\ \A y \in Strays(o, n, T), z \in T : IsPrefix(o[y], o[z]) =>
         z \in Strays(o, n, T) /\ n[z] = Shifted(o[z], o[y], n[y])
    /\ \A y \in Strays(o, n, T), z \in T : ~IsPrefix(o[y], n[z])
    /\ \A y, z \in T : o[y] = o[z] => y = z
    /\ \A z \in Strays(o, n, T) : IsPrefix(o[x], o[z])

\* A move, or a rename in place: what had a path below the old one has one below the new one.
LEMMA TripMade ==
    ASSUME NEW d, NEW e, NEW T, IsTree(d, T), IsTree(e, T),
           NEW o, NEW n, Climbs(o, d, T), Climbs(n, e, T), NEW x \in T \ {Root},
           \A y \in T \ {Root, x} : e[y].parent = d[y].parent /\ e[y].name = d[y].name,
           ~IsPrefix(o[x], o[e[x].parent]),
           \/ e[x].parent = d[x].parent /\ e[x].name # d[x].name
           \/ e[x].parent # d[x].parent /\ e[x].name = d[x].name
    PROVE  TripIs(x, o, n, e, T)
<1> DEFINE M == Strays(o, n, T)
           P == d[x].parent
           Q == e[x].parent
<1>0. M = {y \in T : o[y] # n[y]}
  BY DEF Strays
<1> HIDE DEF M
<1>1. /\ \A y \in T : o[y] \in Seq(Nat) /\ n[y] \in Seq(Nat)
      /\ \A y, z \in T : o[y] = o[z] => y = z
      /\ \A y \in T \ {Root} : o[y] # Top /\ Front(o[y]) = o[d[y].parent] /\ o[y][Len(o[y])] = d[y].name
      /\ \A y \in T \ {Root} : n[y] # Top /\ Front(n[y]) = n[e[y].parent] /\ n[y][Len(n[y])] = e[y].name
  BY ClimbFacts
<1>2. /\ o[Root] = Top /\ n[Root] = Top /\ P \in T /\ Q \in T
      /\ \A y \in T \ {Root} : d[y].parent \in T /\ d[y].name \in Nat
      /\ \A y \in T \ {Root} : o[y] = Append(o[d[y].parent], d[y].name)
      /\ \A y \in T \ {Root} : n[y] = Append(n[e[y].parent], e[y].name)
  BY DEF IsTree, Climbs
<1>3. \A y \in M : y \in T \ {Root}
  BY <1>0, <1>2
\* What strays is below the old path of x.
<1>4. \A z \in M : IsPrefix(o[x], o[z])
  <2> DEFINE S == {z \in M : ~IsPrefix(o[x], o[z])}
  <2>1. SUFFICES ASSUME S # {} PROVE FALSE
    OBVIOUS
  <2>2. S \in SUBSET (T \ {Root})
    BY <1>3
  <2>3. PICK z \in S : d[z].parent \notin S
    BY <2>1, <2>2 DEF IsTree
  <2>4. z \in M /\ z \in T \ {Root} /\ ~IsPrefix(o[x], o[z])
    BY <2>2, <2>3
  <2>5. z # x
    BY <2>4, <1>1, PrefixChain
  <2> DEFINE p == d[z].parent
  <2>6. p \in T /\ e[z].parent = p /\ e[z].name = d[z].name
    BY <2>4, <2>5, <1>2
  <2>7. o[p] # n[p]
    <3>1. o[z] = Append(o[p], d[z].name) /\ n[z] = Append(n[p], d[z].name)
      BY <2>4, <2>6, <1>2
    <3>2. o[z] # n[z]
      BY <2>4, <1>0
    <3> HIDE DEF p
    <3> QED BY <3>1, <3>2
  <2>8. IsPrefix(o[x], o[p])
    BY <2>3, <2>6, <2>7, <1>0
  <2>9. IsPrefix(o[p], o[z])
    <3>1. o[z] = Append(o[p], d[z].name) /\ o[p] \in Seq(Nat) /\ o[z] \in Seq(Nat) /\ d[z].name \in Nat
      BY <2>4, <2>6, <1>1, <1>2
    <3>2. Len(o[p]) <= Len(o[z]) /\ \A i \in 1..Len(o[p]) : o[p][i] = o[z][i]
      <4>1. \A v \in Seq(Nat) : \A m \in Nat :
              Len(v) <= Len(Append(v, m)) /\ \A i \in 1..Len(v) : v[i] = Append(v, m)[i]
        OBVIOUS
      <4> QED BY <3>1, <4>1
    <3> HIDE DEF p
    <3> QED BY <3>1, <3>2, PrefixFacts
  <2> HIDE DEF p, S
  <2> QED BY <2>4, <2>6, <2>8, <2>9, <1>1, PrefixChain
\* x itself does, because where it goes does not.
<1>5. x \in M
  <2>1. o[Q] = n[Q]
    BY <1>0, <1>2, <1>4
  <2>2. CASE Q = P /\ e[x].name # d[x].name
    BY <2>2, <1>0, <1>1
  <2>3. CASE Q # P
    <3>1. o[P] # o[Q]
      BY <2>3, <1>1, <1>2
    <3> QED BY <3>1, <2>1, <1>0, <1>1
  <2> QED BY <2>2, <2>3
\* What is below the old path of a stray is below its new path.
<1>6. ASSUME NEW y \in M
      PROVE  \A z \in T : IsPrefix(o[y], o[z]) => z \in M /\ n[z] = Shifted(o[z], o[y], n[y])
  <2> DEFINE S == {z \in T : IsPrefix(o[y], o[z]) /\ ~(z \in M /\ n[z] = Shifted(o[z], o[y], n[y]))}
  <2>1. SUFFICES ASSUME S # {} PROVE FALSE
    OBVIOUS
  <2>2. y \in T \ {Root} /\ o[y] \in Seq(Nat) /\ n[y] \in Seq(Nat) /\ o[y] # Top
    BY <1>1, <1>3
  <2>3. y \notin S
    <3>1. Shifted(o[y], o[y], n[y]) = n[y]
      <4> \A a, b \in Seq(Nat) : Shifted(a, a, b) = b
        BY DEF Shifted
      <4> QED BY <2>2
    <3> QED BY <3>1
  <2>4. Root \notin S
    <3>1. IsPrefix(o[y], Top) => o[y] = Top
      <4>1. Top \in Seq(Nat) /\ Len(Top) = 0
        BY DEF Top
      <4>2. IsPrefix(o[y], Top) => Len(o[y]) <= 0
        BY <4>1, <2>2, PrefixFacts
      <4> QED BY <4>1, <4>2, <2>2, SameSeq
    <3> QED BY <3>1, <2>2, <1>2
  <2>5. PICK z \in S : d[z].parent \notin S
    BY <2>1, <2>4 DEF IsTree
  <2>6. /\ z \in T \ {Root} /\ IsPrefix(o[y], o[z]) /\ z # y
        /\ ~(z \in M /\ n[z] = Shifted(o[z], o[y], n[y]))
    BY <2>3, <2>4, <2>5
  <2> DEFINE p == d[z].parent
  <2>7. o[y] # o[z]
    BY <2>2, <2>6, <1>1
  <2>8. p \in T /\ IsPrefix(o[y], o[p])
    BY <2>2, <2>6, <2>7, ChainUp
  <2>9. p \in M /\ n[p] = Shifted(o[p], o[y], n[y])
    BY <2>5, <2>8
  <2>10. z # x
    <3>1. z = x => IsPrefix(o[x], o[y]) /\ IsPrefix(o[y], o[x])
      BY <2>6, <1>4
    <3> QED BY <3>1, <2>2, <2>6, <2>7, <1>1, PrefixChain
  <2>11. e[z].parent = p /\ e[z].name = d[z].name /\ d[z].name \in Nat
    BY <2>6, <2>10, <1>2
  <2>12. o[z] = Append(o[p], d[z].name) /\ n[z] = Append(n[p], d[z].name)
    BY <2>6, <2>11, <1>2
  <2>13. Front(o[z]) = o[p] /\ Front(n[z]) = n[p]
    BY <2>6, <2>11, <1>1
  <2> HIDE DEF p, S
  <2>14. z \in M
    BY <2>6, <2>9, <2>13, <1>0
  <2>15. Shifted(o[z], o[y], n[y]) = n[z]
    <3>1. o[p] \in Seq(Nat) /\ Within(o[y], o[p])
      BY <2>8, <1>1 DEF Within
    <3>2. Shifted(Append(o[p], d[z].name), o[y], n[y]) = Append(Shifted(o[p], o[y], n[y]), d[z].name)
      BY <3>1, <2>2, <2>11, ShiftedAppend
    <3> QED BY <3>2, <2>9, <2>12
  <2> QED BY <2>6, <2>14, <2>15
\* Nothing has a path below the old one of a stray: its name there would be one's of its own.
<1>7. ASSUME NEW y \in M, NEW z \in T, IsPrefix(o[y], n[z])
      PROVE  FALSE
  <2>1. y \in T \ {Root} /\ o[y] \in Seq(Nat) /\ o[y] # Top /\ n[z] \in Seq(Nat) /\ o[y] # n[y]
    BY <1>0, <1>1, <1>3
  <2> DEFINE k == Len(o[y])
  <2>2. k \in Nat \ {0}
    BY <2>1, FrontFacts
  <2>3. k <= Len(n[z]) /\ \A i \in 1..k : o[y][i] = n[z][i]
    BY <2>1, <1>7, PrefixFacts
  <2>4. k \in 1..Len(n[z]) /\ n[z][k] = o[y][k]
    BY <2>1, <2>2, <2>3
  <2>5. PICK w \in T \ {Root} : n[z][k] = e[w].name /\ IsPrefix(n[w], n[z]) /\ Len(n[w]) = k
    BY <2>4, Along
  <2>6. n[w] \in Seq(Nat)
    BY <1>1
  <2>7. n[w] = o[y]
    BY <2>1, <2>5, <2>6, <1>7, PrefixChain
  <2>8. e[w].name = d[y].name
    BY <2>1, <2>4, <2>5, <1>1
  <2>9. w # y
    BY <2>1, <2>7
  <2>10. CASE w # x
    <3>1. d[w].name = d[y].name
      BY <2>8, <2>10
    <3> QED BY <3>1, <2>1, <2>9 DEF IsTree
  <2>11. CASE w = x
    <3>1. y # x /\ e[y].name = d[y].name
      BY <2>1, <2>9, <2>11
    <3> QED BY <3>1, <2>1, <2>8, <2>9 DEF IsTree
  <2> QED BY <2>10, <2>11
<1>8. \A z \in T \ {x, Root} : o[z] = Append(o[e[z].parent], e[z].name)
  BY <1>2
<1> USE DEF M
<1> QED BY <1>1, <1>2, <1>4, <1>5, <1>6, <1>7, <1>8 DEF TripIs

-----------------------------------------------------------------------------
\* Changes that find the daemon at rest.

\* Users change something on Drive only while nothing is under way.
Calm == [][UserStep => AtRest]_vars

Reported    == changed \cup {s.id : s \in delta}
PendingJobs == ToSet(ops) \cup waiting

\* A name is had once, and what was fetched is as it is still.
Apart   == \A y, z \in Ids : Exists(y) /\ Exists(z) /\ drive[y].name = drive[z].name => y = z
Current == \A s \in delta : /\ s.parent = drive[s.id].parent /\ s.name = drive[s.id].name
                            /\ s.rev = drive[s.id].rev

\* The cache has paths of q, and with a folder the one it is in.
CacheAs(q, X) ==
    \A f \in Folders : cache[f] # Nothing =>
        Exists(f) /\ cache[f] = q[f] /\ (f \notin X => cache[drive[f].parent] # Nothing)

\* The row of y is up to date, and y is where it says.
Held(y) == /\ rows[y] # Nothing /\ rows[y].rev = drive[y].rev /\ OnDisk(rows[y].path)
           /\ y \in Files => Holds(rows[y].path, y, drive[y].rev)
Placed(y) == Held(y) /\ rows[y].path = PathOf[y]

\* Nothing is on disk but what has that path on Drive.
Clean == \A p \in DOMAIN disk : p = Top \/ \E y \in Ids : Exists(y) /\ p = PathOf[y]

\* Nothing is under way.
AtEase ==
    /\ \A y \in Ids : Exists(y) => Placed(y)
    /\ Clean /\ CacheAs(PathOf, {}) /\ Reported = {} /\ PendingJobs = {}

\* x is new or edited.
HasRow(x) ==
    /\ rows[x].path = PathOf[x]
    /\ PendingJobs # {} \/ (OnDisk(PathOf[x]) /\ (x \in Files => Holds(PathOf[x], x, rows[x].rev)))
    /\ PendingJobs # {} \/ x \in Reported \/ rows[x].rev = drive[x].rev
    /\ x \in Folders => rows[x].rev = drive[x].rev

Coming(x) ==
    /\ Exists(x)
    /\ \A y \in Ids \ {x} : Exists(y) => Placed(y)
    /\ Clean /\ CacheAs(PathOf, {}) /\ Reported \subseteq {x}
    /\ \A job \in PendingJobs : /\ job.id = x /\ job.path = PathOf[x]
                                /\ job.kind = IF x \in Folders THEN "mkdir" ELSE "download"
    /\ rows[x] = Nothing => x \in Reported
    /\ rows[x] # Nothing => HasRow(x)

\* x was moved or renamed; the paths were o.  What moves has its old path or its new one, and
\* has the new one if something it is in has.
Moved(o) == Strays(o, PathOf, There)

Halfway(x, o) ==
    /\ \A y \in Ids : Exists(y) => Held(y) /\ rows[y].path \in {o[y], PathOf[y]}
    /\ \A w, z \in Moved(o) : IsPrefix(o[w], o[z]) /\ rows[w].path # o[w] => rows[z].path # o[z]
    /\ \A p \in DOMAIN disk : p = Top \/ \E y \in Ids :
         Exists(y) /\ (p = rows[y].path \/ (y \in Folders /\ p = PathOf[y]))

Renames(x, o) ==
    \A job \in PendingJobs : /\ job.kind = "rename" /\ job.id \in Moved(o) /\ job.id \in Folders \cup {x}
                             /\ job.path = PathOf[job.id]

\* The change of x is under way: its entry, a rename, or the entry of a file in it.
Told(x, o) ==
    \/ x \in Reported
    \/ \E job \in PendingJobs : job.id = x
    \/ \E y \in Reported \cap Files : drive[y].parent = x /\ rows[y].path = o[y]

\* The cache knows the new path, or at least nothing else; or it has the old one still.
Informed(x, o) == CacheAs(PathOf, {}) /\ (rows[x].path = o[x] => Told(x, o))
Unaware(x, o) ==
    /\ x \in Folders /\ CacheAs(o, {x}) /\ cache[x] # Nothing /\ x \in Reported /\ PendingJobs = {}
    /\ \A y \in Moved(o) : rows[y].path = o[y]

Moving(x, o) ==
    /\ TripIs(x, o, PathOf, drive, There) /\ Reported \subseteq Moved(o)
    /\ Halfway(x, o) /\ Renames(x, o)
    /\ Informed(x, o) \/ Unaware(x, o)

OnItsWay == \/ AtEase
            \/ \E x \in Ids : Coming(x)
            \/ \E x \in Ids : \E o : Moving(x, o)

CalmInv == IInv /\ Apart /\ Current /\ (lost = {} /\ ~stale => OnItsWay)

\* What the proofs need of the types.
Typed ==
    /\ Root \notin Ids /\ Folders \cap Files = {} /\ Nothing # Top
    /\ IsTree(drive, There) /\ Climbs(PathOf, drive, There)
    /\ \A y \in Ids : rows[y] # Nothing => Exists(y) /\ rows[y].path \in Seq(Nat) /\ rows[y].path # Top
    /\ \A y, z \in Ids : rows[y] # Nothing /\ rows[z] # Nothing /\ rows[y].path = rows[z].path => y = z
    /\ rows \in [Ids -> [path : Seq(1..named), rev : Nat] \cup {Nothing}]
    /\ DOMAIN cache = Folders \cup {Root} /\ cache[Root] = Top
    /\ \A s \in delta : s.id \in Ids /\ Exists(s.id) /\ s.parent \in Places
    /\ \A y \in Ids : Exists(y) => drive[y].parent \in Places
    /\ ops \in Seq(Jobs) /\ waiting \subseteq Jobs
    /\ \A job \in PendingJobs : job \in Jobs /\ job.id \in Ids /\ rows[job.id] # Nothing
    /\ Top \in DOMAIN disk /\ \A p \in DOMAIN disk : p \in Seq(Nat)

\* The types of the rows, the cache, the queue and the disk, and the tree the entries make.
LEMMA TypedNow == IInv /\ Apart => Typed
<1> SUFFICES ASSUME IInv, Apart PROVE Typed
  OBVIOUS
<1>1. PICK K \in SUBSET (1..named) : Named(K)
  BY DEF IInv
<1>2. DriveOK(K) /\ FeedOK(K) /\ RowsOK(K) /\ JobsOK(K) /\ DiskOK(K) /\ Grounded /\ named \in Nat
  BY <1>1, FolderSyncAssumption DEF Named, IInv
<1>3. Root \notin Ids /\ Folders \cap Files = {} /\ Nothing # Top
  BY FolderSyncAssumption, NothingIsNoPath
<1>4. \A y \in There \ {Root} : y \in Ids /\ Exists(y)
  BY DEF There
<1>5. IsTree(drive, There)
  <2>1. \A y \in There \ {Root} : drive[y].parent \in There /\ drive[y].name \in Nat
    BY <1>2, <1>4, EntryFacts
  <2>2. ASSUME NEW S \in SUBSET (There \ {Root}), S # {}
        PROVE  \E y \in S : drive[y].parent \notin S
    BY <2>2, <1>2, <1>4, GroundedAt
  <2>3. \A y, z \in There \ {Root} : drive[y].name = drive[z].name => y = z
    BY <1>4 DEF Apart
  <2>4. Root \in There
    BY DEF There
  <2> QED BY <2>1, <2>2, <2>3, <2>4 DEF IsTree
<1>6. Climbs(PathOf, drive, There)
  <2>1. PathOf = PathRec(drive, There)
    BY DEF PathOf, PathRec, PathAs
  <2> QED BY <2>1, <1>5, PathSolved
<1>7. \A p \in Seq(1..named) : p \in Seq(Nat)
  <2>1. 1..named \in SUBSET Nat
    BY <1>2
  <2> QED BY <2>1, WiderSeq
<1>8. \A y \in Ids : rows[y] # Nothing => Exists(y) /\ rows[y].path \in Seq(Nat) /\ rows[y].path # Top
  BY <1>2, <1>7 DEF RowsOK, Paths
<1>9. \A s \in delta : s.id \in Ids /\ Exists(s.id) /\ s.parent \in Places
  BY <1>2 DEF FeedOK, Places, Place
<1>10. \A y \in Ids : Exists(y) => drive[y].parent \in Places
  BY <1>2, EntryFacts
<1>11. /\ ops \in Seq(Jobs) /\ waiting \subseteq Jobs
       /\ \A job \in PendingJobs : job \in Jobs /\ job.id \in Ids /\ rows[job.id] # Nothing
  <2>1. /\ ops \in Seq(Jobs) /\ waiting \subseteq Jobs
        /\ \A job \in PendingJobs : JobOK(job, K) /\ (job \in waiting => job \in Jobs)
    BY <1>2 DEF JobsOK, PendingJobs
  <2>2. \A job \in ToSet(ops) : job \in Jobs
    BY <2>1 DEF ToSet
  <2> QED BY <2>1, <2>2 DEF PendingJobs, Jobs, JobOK
<1>12. Top \in DOMAIN disk /\ \A p \in DOMAIN disk : p \in Seq(Nat)
  BY <1>2, <1>7 DEF DiskOK, Solid
<1>13. /\ \A y, z \in Ids : rows[y] # Nothing /\ rows[z] # Nothing /\ rows[y].path = rows[z].path => y = z
       /\ rows \in [Ids -> [path : Seq(1..named), rev : Nat] \cup {Nothing}]
       /\ DOMAIN cache = Folders \cup {Root} /\ cache[Root] = Top
  BY <1>2 DEF RowsOK, FeedOK
<1> QED BY <1>3, <1>5, <1>6, <1>8, <1>9, <1>10, <1>11, <1>12, <1>13 DEF Typed

\* ... and after a step.
LEMMA TypedNext == IInv' /\ Apart' => Typed'
BY TypedNow, PTL

-----------------------------------------------------------------------------
\* At rest.

\* An empty path has nothing before it.
LEMMA TopPrefix ==
    ASSUME NEW a \in Seq(Nat), IsPrefix(a, Top)
    PROVE  a = Top
<1>1. Top \in Seq(Nat) /\ Len(Top) = 0
  BY DEF Top
<1>2. Len(a) <= 0
  BY <1>1, PrefixFacts
<1> QED BY <1>1, <1>2, SameSeq

\* What exists, and its place in the tree.
LEMMA ThereFacts ==
    ASSUME Typed
    PROVE  /\ \A y : y \in There \ {Root} <=> y \in Ids /\ Exists(y)
           /\ Root \in There /\ PathOf[Root] = Top
           /\ \A y \in Places : y \in There /\ (y # Root => y \in Folders /\ y \in Ids /\ Exists(y))
           /\ \A y \in There : PathOf[y] \in Seq(Nat)
           /\ \A y, z \in There : PathOf[y] = PathOf[z] => y = z
           /\ \A y \in Ids : Exists(y) =>
                /\ drive[y].parent \in Places /\ drive[y].parent \in There /\ drive[y].name \in Nat
                /\ PathOf[y] # Top /\ Front(PathOf[y]) = PathOf[drive[y].parent]
                /\ PathOf[y] = Append(PathOf[drive[y].parent], drive[y].name)
<1>1. Root \notin Ids /\ IsTree(drive, There) /\ Climbs(PathOf, drive, There)
  BY DEF Typed
<1>2. \A y : y \in There \ {Root} <=> y \in Ids /\ Exists(y)
  BY <1>1 DEF There
<1>3. \A y \in Places : y \in There /\ (y # Root => y \in Folders /\ y \in Ids /\ Exists(y))
  BY DEF Places, Place, There, Ids
<1>4. Root \in There /\ PathOf[Root] = Top
  BY <1>1 DEF There, Climbs
<1>5. /\ \A y \in There : PathOf[y] \in Seq(Nat)
      /\ \A y, z \in There : PathOf[y] = PathOf[z] => y = z
      /\ \A y \in There \ {Root} : PathOf[y] # Top /\ Front(PathOf[y]) = PathOf[drive[y].parent]
  BY <1>1, ClimbFacts
<1>6. \A y \in There \ {Root} :
        /\ drive[y].parent \in There /\ drive[y].name \in Nat
        /\ PathOf[y] = Append(PathOf[drive[y].parent], drive[y].name)
  BY <1>1 DEF IsTree, Climbs
<1>7. \A y \in Ids : Exists(y) => drive[y].parent \in Places
  BY DEF Typed
<1> QED BY <1>2, <1>3, <1>4, <1>5, <1>6, <1>7

\* Nothing is reported and nothing pending.
LEMMA RestMeans == AtRest <=> Reported = {} /\ PendingJobs = {} /\ ops = <<>>
<1>1. ToSet(<<>>) = {}
  BY DEF ToSet
<1>2. {s.id : s \in delta} = {} <=> delta = {}
  OBVIOUS
<1> QED BY <1>1, <1>2 DEF AtRest, Reported, PendingJobs

\* Whatever the change was, nothing of it is left at rest.
LEMMA RestIsEase == Typed /\ AtRest /\ OnItsWay => AtEase
<1> SUFFICES ASSUME Typed, AtRest, OnItsWay PROVE AtEase
  OBVIOUS
<1>1. Reported = {} /\ PendingJobs = {}
  BY RestMeans
<1>2. ASSUME NEW x \in Ids, Coming(x)
      PROVE  AtEase
  <2>1. rows[x] # Nothing /\ HasRow(x)
    BY <1>1, <1>2 DEF Coming
  <2>2. Placed(x)
    BY <2>1, <1>1 DEF HasRow, Placed, Held
  <2> QED BY <2>2, <1>1, <1>2 DEF Coming, AtEase
<1>3. ASSUME NEW x \in Ids, NEW o, Moving(x, o)
      PROVE  AtEase
  <2>1. TripIs(x, o, PathOf, drive, There) /\ Halfway(x, o) /\ CacheAs(PathOf, {})
    BY <1>1, <1>3 DEF Moving, Informed, Unaware
  <2>2. rows[x].path # o[x]
    BY <1>1, <1>3 DEF Moving, Informed, Unaware, Told
  <2>3. x \in Moved(o) /\ \A z \in Moved(o) : IsPrefix(o[x], o[z])
    BY <2>1 DEF TripIs, Moved
  <2>4. \A z \in Moved(o) : rows[z].path # o[z]
    BY <2>1, <2>2, <2>3 DEF Halfway
  <2>5. \A y \in There : y \notin Moved(o) => o[y] = PathOf[y]
    BY DEF Moved, Strays
  <2>6. \A y \in Ids : Exists(y) => Placed(y)
    BY <2>1, <2>4, <2>5 DEF Halfway, Placed, There
  <2>7. Clean
    BY <2>1, <2>6 DEF Halfway, Clean, Placed
  <2> QED BY <1>1, <2>1, <2>6, <2>7 DEF AtEase
<1> QED BY <1>2, <1>3 DEF OnItsWay

\* The tree on disk and the rows are those of Drive then.
LEMMA EaseMirrors == Typed /\ AtEase => Mirrored
<1> SUFFICES ASSUME Typed, AtEase PROVE Mirrored
  OBVIOUS
<1>1. \A y \in Ids : Exists(y) => Placed(y)
  BY DEF AtEase
<1>2. Clean /\ Top \in DOMAIN disk
  BY DEF AtEase, Typed
<1>3. \A y \in Ids : Exists(y) => PathOf[y] \in DOMAIN disk
  BY <1>1 DEF Placed, Held, OnDisk
<1>4. DOMAIN disk = {Top} \cup {PathOf[x] : x \in {y \in Ids : Exists(y)}}
  BY <1>2, <1>3 DEF Clean
<1>5. \A x \in Files : Exists(x) => disk[PathOf[x]] = [id |-> x, rev |-> drive[x].rev]
  BY <1>1 DEF Placed, Held, Holds, Ids
<1>6. \A x \in Ids : Exists(x) => rows[x] # Nothing /\ rows[x].path = PathOf[x]
  BY <1>1 DEF Placed, Held
<1> QED BY <1>4, <1>5, <1>6 DEF Mirrored

-----------------------------------------------------------------------------
\* A change.

\* Where neither the parents nor the names differ, the paths do not.
LEMMA PathsAgree ==
    ASSUME NEW d, NEW T, IsTree(d, T), NEW n, Climbs(n, d, T),
           NEW e, NEW U, T \subseteq U, NEW m, Climbs(m, e, U),
           \A y \in T \ {Root} : e[y].parent = d[y].parent /\ e[y].name = d[y].name
    PROVE  \A y \in T : m[y] = n[y]
<1> DEFINE S == {y \in T : m[y] # n[y]}
<1>1. SUFFICES ASSUME S # {} PROVE FALSE
  OBVIOUS
<1>2. Root \notin S
  BY DEF Climbs
<1>3. PICK y \in S : d[y].parent \notin S
  BY <1>1, <1>2 DEF IsTree
<1>4. y \in T \ {Root} /\ d[y].parent \in T /\ m[y] # n[y]
  BY <1>2, <1>3 DEF IsTree
<1>5. m[d[y].parent] = n[d[y].parent]
  BY <1>3, <1>4
<1>6. m[y] = Append(m[e[y].parent], e[y].name) /\ n[y] = Append(n[d[y].parent], d[y].name)
  BY <1>4 DEF Climbs
<1> QED BY <1>4, <1>5, <1>6

\* What every change has in common: it is the only one under way.
Starts(x, entry, reported) ==
    /\ drive' = [drive EXCEPT ![x] = entry] /\ entry # Nothing
    /\ Reported' = reported /\ PendingJobs' = {} /\ delta' = {}
    /\ UNCHANGED <<cache, rows, disk, lost>>

\* A change at rest starts alone.
LEMMA ChangeStarts ==
    ASSUME Typed, AtRest, NEW x \in Ids, NEW entry, entry # Nothing, NEW reported, Change(x, entry, reported)
    PROVE  Starts(x, entry, reported)
<1>1. /\ delta = {} /\ changed = {} /\ ops = <<>> /\ waiting = {}
      /\ changed' = reported /\ delta' = {} /\ ops' = <<>> /\ waiting' = {}
      /\ cache' = cache /\ rows' = rows /\ disk' = disk /\ lost' = lost
      /\ drive' = [drive EXCEPT ![x] = entry]
  BY DEF AtRest, Change, local
<1>2. Reported' = changed' \cup {s.id : s \in delta'} /\ PendingJobs' = ToSet(ops') \cup waiting'
  BY DEF Reported, PendingJobs
<1>3. ToSet(<<>>) = {}
  BY DEF ToSet
<1> QED BY <1>1, <1>2, <1>3 DEF Starts

\* Something new is coming.
LEMMA CreateComes ==
    ASSUME IInv, Typed, Typed', AtRest, AtEase, NEW x \in Ids, NEW in, Create(x, in)
    PROVE  OnItsWay'
<1> DEFINE entry == [parent |-> in, name |-> named + 1, rev |-> 1]
<1>1. ~Exists(x) /\ Change(x, entry, {x})
  BY DEF Create
<1>2. PICK K \in SUBSET (1..named) : DriveOK(K) /\ named \in Nat
  BY FolderSyncAssumption DEF IInv, Named
<1>3. entry # Nothing
  <2>1. in \in Folders \cup {Root} /\ named + 1 \in Nat
    BY <1>2 DEF Create, Place
  <2> QED BY <2>1, FolderSyncAssumption
<1>4. Starts(x, entry, {x})
  BY <1>1, <1>3, ChangeStarts
<1>5. /\ drive' = [drive EXCEPT ![x] = entry] /\ DOMAIN drive = Ids
      /\ Reported' = {x} /\ PendingJobs' = {} /\ delta' = {}
      /\ cache' = cache /\ rows' = rows /\ disk' = disk
  BY <1>2, <1>4 DEF Starts, DriveOK
<1> HIDE DEF entry
<1>6. \A y \in Ids : Exists(y)' <=> Exists(y) \/ y = x
  BY <1>3, <1>5 DEF Exists
<1>7. \A y \in Ids \ {x} : drive'[y] = drive[y]
  BY <1>5
<1>8. \A y \in There : PathOf'[y] = PathOf[y]
  <2>1. \A y \in There \ {Root} : y \in Ids \ {x}
    BY <1>1, ThereFacts
  <2>2. There \subseteq There'
    BY <1>6 DEF There
  <2>3. /\ IsTree(drive, There) /\ Climbs(PathOf, drive, There)
        /\ Climbs(PathOf', drive', There')
    BY DEF Typed
  <2> QED BY <2>1, <2>2, <2>3, <1>7, PathsAgree
<1>9. ASSUME NEW y \in Ids \ {x}, Exists(y)'
      PROVE  Placed(y)'
  <2>1. Exists(y) /\ drive'[y] = drive[y] /\ PathOf'[y] = PathOf[y]
    BY <1>6, <1>7, <1>8, <1>9 DEF There
  <2>2. Placed(y)
    BY <2>1 DEF AtEase
  <2> QED BY <2>1, <2>2, <1>5 DEF Placed, Held, OnDisk, Holds
<1>10. Clean'
  <2>1. ASSUME NEW p \in DOMAIN disk, p # Top
        PROVE  \E y \in Ids : Exists(y)' /\ p = PathOf'[y]
    <3>1. PICK y \in Ids : Exists(y) /\ p = PathOf[y]
      BY <2>1 DEF AtEase, Clean
    <3> QED BY <3>1, <1>6, <1>8 DEF There
  <2> QED BY <2>1, <1>5 DEF Clean
<1>11. CacheAs(PathOf, {})'
  <2>1. ASSUME NEW f \in Folders, cache[f] # Nothing
        PROVE  Exists(f)' /\ cache[f] = PathOf'[f] /\ cache[drive'[f].parent] # Nothing
    <3>1. Exists(f) /\ cache[f] = PathOf[f] /\ cache[drive[f].parent] # Nothing /\ f \in Ids
      BY <2>1 DEF AtEase, CacheAs, Ids
    <3> QED BY <3>1, <1>1, <1>6, <1>7, <1>8 DEF There
  <2> QED BY <2>1, <1>5 DEF CacheAs
<1>12. rows'[x] = Nothing
  BY <1>1, <1>5 DEF Typed
<1>13. Coming(x)'
  <2>1. Exists(x)' /\ Reported' \subseteq {x} /\ x \in Reported' /\ \A job \in PendingJobs' : FALSE
    BY <1>5, <1>6
  <2> QED BY <2>1, <1>9, <1>10, <1>11, <1>12 DEF Coming
<1> QED BY <1>13 DEF OnItsWay

\* Something edited is coming.
LEMMA TouchComes ==
    ASSUME IInv, Typed, Typed', AtRest, AtEase, NEW x \in Ids, Touch(x)
    PROVE  OnItsWay'
<1> DEFINE entry == [drive[x] EXCEPT !.rev = @ + 1]
<1>1. x \in Files /\ x \notin Folders /\ Exists(x) /\ Change(x, entry, {x})
  BY DEF Touch, Typed
<1>2. PICK K \in SUBSET (1..named) : DriveOK(K)
  BY DEF IInv, Named
<1>3. /\ entry.parent = drive[x].parent /\ entry.name = drive[x].name
      /\ entry \in [parent : Folders \cup {Root}, name : Nat, rev : Nat]
  <2>1. drive[x] \in [parent : Folders \cup {Root}, name : 1..named, rev : Nat] /\ named \in Nat
    BY <1>1, <1>2, EntryFacts, FolderSyncAssumption DEF Entries, IInv
  <2>2. \A a \in [parent : Folders \cup {Root}, name : 1..named, rev : Nat] :
          LET b == [a EXCEPT !.rev = @ + 1] IN
          /\ b.parent = a.parent /\ b.name = a.name
          /\ b \in [parent : Folders \cup {Root}, name : 1..named, rev : Nat]
    OBVIOUS
  <2>3. \A b \in [parent : Folders \cup {Root}, name : 1..named, rev : Nat] :
          b \in [parent : Folders \cup {Root}, name : Nat, rev : Nat]
    BY <2>1
  <2> QED BY <2>1, <2>2, <2>3
<1> HIDE DEF entry
<1>4. entry # Nothing
  BY <1>3, FolderSyncAssumption
<1>5. /\ drive' = [drive EXCEPT ![x] = entry] /\ DOMAIN drive = Ids
      /\ Reported' = {x} /\ PendingJobs' = {} /\ delta' = {}
      /\ cache' = cache /\ rows' = rows /\ disk' = disk
  BY <1>1, <1>2, <1>4, ChangeStarts DEF Starts, DriveOK
<1>6. \A y \in Ids : Exists(y)' <=> Exists(y)
  BY <1>1, <1>4, <1>5 DEF Exists
<1>7. /\ \A y \in Ids \ {x} : drive'[y] = drive[y]
      /\ \A y \in Ids : drive'[y].parent = drive[y].parent /\ drive'[y].name = drive[y].name
  BY <1>3, <1>5
<1>8. \A y \in There : PathOf'[y] = PathOf[y]
  <2>1. \A y \in There \ {Root} : y \in Ids
    BY ThereFacts
  <2>2. There \subseteq There'
    BY <1>6 DEF There
  <2>3. /\ IsTree(drive, There) /\ Climbs(PathOf, drive, There)
        /\ Climbs(PathOf', drive', There')
    BY DEF Typed
  <2> QED BY <2>1, <2>2, <2>3, <1>7, PathsAgree
<1>9. ASSUME NEW y \in Ids \ {x}, Exists(y)'
      PROVE  Placed(y)'
  <2>1. Exists(y) /\ drive'[y] = drive[y] /\ PathOf'[y] = PathOf[y]
    BY <1>6, <1>7, <1>8, <1>9 DEF There
  <2>2. Placed(y)
    BY <2>1 DEF AtEase
  <2> QED BY <2>1, <2>2, <1>5 DEF Placed, Held, OnDisk, Holds
<1>10. Clean'
  <2>1. ASSUME NEW p \in DOMAIN disk, p # Top
        PROVE  \E y \in Ids : Exists(y)' /\ p = PathOf'[y]
    <3>1. PICK y \in Ids : Exists(y) /\ p = PathOf[y]
      BY <2>1 DEF AtEase, Clean
    <3> QED BY <3>1, <1>6, <1>8 DEF There
  <2> QED BY <2>1, <1>5 DEF Clean
<1>11. CacheAs(PathOf, {})'
  <2>1. ASSUME NEW f \in Folders, cache[f] # Nothing
        PROVE  Exists(f)' /\ cache[f] = PathOf'[f] /\ cache[drive'[f].parent] # Nothing
    <3>1. Exists(f) /\ cache[f] = PathOf[f] /\ cache[drive[f].parent] # Nothing /\ f \in Ids
      BY <2>1 DEF AtEase, CacheAs, Ids
    <3> QED BY <3>1, <1>6, <1>7, <1>8 DEF There
  <2> QED BY <2>1, <1>5 DEF CacheAs
<1>12. HasRow(x)'
  <2>1. Placed(x) /\ PathOf'[x] = PathOf[x]
    BY <1>1, <1>8 DEF AtEase, There
  <2>2. /\ rows'[x].path = PathOf'[x] /\ PathOf'[x] \in DOMAIN disk'
        /\ disk'[PathOf'[x]] = [id |-> x, rev |-> rows'[x].rev]
    BY <2>1, <1>1, <1>5 DEF Placed, Held, OnDisk, Holds
  <2> QED BY <2>2, <1>1, <1>5 DEF HasRow, OnDisk, Holds
<1>13. Coming(x)'
  <2>1. Exists(x)' /\ Reported' \subseteq {x} /\ x \in Reported' /\ \A job \in PendingJobs' : FALSE
    BY <1>1, <1>5, <1>6
  <2> QED BY <2>1, <1>9, <1>10, <1>11, <1>12 DEF Coming
<1> QED BY <1>13 DEF OnItsWay

\* What has a path below that of x is below x.
LEMMA PrefixAbove ==
    ASSUME IInv, Typed, NEW x \in Ids, Exists(x), NEW z \in There, IsPrefix(PathOf[x], PathOf[z])
    PROVE  z = x \/ x \in Above[z]
<1> DEFINE S == {y \in There : IsPrefix(PathOf[x], PathOf[y]) /\ y # x /\ x \notin Above[y]}
<1>1. SUFFICES ASSUME S # {} PROVE FALSE
  OBVIOUS
<1>2. \A y \in There : Above[y] = AboveAs(y, Above)
  BY AboveIs DEF IInv, Named
<1>3. /\ IsTree(drive, There) /\ Climbs(PathOf, drive, There) /\ x \in There /\ x # Root
      /\ PathOf[Root] = Top /\ PathOf[x] # Top /\ PathOf[x] \in Seq(Nat)
  BY ThereFacts DEF Typed
<1>4. Root \notin S
  BY <1>3, TopPrefix
<1>5. PICK y \in S : drive[y].parent \notin S
  BY <1>1, <1>3, <1>4 DEF IsTree
<1>6. y \in There \ {Root} /\ IsPrefix(PathOf[x], PathOf[y]) /\ y # x /\ x \notin Above[y]
  BY <1>4, <1>5
<1> DEFINE p == drive[y].parent
<1>7. PathOf[x] # PathOf[y]
  BY <1>3, <1>6, ThereFacts
<1>8. p \in There /\ IsPrefix(PathOf[x], PathOf[p])
  BY <1>3, <1>6, <1>7, ChainUp
<1>9. p # Root
  BY <1>3, <1>8, TopPrefix
<1>10. p = x \/ x \in Above[p]
  BY <1>5, <1>8
<1>11. Above[y] = {p} \cup Above[p]
  BY <1>2, <1>6, <1>9 DEF AboveAs
<1> QED BY <1>6, <1>10, <1>11

\* ... and the other way.
LEMMA AbovePrefix ==
    ASSUME IInv, Typed, NEW x \in Ids, Exists(x), NEW z \in There, x \in Above[z]
    PROVE  IsPrefix(PathOf[x], PathOf[z])
<1> DEFINE S == {y \in There : x \in Above[y] /\ ~IsPrefix(PathOf[x], PathOf[y])}
<1>1. SUFFICES ASSUME S # {} PROVE FALSE
  OBVIOUS
<1>2. \A y \in There : Above[y] = AboveAs(y, Above)
  BY AboveIs DEF IInv, Named
<1>3. /\ IsTree(drive, There) /\ Climbs(PathOf, drive, There) /\ x \in There /\ Root \in There
      /\ \A y \in There : PathOf[y] \in Seq(Nat)
  BY ThereFacts DEF Typed, There
<1>4. Root \notin S
  BY <1>2, <1>3 DEF AboveAs
<1>5. PICK y \in S : drive[y].parent \notin S
  BY <1>1, <1>3, <1>4 DEF IsTree
<1>6. y \in There \ {Root} /\ x \in Above[y] /\ ~IsPrefix(PathOf[x], PathOf[y])
  BY <1>4, <1>5
<1> DEFINE p == drive[y].parent
<1>7. p \in There /\ Above[y] = {p} \cup Above[p]
  BY <1>2, <1>3, <1>6 DEF AboveAs, IsTree
<1>8. IsPrefix(PathOf[x], PathOf[p])
  <2>1. CASE p = x
    BY <2>1, <1>3, PrefixChain
  <2>2. CASE x \in Above[p]
    BY <2>2, <1>5, <1>7
  <2> QED BY <2>1, <2>2, <1>6, <1>7
<1>9. IsPrefix(PathOf[p], PathOf[y])
  <2>1. /\ Len(PathOf[y]) = Len(PathOf[p]) + 1 /\ Len(PathOf[p]) \in Nat
        /\ \A i \in 1..Len(PathOf[p]) : PathOf[y][i] = PathOf[p][i]
    BY <1>3, <1>6, <1>7, ClimbFacts
  <2>2. PathOf[p] \in Seq(Nat) /\ PathOf[y] \in Seq(Nat) /\ Len(PathOf[p]) <= Len(PathOf[y])
    BY <2>1, <1>3, <1>6, <1>7
  <2> HIDE DEF p
  <2> QED BY <2>1, <2>2, PrefixFacts
<1> HIDE DEF p
<1> QED BY <1>3, <1>6, <1>7, <1>8, <1>9, PrefixChain

\* Something renamed or moved is moving.
LEMMA RelocateMoves ==
    ASSUME IInv, Typed, Typed', AtRest, AtEase, ~stale', NEW x \in Ids, NEW in, Relocate(x, in)
    PROVE  OnItsWay'
<1> DEFINE m == IF in = drive[x].parent THEN named + 1 ELSE drive[x].name
           entry == [drive[x] EXCEPT !.parent = in, !.name = m]
<1>1. Exists(x) /\ Place(in) /\ in # x /\ (in # Root => x \notin Above[in])
  BY DEF Relocate
<1>2. PICK reported \in SUBSET ({x} \cup Below(x)) : Change(x, entry, reported) /\ ~Misleads(x, reported)
  <2>1. \A r : [drive[x] EXCEPT !.parent = in, !.name = IF in = drive[x].parent THEN named + 1 ELSE @] = entry
    OBVIOUS
  <2> QED BY <2>1 DEF Relocate
<1>3. PICK K \in SUBSET (1..named) : DriveOK(K) /\ named \in Nat
  BY FolderSyncAssumption DEF IInv, Named
<1>4. drive[x] \in [parent : Folders \cup {Root}, name : 1..named, rev : Nat]
  BY <1>1, <1>3, EntryFacts DEF Entries
<1>5. in \in Folders \cup {Root} /\ m \in Nat
  BY <1>1, <1>3, <1>4 DEF Place
<1> HIDE DEF m
<1>6. /\ entry \in [parent : Folders \cup {Root}, name : Nat, rev : Nat]
      /\ entry.parent = in /\ entry.name = m /\ entry.rev = drive[x].rev
  <2>1. \A a \in [parent : Folders \cup {Root}, name : 1..named, rev : Nat] :
          LET b == [a EXCEPT !.parent = in, !.name = m] IN
          /\ b.parent = in /\ b.name = m /\ b.rev = a.rev
          /\ b \in [parent : Folders \cup {Root}, name : Nat, rev : Nat]
    BY <1>5
  <2> QED BY <2>1, <1>4
<1> HIDE DEF entry
<1>7. entry # Nothing
  BY <1>6, FolderSyncAssumption
<1>8. /\ drive' = [drive EXCEPT ![x] = entry] /\ DOMAIN drive = Ids
      /\ Reported' = reported /\ PendingJobs' = {} /\ delta' = {}
      /\ cache' = cache /\ rows' = rows /\ disk' = disk
  BY <1>2, <1>3, <1>7, ChangeStarts DEF Starts, DriveOK
<1>9. There' = There /\ \A y \in Ids : Exists(y)' <=> Exists(y)
  BY <1>1, <1>7, <1>8 DEF Exists, There
<1>10. /\ drive'[x].parent = in /\ drive'[x].name = m /\ drive'[x].rev = drive[x].rev
       /\ \A y \in Ids \ {x} : drive'[y] = drive[y]
  BY <1>6, <1>8
<1>11. PICK o : o = PathOf
  OBVIOUS
<1>12. PICK n : n = PathOf'
  OBVIOUS
<1>13. /\ IsTree(drive, There) /\ Climbs(o, drive, There) /\ x \in There \ {Root} /\ Root \in There
       /\ IsTree(drive', There) /\ Climbs(n, drive', There) /\ in \in There
       /\ \A y \in There \ {Root} : y \in Ids
       /\ o[Root] = Top /\ o[x] # Top /\ \A y \in There : o[y] \in Seq(Nat)
  BY <1>1, <1>9, <1>11, <1>12, ThereFacts DEF Typed, Places, Place, There, Ids
<1>14. TripIs(x, o, n, drive', There)
  <2>1. \A y \in There \ {Root, x} : drive'[y].parent = drive[y].parent /\ drive'[y].name = drive[y].name
    BY <1>10, <1>13
  <2>2. ~IsPrefix(o[x], o[in])
    <3>1. CASE in = Root
      BY <3>1, <1>13, TopPrefix
    <3>2. CASE in # Root
      BY <3>2, <1>1, <1>11, <1>13, PrefixAbove
    <3> QED BY <3>1, <3>2
  <2>3. \/ in = drive[x].parent /\ m # drive[x].name
        \/ in # drive[x].parent /\ m = drive[x].name
    <3>1. drive[x].name \in 1..named
      BY <1>4
    <3>2. named + 1 \notin 1..named
      BY <1>3
    <3> QED BY <3>1, <3>2 DEF m
  <2> HIDE DEF entry
  <2> QED BY <2>1, <2>2, <2>3, <1>10, <1>13, TripMade
<1> DEFINE M == Strays(o, n, There)
<1>15. x \in M /\ M = {y \in There : o[y] # n[y]} /\ n[Root] = Top
  BY <1>14, <1>13 DEF TripIs, Strays, Climbs
<1>16. reported \subseteq M
  <2>1. ASSUME NEW y \in Below(x)
        PROVE  y \in M
    <3>1. y \in There /\ x \in Above[y]
      BY <2>1 DEF Below, There
    <3>2. IsPrefix(o[x], o[y])
      BY <3>1, <1>1, <1>11, AbovePrefix
    <3> QED BY <3>1, <3>2, <1>14, <1>15 DEF TripIs
  <2> QED BY <2>1, <1>15
<1>17. Moved(o)' = M
  BY <1>9, <1>12 DEF Moved
<1>18. \A y \in Ids : Exists(y) => Held(y)' /\ rows[y].path = o[y]
  <2> SUFFICES ASSUME NEW y \in Ids, Exists(y) PROVE Held(y)' /\ rows[y].path = o[y]
    OBVIOUS
  <2>1. Held(y) /\ rows[y].path = o[y]
    BY <1>11 DEF AtEase, Placed
  <2>2. drive'[y].rev = drive[y].rev
    BY <1>10
  <2> QED BY <2>1, <2>2, <1>8 DEF Held, Holds, OnDisk
<1>19. \A y \in M : y \in Ids /\ Exists(y)
  BY <1>13, <1>15, ThereFacts
<1>20. Halfway(x, o)'
  <2>1. \A y \in Ids : Exists(y)' => Held(y)' /\ rows'[y].path \in {o[y], PathOf'[y]}
    BY <1>8, <1>9, <1>18
  <2>2. \A w, z \in Moved(o)' : IsPrefix(o[w], o[z]) /\ rows'[w].path # o[w] => rows'[z].path # o[z]
    BY <1>8, <1>17, <1>18, <1>19
  <2>3. \A p \in DOMAIN disk' : p = Top \/ \E y \in Ids :
          Exists(y)' /\ (p = rows'[y].path \/ (y \in Folders /\ p = PathOf'[y]))
    <3>1. \A p \in DOMAIN disk : p = Top \/ \E y \in Ids : Exists(y) /\ p = o[y]
      BY <1>11 DEF AtEase, Clean
    <3> QED BY <3>1, <1>8, <1>9, <1>18
  <2> QED BY <2>1, <2>2, <2>3 DEF Halfway
<1>21. Renames(x, o)'
  BY <1>8 DEF Renames
<1>22. \A f \in Folders : cache[f] # Nothing =>
         /\ f \in Ids /\ Exists(f) /\ cache[f] = o[f] /\ cache[drive[f].parent] # Nothing
         /\ drive[f].parent \in Folders \cup {Root} /\ f \in There \ {Root}
  <2> SUFFICES ASSUME NEW f \in Folders, cache[f] # Nothing
               PROVE  /\ f \in Ids /\ Exists(f) /\ cache[f] = o[f] /\ cache[drive[f].parent] # Nothing
                      /\ drive[f].parent \in Folders \cup {Root} /\ f \in There \ {Root}
    OBVIOUS
  <2>1. f \in Ids /\ Exists(f) /\ cache[f] = o[f] /\ cache[drive[f].parent] # Nothing
    BY <1>11 DEF AtEase, CacheAs, Ids
  <2>2. drive[f].parent \in Folders \cup {Root} /\ f \in There \ {Root}
    BY <2>1, <1>3, EntryFacts, ThereFacts
  <2> QED BY <2>1, <2>2
<1>23. Informed(x, o)' \/ Unaware(x, o)'
  <2>1. CASE x \in Folders /\ cache[x] # Nothing
    <3>1. x \in reported
      BY <2>1, <1>2 DEF Misleads
    <3>2. CacheAs(o, {x})'
      <4>1. \A f \in Folders : cache'[f] # Nothing =>
              Exists(f)' /\ cache'[f] = o[f] /\ (f \notin {x} => cache'[drive'[f].parent] # Nothing)
        BY <1>8, <1>9, <1>10, <1>22
      <4> QED BY <4>1 DEF CacheAs
    <3>3. \A y \in Moved(o)' : rows'[y].path = o[y]
      BY <1>8, <1>17, <1>18, <1>19
    <3> QED BY <2>1, <3>1, <3>2, <3>3, <1>8 DEF Unaware
  <2>2. CASE ~(x \in Folders /\ cache[x] # Nothing)
    <3>1. \A f \in Folders : cache[f] # Nothing => o[f] = n[f]
      <4> DEFINE S == {f \in Folders : cache[f] # Nothing /\ o[f] # n[f]}
      <4>1. SUFFICES ASSUME S # {} PROVE FALSE
        OBVIOUS
      <4>2. S \in SUBSET (There \ {Root})
        BY <1>22
      <4>3. PICK f \in S : drive[f].parent \notin S
        BY <4>1, <4>2, <1>13 DEF IsTree
      <4>4. f \in Folders /\ cache[f] # Nothing /\ o[f] # n[f] /\ f # x
        BY <2>2, <4>3
      <4>5. f \in There \ {Root} /\ f \in Ids /\ drive'[f] = drive[f]
        BY <4>4, <1>10, <1>22
      <4>6. o[drive[f].parent] = n[drive[f].parent]
        BY <4>3, <4>4, <1>13, <1>15, <1>22
      <4> QED BY <4>4, <4>5, <4>6, <1>13 DEF Climbs
    <3>2. CacheAs(PathOf, {})'
      <4>1. \A f \in Folders : cache'[f] # Nothing =>
              Exists(f)' /\ cache'[f] = PathOf'[f] /\ cache'[drive'[f].parent] # Nothing
        BY <2>2, <3>1, <1>8, <1>9, <1>10, <1>12, <1>22
      <4> QED BY <4>1 DEF CacheAs
    <3>3. x \in reported \/ \E y \in reported \cap Files : drive'[y].parent = x /\ rows[y].path = o[y]
      <4> SUFFICES ASSUME x \notin reported
                   PROVE  \E y \in reported \cap Files : drive'[y].parent = x /\ rows[y].path = o[y]
        OBVIOUS
      <4>1. PICK y \in reported \cap Files : drive[y].parent = x
        BY <1>2 DEF Misleads
      <4>2. y # x /\ y \in Ids /\ Exists(y)
        BY <4>1, <1>16, <1>19
      <4> QED BY <4>1, <4>2, <1>10, <1>18
    <3>4. Told(x, o)'
      BY <3>3, <1>8 DEF Told
    <3> QED BY <3>2, <3>4 DEF Informed
  <2> QED BY <2>1, <2>2
<1>24. Moving(x, o)'
  <2>1. TripIs(x, o, PathOf', drive', There') /\ Reported' \subseteq Moved(o)'
    BY <1>8, <1>9, <1>12, <1>14, <1>16, <1>17
  <2> HIDE DEF M
  <2> QED BY <2>1, <1>20, <1>21, <1>23 DEF Moving
<1> QED BY <1>24 DEF OnItsWay

-----------------------------------------------------------------------------
\* What the poller does, and retries and restarts.

PathSolves == PathOf = PathRec(drive, There)

\* The paths are those of the recursion along the parents.
LEMMA PathIsRec == PathSolves
BY DEF PathSolves, PathOf, PathRec, PathAs

\* ... and are after a step.
LEMMA PathIsRecNext == PathSolves'
BY PathIsRec, PTL

\* The daemon changes nothing on Drive.
LEMMA DriveStill ==
    ASSUME UNCHANGED remote
    PROVE  /\ drive' = drive /\ There' = There /\ PathOf' = PathOf /\ Places' = Places
           /\ \A y : Exists(y)' <=> Exists(y)
           /\ \A o : Moved(o)' = Moved(o)
           /\ Apart => Apart'
<1>1. drive' = drive
  BY DEF remote
<1>2. There' = There /\ (\A y : Exists(y)' <=> Exists(y)) /\ Places' = Places
  BY <1>1 DEF Exists, There, Place, Places
<1>3. PathOf = PathRec(drive, There) /\ PathOf' = PathRec(drive', There')
  BY PathIsRec, PathIsRecNext DEF PathSolves
<1>4. PathOf' = PathOf
  BY <1>1, <1>2, <1>3
<1>5. \A o : Moved(o)' = Moved(o)
  BY <1>2, <1>4 DEF Moved
<1> QED BY <1>1, <1>2, <1>4, <1>5 DEF Apart

\* What was moved is moving still if the rows and the disk are as they were.
LEMMA MovingStill ==
    ASSUME UNCHANGED remote, rows' = rows, disk' = disk,
           NEW x, NEW o, Moving(x, o), Reported' \subseteq Reported, Renames(x, o)',
           Informed(x, o)' \/ Unaware(x, o)'
    PROVE  Moving(x, o)'
<1>1. /\ drive' = drive /\ There' = There /\ PathOf' = PathOf
      /\ \A y : Exists(y)' <=> Exists(y)
      /\ Moved(o)' = Moved(o)
  BY DriveStill
<1>2. TripIs(x, o, PathOf', drive', There') /\ Reported' \subseteq Moved(o)'
  BY <1>1 DEF Moving
<1>3. Halfway(x, o)'
  <2>1. \A y : Held(y) => Held(y)'
    BY <1>1 DEF Held, Holds, OnDisk
  <2> QED BY <1>1, <2>1 DEF Moving, Halfway
<1> QED BY <1>2, <1>3 DEF Moving

\* What was in place is in place still.
LEMMA PlacedStill ==
    ASSUME UNCHANGED remote, rows' = rows, disk' = disk
    PROVE  (\A y : Placed(y) => Placed(y)') /\ (Clean => Clean')
<1>1. drive' = drive /\ PathOf' = PathOf /\ \A y : Exists(y)' <=> Exists(y)
  BY DriveStill
<1> QED BY <1>1 DEF Placed, Held, Holds, OnDisk, Clean

\* A change goes on its way whether the cache is kept or lost.
LEMMA QuietSteps ==
    ASSUME OnItsWay, UNCHANGED remote, rows' = rows, disk' = disk,
           Reported' = Reported, PendingJobs' = PendingJobs,
           cache' = cache \/ \A f \in Folders : cache'[f] = Nothing
    PROVE  OnItsWay'
<1>1. /\ drive' = drive /\ There' = There /\ PathOf' = PathOf
      /\ \A y : Exists(y)' <=> Exists(y)
      /\ \A o : Moved(o)' = Moved(o)
  BY DriveStill
<1>2. \A q, X : CacheAs(q, X) => /\ cache' = cache => CacheAs(q, X)'
                                 /\ (\A f \in Folders : cache'[f] = Nothing) => CacheAs(q, X)'
  BY <1>1 DEF CacheAs
<1>3. CacheAs(PathOf, {}) => CacheAs(PathOf, {})'
  BY <1>1 DEF CacheAs
<1>4. (\A f \in Folders : cache'[f] = Nothing) => CacheAs(PathOf, {})'
  BY DEF CacheAs
<1>5. ASSUME AtEase
      PROVE  AtEase'
  BY <1>1, <1>3, <1>5, PlacedStill DEF AtEase
<1>6. ASSUME NEW x \in Ids, Coming(x)
      PROVE  Coming(x)'
  <2>1. rows[x] # Nothing => HasRow(x)'
    BY <1>1, <1>6 DEF Coming, HasRow, OnDisk, Holds
  <2> QED BY <1>1, <1>3, <1>6, <2>1, PlacedStill DEF Coming
<1>7. ASSUME NEW x \in Ids, NEW o, Moving(x, o)
      PROVE  Moving(x, o)'
  <2>1. Renames(x, o)'
    BY <1>1, <1>7 DEF Moving, Renames
  <2>2. Informed(x, o) => Informed(x, o)'
    <3>1. Told(x, o) => Told(x, o)'
      BY <1>1 DEF Told
    <3> QED BY <1>3, <3>1 DEF Informed
  <2>3. Unaware(x, o) => Informed(x, o)' \/ Unaware(x, o)'
    <3> SUFFICES ASSUME Unaware(x, o) PROVE Informed(x, o)' \/ Unaware(x, o)'
      OBVIOUS
    <3>1. CASE cache' = cache
      <4>1. CacheAs(o, {x})'
        BY <1>2, <3>1 DEF Unaware
      <4> QED BY <1>1, <3>1, <4>1 DEF Unaware
    <3>2. CASE \A f \in Folders : cache'[f] = Nothing
      BY <1>4, <3>2 DEF Unaware, Informed, Told
    <3> QED BY <3>1, <3>2
  <2>4. Informed(x, o)' \/ Unaware(x, o)'
    BY <1>7, <2>2, <2>3 DEF Moving
  <2> QED BY <1>7, <2>1, <2>4, MovingStill
<1> QED BY <1>5, <1>6, <1>7 DEF OnItsWay

\* What was fetched, put off or is fetched again is under way still.
LEMMA QuietGoes ==
    ASSUME Typed, Current, OnItsWay,
           \/ \E ids \in SUBSET changed : Fetch(ids)
           \/ \E job \in waiting : DueAgain(job)
           \/ ExecuteFails \/ Restart
    PROVE  OnItsWay' /\ Current'
<1>0. UNCHANGED remote
  BY DEF Fetch, DueAgain, ExecuteFails, Restart
<1>1. Reported' = changed' \cup {s.id : s \in delta'} /\ PendingJobs' = ToSet(ops') \cup waiting'
  BY DEF Reported, PendingJobs
<1>2. drive' = drive
  BY <1>0, DriveStill
<1>3. ASSUME NEW ids \in SUBSET changed, Fetch(ids)
      PROVE  OnItsWay' /\ Current'
  <2>1. /\ delta = {} /\ changed' = changed \ ids /\ cache' = cache /\ rows' = rows /\ disk' = disk
        /\ ops' = ops /\ waiting' = waiting
        /\ delta' = {[id |-> x, parent |-> drive[x].parent,
                      name |-> drive[x].name, rev |-> drive[x].rev] : x \in ids}
    BY <1>3 DEF Fetch, local
  <2>2. {s.id : s \in delta'} = ids
    <3>1. \A s \in delta' : s.id \in ids
      BY <2>1
    <3>2. \A x \in ids : \E s \in delta' : s.id = x
      <4> SUFFICES ASSUME NEW x \in ids PROVE \E s \in delta' : s.id = x
        OBVIOUS
      <4> DEFINE t == [id |-> x, parent |-> drive[x].parent, name |-> drive[x].name, rev |-> drive[x].rev]
      <4>1. t \in delta' /\ t.id = x
        BY <2>1
      <4> QED BY <4>1
    <3> QED BY <3>1, <3>2
  <2>3. Reported' = Reported /\ PendingJobs' = PendingJobs
    <3>1. {s.id : s \in delta} = {}
      BY <2>1
    <3> QED BY <2>1, <2>2, <1>1, <3>1 DEF Reported, PendingJobs
  <2>4. Current'
    BY <2>1, <1>2 DEF Current
  <2> QED BY <1>0, <2>1, <2>3, <2>4, QuietSteps
<1>4. ASSUME NEW job \in waiting, DueAgain(job)
      PROVE  OnItsWay' /\ Current'
  <2>1. /\ changed' = changed /\ delta' = delta /\ cache' = cache /\ rows' = rows /\ disk' = disk
        /\ ops' = Append(ops, job) /\ waiting' = waiting \ {job}
    BY <1>4 DEF DueAgain, feed
  <2>2. ToSet(ops') = ToSet(ops) \cup {job}
    BY <2>1, AppendSet DEF Typed
  <2>3. Reported' = Reported /\ PendingJobs' = PendingJobs
    BY <2>1, <2>2, <1>1 DEF Reported, PendingJobs
  <2>4. Current'
    BY <2>1, <1>2 DEF Current
  <2> QED BY <1>0, <2>1, <2>3, <2>4, QuietSteps
<1>5. ASSUME ExecuteFails
      PROVE  OnItsWay' /\ Current'
  <2>1. /\ changed' = changed /\ delta' = delta /\ cache' = cache /\ rows' = rows /\ disk' = disk
        /\ ops # <<>> /\ ops' = Tail(ops) /\ waiting' = waiting \cup {Head(ops)}
    BY <1>5 DEF ExecuteFails, feed
  <2>2. ToSet(ops) = {Head(ops)} \cup ToSet(Tail(ops))
    BY <2>1, TailSet DEF Typed
  <2>3. Reported' = Reported /\ PendingJobs' = PendingJobs
    BY <2>1, <2>2, <1>1 DEF Reported, PendingJobs
  <2>4. Current'
    BY <2>1, <1>2 DEF Current
  <2> QED BY <1>0, <2>1, <2>3, <2>4, QuietSteps
<1>6. ASSUME Restart
      PROVE  OnItsWay' /\ Current'
  <2>1. /\ changed' = changed \cup {s.id : s \in delta} /\ delta' = {} /\ rows' = rows /\ disk' = disk
        /\ ops' = ops /\ waiting' = waiting
        /\ \A f \in Folders : cache'[f] = Nothing
    BY <1>6 DEF Restart, local, Typed, Ids
  <2>2. {s.id : s \in delta'} = {}
    BY <2>1
  <2>3. Reported' = Reported /\ PendingJobs' = PendingJobs
    BY <2>1, <2>2, <1>1 DEF Reported, PendingJobs
  <2>4. Current'
    BY <2>1 DEF Current
  <2> QED BY <1>0, <2>1, <2>3, <2>4, QuietSteps
<1> QED BY <1>3, <1>4, <1>5, <1>6

-----------------------------------------------------------------------------
\* What the cache knows and learns.

\* Among the folders of P the cache has paths of q, and what it has not q has a name longer.
Steady(q, P) ==
    /\ P \subseteq Places
    /\ \A f \in P : /\ cache[f] # Nothing => cache[f] = q[f]
                    /\ cache[f] = Nothing => /\ drive[f].parent \in P
                                             /\ q[f] = Append(q[drive[f].parent], drive[f].name)

\* The walk up to the first folder in the cache finds the path.
LEMMA PrefixFinds ==
    ASSUME IInv, Typed, NEW q, NEW P, Steady(q, P)
    PROVE  \A f \in P : Prefix[f] = q[f]
<1> DEFINE S == {f \in P : Prefix[f] # q[f]}
<1>1. SUFFICES ASSUME S # {} PROVE FALSE
  OBVIOUS
<1>2. \A f \in Places : Prefix[f] = PrefixAs(f, Prefix)
  BY PrefixIs DEF IInv, Named
<1>3. \A f \in S : f \in P /\ f \in Places /\ cache[f] = Nothing
  BY <1>2 DEF Steady, PrefixAs
<1>4. \A f \in S : f \in Ids /\ Exists(f)
  <2>1. cache[Root] # Nothing
    BY DEF Typed
  <2> QED BY <2>1, <1>3, ThereFacts
<1>5. PICK f \in S : drive[f].parent \notin S
  BY <1>1, <1>4, GroundedAt DEF IInv
<1>6. /\ drive[f].parent \in P /\ q[f] = Append(q[drive[f].parent], drive[f].name)
      /\ Prefix[f] # q[f]
  BY <1>3, <1>5 DEF Steady
<1>7. Prefix[f] = Append(Prefix[drive[f].parent], drive[f].name)
  BY <1>2, <1>3, <1>5 DEF PrefixAs
<1>8. Prefix[drive[f].parent] = q[drive[f].parent]
  BY <1>5, <1>6
<1> QED BY <1>6, <1>7, <1>8

\* It passes by folders that are not in the cache, up to one that is in one that is.
LEMMA WalkPasses ==
    ASSUME IInv, Typed, NEW q, NEW P, Steady(q, P)
    PROVE  \A g \in P : /\ cache[g] = Nothing => g \in Walked[g]
                        /\ \A f \in Walked[g] :
                             /\ f \in P /\ f \in Folders /\ Exists(f) /\ cache[f] = Nothing
                             /\ cache[drive[f].parent] # Nothing \/ drive[f].parent \in Walked[g]
<1> DEFINE Ok(g) == \A f \in Walked[g] :
                      /\ f \in P /\ f \in Folders /\ Exists(f) /\ cache[f] = Nothing
                      /\ cache[drive[f].parent] # Nothing \/ drive[f].parent \in Walked[g]
           S == {g \in P : ~Ok(g)}
<1>0. P \subseteq Places
  BY DEF Steady
<1>1. \A g \in P : Walked[g] = WalkedAs(g, Walked)
  BY <1>0, PrefixIs DEF IInv, Named
<1>2. \A g \in P : cache[g] = Nothing => Walked[g] = {g} \cup Walked[drive[g].parent]
  BY <1>1 DEF WalkedAs
<1>3. \A g \in P : cache[g] # Nothing => Walked[g] = {}
  BY <1>1 DEF WalkedAs
<1>4. \A g \in P : cache[g] = Nothing => g \in Ids /\ g \in Folders /\ Exists(g) /\ drive[g].parent \in P
  <2>1. cache[Root] # Nothing
    BY DEF Typed
  <2> QED BY <2>1, <1>0, ThereFacts DEF Steady
<1>5. S = {}
  <2>1. SUFFICES ASSUME S # {} PROVE FALSE
    OBVIOUS
  <2>2. \A g \in S : g \in P /\ cache[g] = Nothing
    BY <1>3
  <2>3. \A g \in S : g \in Ids /\ Exists(g)
    BY <2>2, <1>4
  <2>4. PICK g \in S : drive[g].parent \notin S
    BY <2>1, <2>3, GroundedAt DEF IInv
  <2> DEFINE p == drive[g].parent
  <2>5. p \in P /\ Ok(p) /\ Walked[g] = {g} \cup Walked[p] /\ g \in P /\ cache[g] = Nothing
    BY <2>2, <2>4, <1>2, <1>4
  <2>6. cache[p] # Nothing \/ p \in Walked[p]
    BY <2>5, <1>2
  <2> HIDE DEF S
  <2>7. ASSUME NEW f \in Walked[g]
        PROVE  /\ f \in P /\ f \in Folders /\ Exists(f) /\ cache[f] = Nothing
               /\ cache[drive[f].parent] # Nothing \/ drive[f].parent \in Walked[g]
    BY <2>5, <2>6, <2>7, <1>4
  <2>8. Ok(g)
    BY <2>7
  <2> QED BY <2>4, <2>8 DEF S
<1> QED BY <1>2, <1>5

\* What a change resolves to, and what the cache learns from it.
LEMMA Remembers ==
    ASSUME IInv, Typed, Current, UNCHANGED remote, NEW s \in delta, Remember(s),
           NEW q, NEW X, NEW P, Steady(q, P), s.parent \in P,
           s.id \in Folders => q[s.id] = Append(q[s.parent], s.name),
           \A f \in Folders \ {s.id} : cache[f] # Nothing =>
             Exists(f) /\ cache[f] = q[f] /\ (f \notin X => cache[drive[f].parent] # Nothing)
    PROVE  Resolved(s) = Append(q[s.parent], s.name) /\ CacheAs(q, X)'
<1>1. drive' = drive /\ \A y : Exists(y)' <=> Exists(y)
  BY DriveStill
<1>2. Resolved(s) = Append(q[s.parent], s.name)
  BY PrefixFinds DEF Resolved
<1> DEFINE W == Walked[s.parent]
<1>3. cache' = [f \in Folders \cup {Root} |->
          IF f = s.id THEN Resolved(s) ELSE IF f \in W THEN Prefix[f] ELSE cache[f]]
  BY DEF Remember
<1>4. /\ cache[s.parent] = Nothing => s.parent \in W
      /\ \A f \in W : /\ f \in P /\ f \in Folders /\ Exists(f) /\ cache[f] = Nothing
                      /\ cache[drive[f].parent] # Nothing \/ drive[f].parent \in W
  BY WalkPasses
<1> HIDE DEF W
<1>5. Exists(s.id) /\ drive[s.id].parent = s.parent /\ s.id \in Ids
  BY DEF Current, Typed
<1>6. \A f \in Folders \cup {Root} : cache[f] # Nothing \/ f \in W \/ f = s.id => cache'[f] # Nothing
  <2>1. PICK K \in SUBSET (1..named) : DriveOK(K) /\ FeedOK(K) /\ Grounded
    BY DEF IInv, Named
  <2>2. named \in 0..MaxChanges
    BY DEF IInv
  <2>3. Resolved(s) # Nothing
    BY <2>1, <2>2, ResolvedOK, Something DEF Paths
  <2>4. \A f \in W : Prefix[f] # Nothing
    <3> SUFFICES ASSUME NEW f \in W PROVE Prefix[f] # Nothing
      OBVIOUS
    <3>1. f \in Places /\ f # Root
      BY <1>4, FolderSyncAssumption DEF Steady, Ids
    <3>2. Prefix[f] \in Seq(1..named)
      BY <3>1, <2>1, PrefixOK DEF Paths
    <3> QED BY <3>2, <2>2, Something
  <2> QED BY <1>3, <2>3, <2>4
<1>7. \A f \in W : Prefix[f] = q[f]
  BY <1>4, PrefixFinds
<1>8. ASSUME NEW f \in Folders, cache'[f] # Nothing
      PROVE  Exists(f)' /\ cache'[f] = q[f] /\ (f \notin X => cache'[drive'[f].parent] # Nothing)
  <2>1. CASE f = s.id
    <3>1. s.parent \in Folders \cup {Root}
      BY DEF Steady, Places
    <3>2. cache'[s.parent] # Nothing
      BY <3>1, <1>4, <1>6
    <3> QED BY <2>1, <3>2, <1>1, <1>2, <1>3, <1>5
  <2>2. CASE f # s.id /\ f \in W
    <3>1. drive[f].parent \in Folders \cup {Root}
      BY <2>2, <1>4 DEF Typed, Places, Ids
    <3> QED BY <2>2, <3>1, <1>1, <1>3, <1>4, <1>6, <1>7
  <2>3. CASE f # s.id /\ f \notin W
    <3>1. cache[f] # Nothing
      BY <2>3, <1>3, <1>8
    <3>2. Exists(f) /\ cache[f] = q[f] /\ (f \notin X => cache[drive[f].parent] # Nothing)
      BY <2>3, <3>1
    <3>3. drive[f].parent \in Folders \cup {Root}
      BY <3>2 DEF Typed, Places, Ids
    <3> QED BY <2>3, <3>2, <3>3, <1>1, <1>3, <1>6
  <2> QED BY <2>1, <2>2, <2>3
<1> QED BY <1>2, <1>8 DEF CacheAs

\* With the paths of Drive in the cache, a change resolves to the path it has, and they stay.
LEMMA RemembersPaths ==
    ASSUME IInv, Typed, Current, UNCHANGED remote, NEW s \in delta, Remember(s), CacheAs(PathOf, {})
    PROVE  Resolved(s) = PathOf[s.id] /\ CacheAs(PathOf, {})'
<1>1. s.id \in Ids /\ Exists(s.id) /\ s.parent = drive[s.id].parent /\ s.name = drive[s.id].name
  BY DEF Current, Typed
<1>2. s.parent \in Places /\ PathOf[s.id] = Append(PathOf[s.parent], s.name)
  BY <1>1, ThereFacts
<1>3. Steady(PathOf, Places)
  <2> SUFFICES ASSUME NEW f \in Places
               PROVE  /\ cache[f] # Nothing => cache[f] = PathOf[f]
                      /\ cache[f] = Nothing =>
                           /\ drive[f].parent \in Places
                           /\ PathOf[f] = Append(PathOf[drive[f].parent], drive[f].name)
    BY DEF Steady
  <2>1. CASE f = Root
    BY <2>1, ThereFacts DEF Typed
  <2>2. CASE f # Root
    BY <2>2, ThereFacts DEF CacheAs
  <2> QED BY <2>1, <2>2
<1>4. \E q : q = PathOf
  OBVIOUS
<1>5. PICK q : q = PathOf
  BY <1>4
<1>6. Steady(q, Places) /\ q[s.id] = Append(q[s.parent], s.name)
  BY <1>2, <1>3, <1>5
<1>7. \A f \in Folders \ {s.id} : cache[f] # Nothing =>
        Exists(f) /\ cache[f] = q[f] /\ (f \notin {} => cache[drive[f].parent] # Nothing)
  BY <1>5 DEF CacheAs
<1>8. Resolved(s) = Append(q[s.parent], s.name) /\ CacheAs(q, {})'
  BY <1>2, <1>6, <1>7, Remembers
<1>9. PathOf' = PathOf
  BY DriveStill
<1> QED BY <1>2, <1>5, <1>8, <1>9 DEF CacheAs

-----------------------------------------------------------------------------
\* What the reconciler makes of a change.

\* What joins the queue.
LEMMA EnqueueAdds ==
    ASSUME Typed, waiting' = waiting, NEW jobs \in Seq(Jobs), Enqueue(jobs)
    PROVE  PendingJobs' = PendingJobs \cup ToSet(jobs)
<1>1. ToSet(ops') = ToSet(ops) \cup ToSet(jobs)
  BY ConcatSet DEF Enqueue, Typed
<1>2. PendingJobs' = ToSet(ops') \cup waiting'
  BY DEF PendingJobs
<1> QED BY <1>1, <1>2 DEF PendingJobs

\* What every change that is applied has in common.
LEMMA AppliedFacts ==
    ASSUME IInv, Typed, Current, NEW s \in delta, Apply(s)
    PROVE  /\ UNCHANGED remote /\ disk' = disk /\ waiting' = waiting /\ Remember(s) /\ Current'
           /\ s.id \in Ids /\ Exists(s.id) /\ s.parent = drive[s.id].parent /\ s.parent \in Places
           /\ s.name = drive[s.id].name /\ s.rev = drive[s.id].rev /\ s.rev \in Nat
           /\ s.id \in Reported /\ Reported' \subseteq Reported /\ Reported \subseteq Reported' \cup {s.id}
           /\ \A kind \in {"mkdir", "download", "rename"} : Job(kind, s.id, Resolved(s)) \in Jobs
           /\ Resolved(s) \in Seq(1..named)
<1>1. /\ UNCHANGED remote /\ disk' = disk /\ waiting' = waiting /\ Remember(s)
      /\ delta' = delta \ {s} /\ changed' = changed
  BY DEF Apply
<1>2. Current'
  <2>1. drive' = drive
    BY <1>1, DriveStill
  <2> QED BY <1>1, <2>1 DEF Current
<1>3. /\ s.id \in Ids /\ Exists(s.id) /\ s.parent = drive[s.id].parent /\ s.parent \in Places
      /\ s.name = drive[s.id].name /\ s.rev = drive[s.id].rev
  BY DEF Current, Typed
<1>4. Reported' = changed' \cup {t.id : t \in delta'}
  BY DEF Reported
<1>5. s.id \in Reported /\ Reported' \subseteq Reported /\ Reported \subseteq Reported' \cup {s.id}
  BY <1>1, <1>4 DEF Reported
<1>6. PICK K \in SUBSET (1..named) : DriveOK(K) /\ FeedOK(K) /\ Grounded
  BY DEF IInv, Named
<1>7. Resolved(s) \in Seq(1..named)
  BY <1>6, ResolvedOK DEF Paths
<1>8. \A kind \in {"mkdir", "download", "rename"} : Job(kind, s.id, Resolved(s)) \in Jobs
  BY <1>3, <1>7 DEF Job, Jobs
<1>9. s.rev \in Nat
  BY <1>3, <1>6, EntryFacts
<1> QED BY <1>1, <1>2, <1>3, <1>5, <1>7, <1>8, <1>9

\* The change of something new or edited.
LEMMA ApplyComes ==
    ASSUME IInv, Typed, Current, NEW s \in delta, Apply(s), NEW x \in Ids, Coming(x)
    PROVE  Coming(x)'
<1>1. /\ UNCHANGED remote /\ disk' = disk /\ waiting' = waiting /\ Remember(s)
      /\ s.rev = drive[s.id].rev /\ s.id \in Reported /\ Reported' \subseteq Reported
      /\ \A kind \in {"mkdir", "download", "rename"} : Job(kind, s.id, Resolved(s)) \in Jobs
      /\ Resolved(s) \in Seq(1..named) /\ s.rev \in Nat
  BY AppliedFacts
<1>2. /\ drive' = drive /\ PathOf' = PathOf
      /\ \A y : Exists(y)' <=> Exists(y)
  BY <1>1, DriveStill
<1>3. s.id = x
  BY <1>1 DEF Coming
<1>4. Resolved(s) = PathOf[x] /\ CacheAs(PathOf, {})'
  BY <1>1, <1>3, RemembersPaths DEF Coming
<1>5. /\ Exists(x) /\ Reported \subseteq {x} /\ Clean
      /\ \A y \in Ids \ {x} : Exists(y) => Placed(y)
      /\ \A job \in PendingJobs : /\ job.id = x /\ job.path = PathOf[x]
                                  /\ job.kind = IF x \in Folders THEN "mkdir" ELSE "download"
      /\ rows[x] # Nothing => HasRow(x)
  BY DEF Coming
\* Only the row of x and the operations on it may have changed.
<1>6. ASSUME \A y \in Ids \ {x} : rows'[y] = rows[y], rows'[x] # Nothing, HasRow(x)',
             NEW jobs \in Seq(Jobs), Enqueue(jobs),
             \A job \in ToSet(jobs) : /\ job.id = x /\ job.path = PathOf[x]
                                      /\ job.kind = IF x \in Folders THEN "mkdir" ELSE "download"
      PROVE  Coming(x)'
  <2>1. PendingJobs' = PendingJobs \cup ToSet(jobs)
    BY <1>1, <1>6, EnqueueAdds
  <2>2. \A y \in Ids \ {x} : Exists(y)' => Placed(y)'
    <3>1. \A y \in Ids \ {x} : Placed(y) => Placed(y)'
      BY <1>1, <1>2, <1>6 DEF Placed, Held, Holds, OnDisk
    <3> QED BY <3>1, <1>2, <1>5
  <2>3. Clean'
    BY <1>1, <1>2, <1>5 DEF Clean
  <2> QED BY <1>1, <1>2, <1>4, <1>5, <1>6, <2>1, <2>2, <2>3 DEF Coming
<1> DEFINE kind == IF x \in Folders THEN "mkdir" ELSE "download"
           job == Job(kind, x, PathOf[x])
<1>7. job \in Jobs /\ job.id = x /\ job.path = PathOf[x] /\ job.kind = kind
  BY <1>1, <1>3, <1>4 DEF Job
<1>8. /\ <<>> \in Seq(Jobs) /\ ToSet(<<>>) = {}
      /\ <<job>> \in Seq(Jobs) /\ ToSet(<<job>>) = {job}
  BY <1>7, FewJobs
<1>9. CASE NewObject(s, PathOf[x])
  <2>1. RowAt(PathOf[x]) = {}
    <3>1. ASSUME NEW y \in Ids, rows[y] # Nothing, rows[y].path = PathOf[x]
          PROVE  FALSE
      <4>1. y # x /\ Exists(y)
        BY <1>3, <1>9, <3>1 DEF NewObject, Typed
      <4>2. PathOf[y] = PathOf[x]
        BY <4>1, <3>1, <1>5 DEF Placed
      <4> QED BY <4>1, <4>2, <1>5, ThereFacts
    <3> QED BY <3>1 DEF RowAt
  <2>2. rows' = [rows EXCEPT ![x] = [path |-> PathOf[x], rev |-> s.rev]] /\ Enqueue(<<job>>)
    BY <1>3, <1>9, <2>1 DEF NewObject
  <2>3. rows'[x] = [path |-> PathOf[x], rev |-> s.rev] /\ \A y \in Ids \ {x} : rows'[y] = rows[y]
    BY <2>2 DEF Typed
  <2>4. rows'[x] # Nothing /\ rows'[x].path = PathOf[x] /\ rows'[x].rev = drive[x].rev
    <3>1. rows'[x] \in [path : Seq(1..named), rev : Nat]
      BY <2>3, <1>1, <1>3, <1>4
    <3>2. named \in 0..MaxChanges
      BY DEF IInv
    <3> QED BY <2>3, <3>1, <3>2, <1>1, <1>3, Something
  <2>5. PendingJobs' # {}
    BY <2>2, <1>1, <1>8, EnqueueAdds
  <2>6. HasRow(x)'
    BY <2>4, <2>5, <1>2 DEF HasRow
  <2> HIDE DEF job
  <2>7. \A j \in ToSet(<<job>>) : /\ j.id = x /\ j.path = PathOf[x]
                                  /\ j.kind = IF x \in Folders THEN "mkdir" ELSE "download"
    BY <1>7, <1>8
  <2> QED BY <2>2, <2>3, <2>4, <2>6, <2>7, <1>6, <1>8
<1>10. ASSUME rows[x] # Nothing, rows' = rows, Enqueue(<<>>),
              PendingJobs # {} \/ rows[x].rev = drive[x].rev
       PROVE  Coming(x)'
  <2>1. PendingJobs' = PendingJobs
    BY <1>1, <1>8, <1>10, EnqueueAdds
  <2>2. HasRow(x)'
    BY <1>1, <1>2, <1>5, <1>10, <2>1 DEF HasRow, OnDisk, Holds
  <2> QED BY <1>6, <1>8, <1>10, <2>2
<1>11. CASE FolderMoved(s, PathOf[x])
  <2>1. /\ x \in Folders /\ rows[x] # Nothing /\ rows' = rows
        /\ Enqueue(IF rows[x].path = PathOf[x] THEN <<>> ELSE <<Job("rename", x, PathOf[x])>>)
    BY <1>3, <1>11 DEF FolderMoved
  <2>2. rows[x].path = PathOf[x] /\ rows[x].rev = drive[x].rev
    BY <1>5, <2>1 DEF HasRow
  <2>3. Enqueue(<<>>)
    BY <2>1, <2>2
  <2> QED BY <1>10, <2>1, <2>2, <2>3
<1>12. CASE FileMoved(s, PathOf[x])
  <2>1. rows[x] # Nothing /\ rows[x].path # PathOf[x]
    BY <1>3, <1>12 DEF FileMoved
  <2> QED BY <1>5, <2>1 DEF HasRow
<1>13. CASE FileEdited(s, PathOf[x])
  <2>1. /\ x \in Files /\ x \notin Folders /\ rows[x] # Nothing /\ rows' = rows
        /\ Enqueue(IF rows[x].rev = s.rev \/ Holds(PathOf[x], x, s.rev)
                     THEN <<>> ELSE <<Job("download", x, PathOf[x])>>)
    BY <1>3, <1>13 DEF FileEdited, Typed
  <2>2. HasRow(x)
    BY <1>5, <2>1
  <2>3. CASE rows[x].rev = s.rev \/ Holds(PathOf[x], x, s.rev)
    <3>1. Enqueue(<<>>)
      BY <2>1, <2>3
    <3>2. PendingJobs # {} \/ rows[x].rev = drive[x].rev
      <4> SUFFICES ASSUME PendingJobs = {}, Holds(PathOf[x], x, s.rev) PROVE rows[x].rev = drive[x].rev
        BY <2>3, <1>1, <1>3
      <4>1. Holds(PathOf[x], x, rows[x].rev)
        BY <2>1, <2>2 DEF HasRow
      <4>2. [id |-> x, rev |-> rows[x].rev] = [id |-> x, rev |-> s.rev]
        BY <4>1 DEF Holds
      <4>3. [id |-> x, rev |-> rows[x].rev].rev = [id |-> x, rev |-> s.rev].rev
        BY <4>2
      <4> QED BY <4>3, <1>1, <1>3
    <3> QED BY <1>10, <2>1, <3>1, <3>2
  <2>4. CASE ~(rows[x].rev = s.rev \/ Holds(PathOf[x], x, s.rev))
    <3>1. Enqueue(<<job>>)
      BY <2>1, <2>4
    <3>2. PendingJobs' # {}
      BY <3>1, <1>1, <1>8, EnqueueAdds
    <3>3. HasRow(x)'
      BY <1>1, <1>2, <2>1, <2>2, <3>2 DEF HasRow
    <3> HIDE DEF job
    <3>4. \A j \in ToSet(<<job>>) : /\ j.id = x /\ j.path = PathOf[x]
                                    /\ j.kind = IF x \in Folders THEN "mkdir" ELSE "download"
      BY <1>7, <1>8
    <3> QED BY <2>1, <3>1, <3>3, <3>4, <1>6, <1>8
  <2> QED BY <2>3, <2>4
<1>14. \/ NewObject(s, PathOf[x]) \/ FolderMoved(s, PathOf[x])
       \/ FileMoved(s, PathOf[x]) \/ FileEdited(s, PathOf[x])
  BY <1>4 DEF Apply
<1> QED BY <1>9, <1>11, <1>12, <1>13, <1>14

\* What x is in now has not moved.
LEMMA TripParent ==
    ASSUME Typed, NEW x \in Ids, NEW o, TripIs(x, o, PathOf, drive, There)
    PROVE  drive[x].parent \notin Moved(o)
<1> DEFINE p == drive[x].parent
<1>1. x \in Moved(o) /\ x \in There
  BY DEF TripIs, Moved, Strays
<1>2. x \in Ids /\ Exists(x)
  BY <1>1, ThereFacts DEF Typed
<1>3. /\ p \in There /\ PathOf[x] \in Seq(Nat) /\ PathOf[p] \in Seq(Nat)
      /\ Len(PathOf[x]) = Len(PathOf[p]) + 1
  <2>1. IsTree(drive, There) /\ Climbs(PathOf, drive, There) /\ x \in There \ {Root}
    BY <1>1, <1>2 DEF Typed
  <2> QED BY <2>1, <1>1, <1>2, ThereFacts, ClimbFacts
<1>4. SUFFICES ASSUME p \in Moved(o) PROVE FALSE
  OBVIOUS
<1>5. IsPrefix(o[x], o[p]) /\ o[x] \in Seq(Nat) /\ o[p] \in Seq(Nat)
  BY <1>1, <1>3, <1>4 DEF TripIs, Moved
<1>6. PathOf[p] = Shifted(o[p], o[x], PathOf[x])
  BY <1>1, <1>3, <1>5 DEF TripIs, Moved
<1>7. Len(PathOf[p]) = Len(PathOf[x]) + Len(o[p]) - Len(o[x])
  <2>1. Within(o[x], o[p])
    BY <1>5 DEF Within
  <2>2. IsShift(Shifted(o[p], o[x], PathOf[x]), o[p], o[x], PathOf[x], Nat)
    BY <2>1, <1>3, <1>5, ShiftedFacts
  <2> QED BY <2>2, <1>6 DEF IsShift
<1>8. Len(o[x]) <= Len(o[p])
  BY <1>5, PrefixFacts
<1>9. Len(o[x]) \in Nat /\ Len(o[p]) \in Nat /\ Len(PathOf[p]) \in Nat /\ Len(PathOf[x]) \in Nat
  BY <1>3, <1>5
<1>10. \A a, b, c, d \in Nat : a = b + 1 /\ b = a + c - d /\ d <= c => FALSE
  OBVIOUS
<1> QED BY <1>3, <1>7, <1>8, <1>9, <1>10

\* What moves along with x keeps its name in what it is in.
LEMMA TripAlong ==
    ASSUME Typed, NEW x \in Ids, NEW o, TripIs(x, o, PathOf, drive, There),
           NEW y \in Ids, Exists(y), y # x
    PROVE  LET p == drive[y].parent IN
           /\ p \in Places /\ p \in There /\ o[p] \in Seq(Nat)
           /\ o[y] = Append(o[p], drive[y].name) /\ Front(o[y]) = o[p] /\ IsPrefix(o[p], o[y])
           /\ PathOf[y] = Append(PathOf[p], drive[y].name) /\ Front(PathOf[y]) = PathOf[p]
           /\ y \in Moved(o) <=> p \in Moved(o)
           /\ y \in Moved(o) => p \in Folders /\ p \in Ids /\ Exists(p) /\ o[p] # Top
<1> DEFINE p == drive[y].parent
           m == drive[y].name
<1>1. /\ y \in There /\ y # Root /\ p \in Places /\ p \in There /\ m \in Nat
      /\ PathOf[y] = Append(PathOf[p], m) /\ PathOf[p] \in Seq(Nat) /\ Front(PathOf[y]) = PathOf[p]
  BY ThereFacts
<1>2. o[y] = Append(o[p], m) /\ o[p] \in Seq(Nat) /\ o[y] \in Seq(Nat)
  BY <1>1 DEF TripIs
<1> HIDE DEF p, m
<1>3. Front(o[y]) = o[p] /\ Len(o[y]) = Len(o[p]) + 1 /\ \A i \in 1..Len(o[p]) : o[y][i] = o[p][i]
  BY <1>1, <1>2, AppendFacts
<1>4. IsPrefix(o[p], o[y])
  <2>1. Len(o[p]) <= Len(o[y])
    <3>1. Len(o[p]) \in Nat
      BY <1>2
    <3> QED BY <3>1, <1>3
  <2> QED BY <2>1, <1>2, <1>3, PrefixFacts
<1>5. y \in Moved(o) <=> p \in Moved(o)
  <2>1. y \in Moved(o) <=> o[y] # PathOf[y]
    BY <1>1 DEF Moved, Strays
  <2>2. p \in Moved(o) <=> o[p] # PathOf[p]
    BY <1>1 DEF Moved, Strays
  <2>3. o[y] = PathOf[y] <=> o[p] = PathOf[p]
    BY <1>1, <1>2, <1>3
  <2> QED BY <2>1, <2>2, <2>3
<1>6. ASSUME y \in Moved(o)
      PROVE  p \in Folders /\ p \in Ids /\ Exists(p) /\ o[p] # Top
  <2>1. p \in Moved(o) /\ o[Root] = Top /\ PathOf[Root] = Top /\ Root \in There
    BY <1>5, <1>6, ThereFacts DEF TripIs
  <2>2. p # Root
    BY <2>1 DEF Moved, Strays
  <2>3. o[p] # Top
    BY <2>1, <2>2, <1>1 DEF TripIs
  <2> QED BY <2>2, <2>3, <1>1, ThereFacts
<1> QED BY <1>1, <1>2, <1>3, <1>4, <1>5, <1>6 DEF p, m

\* The change of something that has a row of its revision: at most a rename.
LEMMA MovedJobs ==
    ASSUME IInv, Typed, Current, NEW s \in delta, Apply(s), rows[s.id] # Nothing, rows[s.id].rev = s.rev,
           s.parent \in Folders => Job("rename", s.parent, Front(Resolved(s))) \in Jobs
    PROVE  LET path == Resolved(s)
               old == rows[s.id].path IN
           /\ rows' = rows
           /\ old = path => PendingJobs' = PendingJobs
           /\ old # path => \E job :
                /\ PendingJobs' = PendingJobs \cup {job}
                /\ IF s.id \in Folders \/ Renamer(s, old, path) = {}
                     THEN job = Job("rename", s.id, path)
                     ELSE s.parent \in Folders /\ job = Job("rename", s.parent, Front(path))
<1> DEFINE path == Resolved(s)
           old == rows[s.id].path
           one == Job("rename", s.id, path)
           other == Job("rename", s.parent, Front(path))
<1>1. /\ waiting' = waiting /\ s.id \in Ids /\ one \in Jobs
  BY AppliedFacts
<1>2. ToSet(<<>>) = {} /\ <<>> \in Seq(Jobs)
  BY FewJobs
<1>3. ToSet(<<one>>) = {one} /\ <<one>> \in Seq(Jobs)
  BY <1>1, FewJobs
<1>4. s.parent \in Folders => ToSet(<<other>>) = {other} /\ <<other>> \in Seq(Jobs)
  BY FewJobs
<1>5. \A d \in Renamer(s, old, path) : d = s.parent /\ s.parent \in Folders
  BY DEF Renamer
<1>6. <<one>> \o <<>> = <<one>>
  OBVIOUS
<1>7. Folders \cap Files = {}
  BY DEF Typed
<1> HIDE DEF one, other, path, old
<1>8. CASE NewObject(s, path)
  BY <1>8 DEF NewObject
<1>9. CASE FolderMoved(s, path)
  <2>1. s.id \in Folders /\ rows' = rows /\ Enqueue(IF old = path THEN <<>> ELSE <<one>>)
    BY <1>9 DEF FolderMoved, old, one
  <2>2. old = path => PendingJobs' = PendingJobs
    BY <2>1, <1>1, <1>2, EnqueueAdds
  <2>3. old # path => PendingJobs' = PendingJobs \cup {one}
    BY <2>1, <1>1, <1>3, EnqueueAdds
  <2> QED BY <2>1, <2>2, <2>3 DEF one, path, old
<1>10. CASE FileMoved(s, path)
  <2>1. /\ s.id \in Files /\ old # path /\ rows' = rows
        /\ Enqueue(IF Renamer(s, old, path) # {} THEN <<other>> ELSE <<one>> \o <<>>)
    BY <1>10 DEF FileMoved, ParentOf, old, one, other
  <2>2. Renamer(s, old, path) = {} => PendingJobs' = PendingJobs \cup {one}
    BY <2>1, <1>1, <1>3, <1>6, EnqueueAdds
  <2>3. Renamer(s, old, path) # {} => PendingJobs' = PendingJobs \cup {other} /\ s.parent \in Folders
    BY <2>1, <1>1, <1>4, <1>5, EnqueueAdds
  <2> QED BY <2>1, <2>2, <2>3, <1>7 DEF one, other, path, old
<1>11. CASE FileEdited(s, path)
  <2>1. old = path /\ rows' = rows /\ Enqueue(<<>>)
    BY <1>11 DEF FileEdited, old
  <2>2. PendingJobs' = PendingJobs
    BY <2>1, <1>1, <1>2, EnqueueAdds
  <2> QED BY <2>1, <2>2 DEF path, old
<1>12. NewObject(s, path) \/ FolderMoved(s, path) \/ FileMoved(s, path) \/ FileEdited(s, path)
  BY DEF Apply, path
<1> QED BY <1>8, <1>9, <1>10, <1>11, <1>12

\* What is known of the object of an entry while x is moving.
LEMMA MovedEntry ==
    ASSUME IInv, Typed, Current, NEW s \in delta, Apply(s), NEW x \in Ids, NEW o, Moving(x, o)
    PROVE  /\ s.id \in Moved(o) /\ s.id \in Ids /\ Exists(s.id) /\ s.id \in There
           /\ rows[s.id] # Nothing /\ rows[s.id].rev = s.rev
           /\ rows[s.id].path \in {o[s.id], PathOf[s.id]} /\ o[s.id] # PathOf[s.id]
           /\ s.parent = drive[s.id].parent /\ s.name = drive[s.id].name
           /\ \A y \in Moved(o) : y \in Ids /\ Exists(y) /\ rows[y] # Nothing
           /\ \A y \in There \ Moved(o) : o[y] = PathOf[y]
           /\ x \in Moved(o) /\ x \in There /\ Exists(x)
<1>1. /\ s.id \in Reported /\ s.id \in Ids /\ Exists(s.id) /\ s.parent = drive[s.id].parent
      /\ s.name = drive[s.id].name /\ s.rev = drive[s.id].rev
  BY AppliedFacts
<1>2. s.id \in Moved(o) /\ Halfway(x, o) /\ TripIs(x, o, PathOf, drive, There)
  BY <1>1 DEF Moving
<1>3. Held(s.id) /\ rows[s.id].path \in {o[s.id], PathOf[s.id]}
  BY <1>1, <1>2 DEF Halfway
<1>4. x \in Moved(o) /\ \A y : y \in Moved(o) <=> y \in There /\ o[y] # PathOf[y]
  BY <1>2 DEF TripIs, Moved, Strays
<1>5. \A y \in Moved(o) : y # Root
  BY <1>2, <1>4, ThereFacts DEF TripIs
<1>6. \A y \in Moved(o) : y \in Ids /\ Exists(y)
  BY <1>4, <1>5, ThereFacts
<1>7. \A y \in Moved(o) : rows[y] # Nothing
  BY <1>2, <1>6 DEF Halfway, Held
<1> QED BY <1>1, <1>2, <1>3, <1>4, <1>6, <1>7 DEF Held

\* A file in what moves stands for the folder it is in, if that has its old path too.
LEMMA RenamerIs ==
    ASSUME IInv, Typed, Current, NEW s \in delta, Apply(s), NEW x \in Ids, NEW o, Moving(x, o),
           s.id \in Files, rows[s.id].path = o[s.id]
    PROVE  /\ s.id = x => Renamer(s, rows[s.id].path, PathOf[s.id]) = {}
           /\ s.id # x => /\ Renamer(s, rows[s.id].path, PathOf[s.id]) # {}
                          /\ s.parent \in Folders /\ s.parent \in Moved(o)
                          /\ Front(PathOf[s.id]) = PathOf[s.parent]
<1> DEFINE y == s.id
           p == s.parent
<1>1. /\ y \in Moved(o) /\ y \in Ids /\ Exists(y) /\ y \in There
      /\ p = drive[y].parent /\ s.name = drive[y].name
      /\ \A z \in Moved(o) : z \in Ids /\ Exists(z) /\ rows[z] # Nothing
      /\ \A z \in There \ Moved(o) : o[z] = PathOf[z]
  BY MovedEntry
<1>2. TripIs(x, o, PathOf, drive, There) /\ Halfway(x, o)
  BY DEF Moving
<1>3. ASSUME y = x, NEW d \in Renamer(s, rows[y].path, PathOf[y])
      PROVE  FALSE
  <2>1. /\ d = p /\ d \in Folders /\ rows[d] # Nothing /\ rows[d].path = Front(rows[y].path)
        /\ Front(rows[y].path) # Front(PathOf[y])
    BY <1>3 DEF Renamer, RowAt, ParentOf
  <2>2. p \notin Moved(o) /\ p \in There /\ Front(PathOf[y]) = PathOf[p]
    BY <1>1, <1>2, <1>3, TripParent, ThereFacts
  <2>3. d \in Ids /\ Exists(d)
    BY <2>1 DEF Typed, Ids
  <2>4. rows[d].path \in {o[d], PathOf[d]}
    BY <2>3, <1>2 DEF Halfway
  <2> QED BY <2>1, <2>2, <2>4, <1>1
<1>4. ASSUME y # x
      PROVE  /\ Renamer(s, rows[y].path, PathOf[y]) # {}
             /\ p \in Folders /\ p \in Moved(o) /\ Front(PathOf[y]) = PathOf[p]
  <2>1. /\ p \in There /\ Front(o[y]) = o[p] /\ IsPrefix(o[p], o[y])
        /\ Front(PathOf[y]) = PathOf[p] /\ p \in Moved(o)
        /\ p \in Folders /\ p \in Ids /\ o[p] # Top
    BY <1>1, <1>2, <1>4, TripAlong
  <2>2. rows[p].path = o[p] /\ rows[p] # Nothing
    BY <2>1, <1>1, <1>2 DEF Halfway
  <2>3. o[p] # PathOf[p]
    BY <2>1 DEF Moved, Strays
  <2>4. p \in Renamer(s, rows[y].path, PathOf[y])
    BY <2>1, <2>2, <2>3 DEF Renamer, RowAt, ParentOf
  <2> QED BY <2>1, <2>4
<1> QED BY <1>3, <1>4

\* The cache knows where things have moved: the entry makes a rename of what has its old path.
LEMMA ApplyInformed ==
    ASSUME IInv, Typed, Current, NEW s \in delta, Apply(s), NEW x \in Ids, NEW o, Moving(x, o),
           Informed(x, o)
    PROVE  Moving(x, o)'
<1> DEFINE y == s.id
<1>1. /\ y \in Moved(o) /\ y \in Ids /\ Exists(y) /\ y \in There
      /\ rows[y] # Nothing /\ rows[y].rev = s.rev
      /\ rows[y].path \in {o[y], PathOf[y]} /\ o[y] # PathOf[y]
      /\ s.parent = drive[y].parent /\ x \in Moved(o)
  BY MovedEntry
<1>2. /\ UNCHANGED remote /\ disk' = disk /\ Remember(s)
      /\ y \in Reported /\ Reported' \subseteq Reported /\ Reported \subseteq Reported' \cup {y}
  BY AppliedFacts
<1>3. /\ drive' = drive /\ PathOf' = PathOf /\ Moved(o)' = Moved(o)
  BY <1>2, DriveStill
<1>4. Resolved(s) = PathOf[y] /\ CacheAs(PathOf, {})'
  BY <1>2, RemembersPaths DEF Informed
<1>5. s.parent \in Folders => Job("rename", s.parent, Front(Resolved(s))) \in Jobs
  <2> SUFFICES ASSUME s.parent \in Folders PROVE Job("rename", s.parent, Front(Resolved(s))) \in Jobs
    OBVIOUS
  <2>1. Resolved(s) \in Seq(1..named) /\ PathOf[y] # Top
    BY <1>1, AppliedFacts, ThereFacts
  <2>2. Front(Resolved(s)) \in Seq(1..named) /\ s.parent \in Ids
    BY <2>1, <1>4, FrontFacts DEF Ids
  <2> QED BY <2>2 DEF Job, Jobs
<1>6. /\ rows' = rows
      /\ rows[y].path = PathOf[y] => PendingJobs' = PendingJobs
      /\ rows[y].path # PathOf[y] => \E job :
           /\ PendingJobs' = PendingJobs \cup {job}
           /\ IF y \in Folders \/ Renamer(s, rows[y].path, PathOf[y]) = {}
                THEN job = Job("rename", y, PathOf[y])
                ELSE s.parent \in Folders /\ job = Job("rename", s.parent, Front(PathOf[y]))
  BY <1>1, <1>4, <1>5, MovedJobs
\* A file that moved along renames the folder it is in, anything else itself.
<1>7. rows[y].path = o[y] => \E job :
        /\ PendingJobs' = PendingJobs \cup {job} /\ job.kind = "rename"
        /\ job.id \in Moved(o) /\ job.id \in Folders \cup {x} /\ job.path = PathOf[job.id]
        /\ job.id = IF y \in Folders \/ y = x THEN y ELSE s.parent
  <2> SUFFICES ASSUME rows[y].path = o[y]
               PROVE  \E job :
                 /\ PendingJobs' = PendingJobs \cup {job} /\ job.kind = "rename"
                 /\ job.id \in Moved(o) /\ job.id \in Folders \cup {x} /\ job.path = PathOf[job.id]
                 /\ job.id = IF y \in Folders \/ y = x THEN y ELSE s.parent
    OBVIOUS
  <2>1. PICK job : /\ PendingJobs' = PendingJobs \cup {job}
                   /\ IF y \in Folders \/ Renamer(s, rows[y].path, PathOf[y]) = {}
                        THEN job = Job("rename", y, PathOf[y])
                        ELSE s.parent \in Folders /\ job = Job("rename", s.parent, Front(PathOf[y]))
    BY <1>1, <1>6
  <2>2. /\ Job("rename", y, PathOf[y]).id = y /\ Job("rename", y, PathOf[y]).kind = "rename"
        /\ Job("rename", y, PathOf[y]).path = PathOf[y]
        /\ Job("rename", s.parent, Front(PathOf[y])).id = s.parent
        /\ Job("rename", s.parent, Front(PathOf[y])).kind = "rename"
        /\ Job("rename", s.parent, Front(PathOf[y])).path = Front(PathOf[y])
    BY DEF Job
  <2>3. CASE y \in Folders
    BY <2>1, <2>2, <2>3, <1>1
  <2>4. CASE y \in Files
    <3>1. y \notin Folders
      BY <2>4 DEF Typed
    <3>2. CASE y = x
      <4>1. Renamer(s, rows[y].path, PathOf[y]) = {}
        BY <2>4, <3>2, RenamerIs
      <4> QED BY <4>1, <3>2, <2>1, <2>2, <1>1
    <3>3. CASE y # x
      <4>1. /\ Renamer(s, rows[y].path, PathOf[y]) # {}
            /\ s.parent \in Folders /\ s.parent \in Moved(o) /\ Front(PathOf[y]) = PathOf[s.parent]
        BY <2>4, <3>3, RenamerIs
      <4> QED BY <4>1, <3>1, <3>3, <2>1, <2>2
    <3> QED BY <3>2, <3>3
  <2> QED BY <2>3, <2>4, <1>1 DEF Ids
<1>8. Renames(x, o)'
  <2>1. Renames(x, o)
    BY DEF Moving
  <2>2. CASE rows[y].path = o[y]
    BY <2>1, <2>2, <1>3, <1>7 DEF Renames
  <2>3. CASE rows[y].path = PathOf[y]
    BY <2>1, <2>3, <1>3, <1>6 DEF Renames
  <2> QED BY <2>2, <2>3, <1>1
<1>9. PendingJobs \subseteq PendingJobs'
  BY <1>1, <1>6, <1>7
<1>10. rows'[x].path = o[x] => Told(x, o)'
  <2> SUFFICES ASSUME rows[x].path = o[x] PROVE Told(x, o)'
    BY <1>6
  <2>1. Told(x, o)
    BY DEF Informed
  <2>2. CASE x \in Reported
    <3>1. CASE x \in Reported'
      BY <3>1 DEF Told
    <3>2. CASE y = x
      <4>1. \E job : PendingJobs' = PendingJobs \cup {job} /\ job.id = x
        BY <3>2, <1>7
      <4> QED BY <4>1 DEF Told
    <3> QED BY <2>2, <3>1, <3>2, <1>2
  <2>3. CASE \E job \in PendingJobs : job.id = x
    BY <2>3, <1>9 DEF Told
  <2>4. ASSUME NEW z \in Reported \cap Files, drive[z].parent = x, rows[z].path = o[z]
        PROVE  Told(x, o)'
    <3>1. CASE z \in Reported'
      BY <2>4, <3>1, <1>3, <1>6 DEF Told
    <3>2. CASE z = y
      <4>1. y \in Files /\ y \notin Folders
        BY <2>4, <3>2 DEF Typed
      <4>2. y # x
        <5>1. x \in Places
          BY <2>4, <3>2, <1>1, ThereFacts
        <5>2. x # Root
          BY DEF Typed
        <5> QED BY <4>1, <5>1, <5>2, ThereFacts
      <4>3. \E job : PendingJobs' = PendingJobs \cup {job} /\ job.id = x
        BY <2>4, <3>2, <4>1, <4>2, <1>1, <1>7
      <4> QED BY <4>3 DEF Told
    <3> QED BY <2>4, <3>1, <3>2, <1>2
  <2> QED BY <2>1, <2>2, <2>3, <2>4 DEF Told
<1>11. Informed(x, o)'
  BY <1>4, <1>10 DEF Informed
<1> QED BY <1>2, <1>6, <1>8, <1>11, MovingStill

\* The cache has the old path of x still: the entry of what is in it changes nothing, its own
\* tells the cache.
LEMMA ApplyUnaware ==
    ASSUME IInv, Typed, Current, NEW s \in delta, Apply(s), ~stale', NEW x \in Ids, NEW o, Moving(x, o),
           Unaware(x, o)
    PROVE  Moving(x, o)'
<1> DEFINE y == s.id
<1>1. /\ y \in Moved(o) /\ y \in Ids /\ Exists(y) /\ y \in There
      /\ rows[y] # Nothing /\ rows[y].rev = s.rev /\ o[y] # PathOf[y]
      /\ s.parent = drive[y].parent /\ s.name = drive[y].name /\ x \in Moved(o) /\ Exists(x) /\ x \in There
      /\ \A z \in There \ Moved(o) : o[z] = PathOf[z]
  BY MovedEntry
<1>2. /\ UNCHANGED remote /\ disk' = disk /\ Remember(s) /\ s.parent \in Places
      /\ y \in Reported /\ Reported' \subseteq Reported /\ Reported \subseteq Reported' \cup {y}
      /\ Resolved(s) \in Seq(1..named)
  BY AppliedFacts
<1>3. /\ drive' = drive /\ PathOf' = PathOf /\ Moved(o)' = Moved(o)
      /\ \A z : Exists(z)' <=> Exists(z)
  BY <1>2, DriveStill
<1>4. /\ x \in Folders /\ CacheAs(o, {x}) /\ cache[x] # Nothing /\ x \in Reported /\ PendingJobs = {}
      /\ \A z \in Moved(o) : rows[z].path = o[z]
  BY DEF Unaware
<1>5. TripIs(x, o, PathOf, drive, There) /\ o[Root] = Top /\ PathOf[Root] = Top
  BY ThereFacts DEF Moving, TripIs
<1>6. cache[Root] = Top /\ Top # Nothing /\ Root \in There /\ Root \notin Ids
  BY DEF Typed, There
<1>7. \A f \in Places : f # Root => f \in Folders /\ f \in Ids /\ Exists(f) /\ f \in There
  BY ThereFacts
<1>8. \A f \in Folders : cache[f] # Nothing => Exists(f) /\ cache[f] = o[f] /\ f \in Ids /\ f \in There
  BY <1>4 DEF CacheAs, There, Ids
<1>9. CASE y # x
  <2>1. Steady(o, Places)
    <3> SUFFICES ASSUME NEW f \in Places
                 PROVE  /\ cache[f] # Nothing => cache[f] = o[f]
                        /\ cache[f] = Nothing =>
                             drive[f].parent \in Places /\ o[f] = Append(o[drive[f].parent], drive[f].name)
      BY DEF Steady
    <3>1. CASE f = Root
      BY <3>1, <1>5, <1>6
    <3>2. CASE f # Root
      <4>1. cache[f] # Nothing => cache[f] = o[f]
        BY <3>2, <1>7, <1>8
      <4>2. cache[f] = Nothing => f # x
        BY <1>4
      <4>3. f # x => drive[f].parent \in Places /\ o[f] = Append(o[drive[f].parent], drive[f].name)
        BY <3>2, <1>5, <1>7, TripAlong
      <4> QED BY <4>1, <4>2, <4>3
    <3> QED BY <3>1, <3>2
  <2>2. o[y] = Append(o[s.parent], s.name)
    BY <1>1, <1>5, <1>9, TripAlong
  <2>3. Resolved(s) = Append(o[s.parent], s.name) /\ CacheAs(o, {x})'
    <3>1. \A f \in Folders \ {s.id} : cache[f] # Nothing =>
            Exists(f) /\ cache[f] = o[f] /\ (f \notin {x} => cache[drive[f].parent] # Nothing)
      BY <1>4 DEF CacheAs
    <3> QED BY <3>1, <2>1, <2>2, <1>2, Remembers
  <2>4. rows[y].path = Resolved(s)
    BY <2>2, <2>3, <1>1, <1>4
  <2>5. rows' = rows /\ PendingJobs' = {}
    <3>1. s.parent \in Folders => Job("rename", s.parent, Front(Resolved(s))) \in Jobs
      <4> SUFFICES ASSUME s.parent \in Folders PROVE Job("rename", s.parent, Front(Resolved(s))) \in Jobs
        OBVIOUS
      <4>1. Resolved(s) # Top
        <5>1. y # Root /\ o[y] # o[Root]
          BY <1>1, <1>5, <1>6 DEF TripIs
        <5> QED BY <5>1, <2>2, <2>3, <1>5
      <4>2. Front(Resolved(s)) \in Seq(1..named) /\ s.parent \in Ids
        BY <4>1, <1>2, FrontFacts DEF Ids
      <4> QED BY <4>2 DEF Job, Jobs
    <3> QED BY <3>1, <2>4, <1>1, <1>4, MovedJobs
  <2>6. cache'[x] # Nothing
    <3>1. x \notin Walked[s.parent]
      BY <2>1, <1>2, <1>4, WalkPasses
    <3> QED BY <3>1, <1>4, <1>2, <1>9 DEF Remember
  <2>7. x \in Reported'
    BY <1>2, <1>4, <1>9
  <2>8. Unaware(x, o)'
    BY <2>3, <2>5, <2>6, <2>7, <1>3, <1>4 DEF Unaware
  <2>9. Renames(x, o)'
    BY <2>5 DEF Renames
  <2> QED BY <2>5, <2>8, <2>9, <1>2, MovingStill
<1>10. CASE y = x
  <2>1. PICK q : q = PathOf
    OBVIOUS
  <2> DEFINE P == {f \in Places : f \notin Moved(o)}
  <2>2. Steady(q, P)
    <3> SUFFICES ASSUME NEW f \in Places, f \notin Moved(o)
                 PROVE  /\ cache[f] # Nothing => cache[f] = q[f]
                        /\ cache[f] = Nothing =>
                             /\ drive[f].parent \in Places /\ drive[f].parent \notin Moved(o)
                             /\ q[f] = Append(q[drive[f].parent], drive[f].name)
      BY DEF Steady
    <3>1. CASE f = Root
      BY <3>1, <2>1, <1>5, <1>6
    <3>2. CASE f # Root
      <4>1. cache[f] # Nothing => cache[f] = q[f]
        BY <3>2, <2>1, <1>1, <1>7, <1>8
      <4>2. f # x /\ f \in Ids /\ Exists(f)
        BY <3>2, <1>1, <1>7
      <4>3. /\ drive[f].parent \in Places /\ drive[f].parent \notin Moved(o)
            /\ PathOf[f] = Append(PathOf[drive[f].parent], drive[f].name)
        BY <4>2, <1>5, TripAlong
      <4> QED BY <4>1, <4>3, <2>1
    <3> QED BY <3>1, <3>2
  <2>3. s.parent \in P
    BY <1>1, <1>2, <1>5, <1>10, TripParent
  <2>4. q[x] = Append(q[s.parent], s.name)
    BY <2>1, <1>1, <1>10, ThereFacts
  <2> HIDE DEF P
\* Nothing below the old path is in the cache: it would be outdated.
  <2>5. rows' = rows /\ (Resolved(s) = PathOf[x] => PendingJobs' = {Job("rename", x, PathOf[x])})
    <3>1. s.parent \in Folders => Job("rename", s.parent, Front(Resolved(s))) \in Jobs
      <4> SUFFICES ASSUME s.parent \in Folders PROVE Job("rename", s.parent, Front(Resolved(s))) \in Jobs
        OBVIOUS
      <4>1. Front(Resolved(s)) \in Seq(1..named) /\ s.parent \in Ids
        <5>1. Resolved(s) # Top
          <6>1. PICK K \in SUBSET (1..named) : DriveOK(K) /\ FeedOK(K) /\ Grounded
            BY DEF IInv, Named
          <6> QED BY <6>1, ResolvedOK DEF Paths
        <5> QED BY <5>1, <1>2, FrontFacts DEF Ids
      <4> QED BY <4>1 DEF Job, Jobs
    <3> QED BY <3>1, <1>1, <1>4, <1>10, MovedJobs
  <2>6. ASSUME Resolved(s) = PathOf[x]
        PROVE  \A f \in Folders \ {s.id} : cache[f] # Nothing =>
                 Exists(f) /\ cache[f] = q[f] /\ (f \notin {} => cache[drive[f].parent] # Nothing)
    <3> SUFFICES ASSUME NEW f \in Folders \ {s.id}, cache[f] # Nothing
                 PROVE  Exists(f) /\ cache[f] = q[f] /\ cache[drive[f].parent] # Nothing
      OBVIOUS
    <3>1. ~Outdates(s)
      BY DEF Apply
    <3>2. ~IsPrefix(cache[x], cache[f])
      BY <3>1, <2>6, <1>1, <1>4, <1>8, <1>10 DEF Outdates
    <3>3. ~IsPrefix(o[x], o[f])
      BY <3>2, <1>4, <1>8
    <3>4. f \notin Moved(o)
      BY <3>3, <1>5 DEF TripIs, Moved
    <3> QED BY <3>4, <2>1, <1>1, <1>4, <1>8, <1>10 DEF CacheAs
  <2>7. Resolved(s) = PathOf[x]
    <3>1. Prefix[s.parent] = q[s.parent]
      BY <2>2, <2>3, PrefixFinds
    <3> QED BY <3>1, <2>1, <2>4 DEF Resolved
  <2>8. CacheAs(q, {})'
    BY <2>2, <2>3, <2>4, <2>6, <2>7, <1>2, <1>10, Remembers
  <2>9. CacheAs(PathOf, {})'
    BY <2>1, <2>8, <1>3 DEF CacheAs
  <2>10. /\ Job("rename", x, PathOf[x]).id = x /\ Job("rename", x, PathOf[x]).kind = "rename"
         /\ Job("rename", x, PathOf[x]).path = PathOf[x]
    BY DEF Job
  <2>11. Renames(x, o)'
    BY <2>5, <2>7, <2>10, <1>1, <1>3 DEF Renames
  <2>12. Informed(x, o)'
    BY <2>5, <2>7, <2>9, <2>10 DEF Informed, Told
  <2> QED BY <2>5, <2>11, <2>12, <1>2, MovingStill
<1> QED BY <1>9, <1>10

\* A change that is applied is on its way still.
LEMMA ApplyGoes ==
    ASSUME IInv, Typed, Current, OnItsWay, NEW s \in delta, Apply(s), ~stale'
    PROVE  OnItsWay' /\ Current'
<1>1. Current' /\ s.id \in Reported
  BY AppliedFacts
<1>2. ~AtEase
  BY <1>1 DEF AtEase
<1>3. ASSUME NEW x \in Ids, Coming(x)
      PROVE  OnItsWay'
  BY <1>3, ApplyComes DEF OnItsWay
<1>4. ASSUME NEW x \in Ids, NEW o, Moving(x, o)
      PROVE  OnItsWay'
  <2>1. Informed(x, o) \/ Unaware(x, o)
    BY <1>4 DEF Moving
  <2>2. Moving(x, o)'
    BY <1>4, <2>1, ApplyInformed, ApplyUnaware
  <2> QED BY <2>2 DEF OnItsWay
<1> QED BY <1>1, <1>2, <1>3, <1>4 DEF OnItsWay

-----------------------------------------------------------------------------
\* What the dispatcher does.

\* The directories a place on Drive is in are those of folders.
LEMMA PathDirs ==
    ASSUME IInv, Typed, NEW z \in There
    PROVE  /\ PathOf[z] \in Dirs(PathOf[z])
           /\ \A p \in Dirs(PathOf[z]) : p = Top \/ p = PathOf[z]
                \/ \E w \in Ids : Exists(w) /\ w \in Folders /\ p = PathOf[w]
<1>1. /\ IsTree(drive, There) /\ Climbs(PathOf, drive, There) /\ PathOf[z] \in Seq(Nat)
      /\ \A y \in There : PathOf[y] \in Seq(Nat)
  BY ThereFacts DEF Typed
<1>2. PathOf[z] \in Dirs(PathOf[z])
  BY <1>1, DirsFacts
<1>3. ASSUME NEW p \in Dirs(PathOf[z]), p # Top, p # PathOf[z]
      PROVE  \E w \in Ids : Exists(w) /\ w \in Folders /\ p = PathOf[w]
  <2>1. PICK k \in 0..Len(PathOf[z]) : p = SubSeq(PathOf[z], 1, k)
    BY <1>3 DEF Dirs
  <2>2. p \in Seq(Nat) /\ Len(p) = k /\ \A i \in 1..k : p[i] = PathOf[z][i]
    <3>1. \A v \in Seq(Nat) : \A j \in 0..Len(v) :
            /\ SubSeq(v, 1, j) \in Seq(Nat) /\ Len(SubSeq(v, 1, j)) = j
            /\ \A i \in 1..j : SubSeq(v, 1, j)[i] = v[i]
      OBVIOUS
    <3> QED BY <3>1, <2>1, <1>1
  <2>3. k \in 1..Len(PathOf[z])
    <3>1. \A v \in Seq(Nat) : Len(v) = 0 => v = Top
      BY DEF Top
    <3>2. k # 0
      BY <3>1, <2>2, <1>3
    <3> QED BY <3>2
  <2>4. PICK w \in There \ {Root} : IsPrefix(PathOf[w], PathOf[z]) /\ Len(PathOf[w]) = k
    BY <2>3, <1>1, Along
  <2>5. w \in Ids /\ Exists(w) /\ PathOf[w] \in Seq(Nat)
    BY <1>1, ThereFacts
  <2>6. p = PathOf[w]
    <3>1. \A i \in 1..k : PathOf[w][i] = PathOf[z][i]
      BY <2>4, <2>5, <1>1, PrefixFacts
    <3> QED BY <3>1, <2>2, <2>4, <2>5, SameSeq
  <2>7. w \in Above[z]
    BY <2>4, <2>5, <2>6, <1>3, PrefixAbove
  <2>8. w \in Folders
    <3>1. PICK K \in SUBSET (1..named) : DriveOK(K) /\ Grounded
      BY DEF IInv, Named
    <3> QED BY <3>1, <2>7, AboveUp
  <2> QED BY <2>5, <2>6, <2>8
<1> QED BY <1>2, <1>3

\* What runs leaves the queue, the rest stays if no row goes.
LEMMA QueueRuns ==
    ASSUME Typed, Current, Execute, \A y \in Ids : rows[y] # Nothing => rows'[y] # Nothing
    PROVE  /\ UNCHANGED remote /\ cache' = cache /\ Reported' = Reported /\ Current'
           /\ Head(ops) \in PendingJobs /\ PendingJobs' \subseteq PendingJobs
           /\ PendingJobs \ {Head(ops)} \subseteq PendingJobs'
<1>1. /\ ops # <<>> /\ UNCHANGED remote
      /\ cache' = cache /\ changed' = changed /\ delta' = delta
      /\ ops' = Only(Tail(ops), {other \in ToSet(ops) : rows'[other.id] # Nothing})
      /\ waiting' = {other \in waiting : rows'[other.id] # Nothing}
  BY DEF Execute, feed
<1>2. Reported' = changed' \cup {s.id : s \in delta'} /\ PendingJobs' = ToSet(ops') \cup waiting'
  BY DEF Reported, PendingJobs
<1>3. Reported' = Reported
  BY <1>1, <1>2 DEF Reported
<1>4. Current'
  <2>1. drive' = drive
    BY <1>1, DriveStill
  <2> QED BY <1>1, <2>1 DEF Current
<1>5. /\ Tail(ops) \in Seq(Jobs) /\ ToSet(ops) = {Head(ops)} \cup ToSet(Tail(ops))
  BY <1>1, TailSet DEF Typed
<1>6. ToSet(ops') = ToSet(Tail(ops)) \cap {other \in ToSet(ops) : rows'[other.id] # Nothing}
  BY <1>1, <1>5, OnlyKeeps
<1>7. \A job \in PendingJobs : rows'[job.id] # Nothing
  BY DEF Typed
<1>8. waiting' = waiting /\ ToSet(ops') = ToSet(Tail(ops))
  BY <1>1, <1>5, <1>6, <1>7 DEF PendingJobs
<1> QED BY <1>1, <1>2, <1>3, <1>4, <1>5, <1>8 DEF PendingJobs

\* A directory made, whatever it is in.
LEMMA DirsMade ==
    ASSUME NEW dirs
    PROVE  /\ DOMAIN WithDirs(dirs) = DOMAIN disk \cup dirs
           /\ \A p \in DOMAIN disk : WithDirs(dirs)[p] = disk[p]
BY DEF WithDirs, OnDisk

\* What is coming is made, or comes as it is now.
LEMMA ExecuteComes ==
    ASSUME IInv, Typed, Current, Execute, NEW x \in Ids, Coming(x)
    PROVE  Coming(x)' /\ Current'
<1> DEFINE job == Head(ops)
           path == PathOf[x]
<1>1. /\ ops # <<>> /\ UNCHANGED remote
      /\ \/ job.kind = "mkdir" /\ MakeDir(job)
         \/ job.kind = "download" /\ Download(job)
         \/ job.kind = "rename" /\ Rename(job)
  BY DEF Execute
<1>2. job \in PendingJobs
  <2>1. job \in ToSet(ops)
    BY <1>1, TailSet DEF Typed
  <2> QED BY <2>1 DEF PendingJobs
<1>3. job.id = x /\ job.path = path /\ job.kind = IF x \in Folders THEN "mkdir" ELSE "download"
  BY <1>2 DEF Coming
<1>4. rows[x] # Nothing /\ HasRow(x)
  BY <1>2, <1>3 DEF Typed, Coming
<1>5. /\ Exists(x) /\ Reported \subseteq {x} /\ Clean /\ CacheAs(PathOf, {})
      /\ \A y \in Ids \ {x} : Exists(y) => Placed(y)
      /\ \A j \in PendingJobs : /\ j.id = x /\ j.path = PathOf[x]
                                /\ j.kind = IF x \in Folders THEN "mkdir" ELSE "download"
  BY DEF Coming
<1>6. drive' = drive /\ PathOf' = PathOf /\ \A y : Exists(y)' <=> Exists(y)
  BY <1>1, DriveStill
<1>7. /\ x \in There /\ drive[x].parent \in There /\ Front(path) = PathOf[drive[x].parent]
      /\ \A y \in Ids \ {x} : Exists(y) => PathOf[y] # path
      /\ drive[x].parent \in Places
  BY <1>5, ThereFacts DEF There
\* Whichever it is: what else is there stays, and nothing comes but x and the directories it is in.
<1>8. ASSUME \A y \in Ids : rows[y] # Nothing => rows'[y] # Nothing,
             \A y \in Ids \ {x} : rows'[y] = rows[y],
             \A p \in DOMAIN disk \ {path} : p \in DOMAIN disk' /\ disk'[p] = disk[p],
             DOMAIN disk' \subseteq DOMAIN disk \cup {path} \cup Dirs(path) \cup Dirs(Front(path)),
             HasRow(x)'
      PROVE  Coming(x)' /\ Current'
  <2>1. /\ cache' = cache /\ Reported' = Reported /\ Current'
        /\ PendingJobs' \subseteq PendingJobs
    BY <1>8, QueueRuns
  <2>2. ASSUME NEW y \in Ids \ {x}, Exists(y)'
        PROVE  Placed(y)'
    <3>1. Placed(y) /\ PathOf[y] # path
      BY <2>2, <1>5, <1>6, <1>7
    <3>2. rows[y].path \in DOMAIN disk \ {path}
      BY <3>1 DEF Placed, Held, OnDisk
    <3>3. rows[y].path \in DOMAIN disk' /\ disk'[rows[y].path] = disk[rows[y].path]
      BY <3>2, <1>8
    <3> QED BY <3>1, <3>3, <1>6, <1>8 DEF Placed, Held, Holds, OnDisk
  <2>3. Clean'
    <3>1. \A p \in Dirs(path) \cup Dirs(Front(path)) \cup {path} :
            p = Top \/ \E y \in Ids : Exists(y) /\ p = PathOf[y]
      <4>1. \A p \in Dirs(path) : p = Top \/ \E y \in Ids : Exists(y) /\ p = PathOf[y]
        BY <1>5, <1>7, PathDirs
      <4>2. \A p \in Dirs(Front(path)) : p = Top \/ \E y \in Ids : Exists(y) /\ p = PathOf[y]
        <5>1. PathOf[drive[x].parent] = Top \/ \E y \in Ids : Exists(y) /\ PathOf[drive[x].parent] = PathOf[y]
          BY <1>7, ThereFacts
        <5> QED BY <5>1, <1>7, PathDirs
      <4> QED BY <4>1, <4>2, <1>5
    <3>2. \A p \in DOMAIN disk' : p = Top \/ \E y \in Ids : Exists(y)' /\ p = PathOf'[y]
      BY <3>1, <1>5, <1>6, <1>8 DEF Clean
    <3> QED BY <3>2 DEF Clean
  <2>4. CacheAs(PathOf, {})'
    BY <2>1, <1>5, <1>6 DEF CacheAs
  <2>5. rows'[x] # Nothing
    BY <1>4, <1>8
  <2> QED BY <2>1, <2>2, <2>3, <2>4, <2>5, <1>5, <1>6, <1>8 DEF Coming
<1>9. CASE x \in Folders
  <2>1. x \notin Files /\ rows[x].path = path
    BY <1>4, <1>9 DEF Typed, HasRow
  <2>2. disk' = WithDirs(Dirs(path)) /\ rows' = rows
    BY <2>1, <1>1, <1>3, <1>9 DEF MakeDir
  <2>3. /\ DOMAIN disk' = DOMAIN disk \cup Dirs(path)
        /\ \A p \in DOMAIN disk : disk'[p] = disk[p]
    BY <2>2, DirsMade
  <2>4. path \in DOMAIN disk'
    BY <2>3, <1>7, PathDirs
  <2>5. HasRow(x)'
    BY <2>1, <2>2, <2>4, <1>4, <1>6, <1>9 DEF HasRow, OnDisk
  <2> QED BY <2>2, <2>3, <2>5, <1>8
<1>10. CASE x \notin Folders
  <2>1. x \in Files /\ rows[x].path = path
    BY <1>4, <1>10 DEF HasRow, Ids
  <2> DEFINE entry == [id |-> x, rev |-> drive[x].rev]
             dirs == WithDirs(Dirs(Front(path)))
  <2>2. /\ disk' = [p \in DOMAIN dirs \cup {path} |-> IF p = path THEN entry ELSE dirs[p]]
        /\ rows' = [rows EXCEPT ![x].rev = drive[x].rev]
    BY <1>1, <1>3, <1>10 DEF Download, ParentOf
  <2>3. /\ DOMAIN dirs = DOMAIN disk \cup Dirs(Front(path))
        /\ \A p \in DOMAIN disk : dirs[p] = disk[p]
    BY DirsMade
  <2> HIDE DEF dirs
  <2>4. /\ DOMAIN disk' = DOMAIN disk \cup Dirs(Front(path)) \cup {path}
        /\ \A p \in DOMAIN disk \ {path} : disk'[p] = disk[p]
        /\ disk'[path] = entry
    BY <2>2, <2>3
  <2>5. drive[x].rev \in Nat /\ rows[x] \in [path : Seq(1..named), rev : Nat]
    <3>1. PICK K \in SUBSET (1..named) : DriveOK(K)
      BY DEF IInv, Named
    <3> QED BY <3>1, <1>4, <1>5, EntryFacts DEF Typed
  <2>6. /\ \A y \in Ids \ {x} : rows'[y] = rows[y]
        /\ rows'[x] = [rows[x] EXCEPT !.rev = drive[x].rev]
    BY <2>2 DEF Typed
  <2>7. \A a \in [path : Seq(1..named), rev : Nat] : \A r \in Nat :
          LET b == [a EXCEPT !.rev = r] IN
          b \in [path : Seq(1..named), rev : Nat] /\ b.rev = r /\ b.path = a.path
    OBVIOUS
  <2>8. rows'[x] \in [path : Seq(1..named), rev : Nat] /\ rows'[x].rev = drive[x].rev /\ rows'[x].path = path
    BY <2>1, <2>5, <2>6, <2>7
  <2>9. rows'[x] # Nothing
    BY <2>8, Something DEF IInv
  <2>10. HasRow(x)'
    BY <2>4, <2>8, <1>6, <1>10 DEF HasRow, OnDisk, Holds
  <2> QED BY <2>4, <2>6, <2>9, <2>10, <1>8
<1> QED BY <1>9, <1>10

\* A move to where it is.
LEMMA ShiftedSame ==
    ASSUME NEW p \in Seq(Nat), NEW from \in Seq(Nat), Within(from, p)
    PROVE  Shifted(p, from, from) = p
<1> DEFINE q == Shifted(p, from, from)
<1>1. Len(from) <= Len(p) /\ \A i \in 1..Len(from) : p[i] = from[i]
  BY PrefixFacts DEF Within
<1>2. IsShift(q, p, from, from, Nat)
  BY ShiftedFacts
<1> HIDE DEF q
<1>3. /\ q \in Seq(Nat) /\ Len(q) = Len(from) + Len(p) - Len(from)
      /\ \A i \in 1..Len(from) : q[i] = from[i]
      /\ \A i \in 1..Len(p) - Len(from) : q[Len(from) + i] = p[Len(from) + i]
  BY <1>2 DEF IsShift
<1>4. Len(from) \in Nat /\ Len(p) \in Nat /\ Len(q) = Len(p)
  <2>1. Len(from) \in Nat /\ Len(p) \in Nat
    OBVIOUS
  <2> QED BY <2>1, <1>3
<1>5. ASSUME NEW i \in 1..Len(q)
      PROVE  q[i] = p[i]
  <2>1. CASE i <= Len(from)
    BY <2>1, <1>1, <1>3, <1>4
  <2>2. CASE i > Len(from)
    <3>1. i - Len(from) \in 1..Len(p) - Len(from) /\ Len(from) + (i - Len(from)) = i
      BY <2>2, <1>4
    <3> QED BY <3>1, <1>3
  <2> QED BY <2>1, <2>2, <1>4
<1> QED BY <1>3, <1>4, <1>5, SameSeq DEF q

\* What is known of the paths while x is moving.
LEMMA MovingFacts ==
    ASSUME Typed, NEW x \in Ids, NEW o, Moving(x, o)
    PROVE  /\ x \in Moved(o) /\ \A y \in Moved(o) : y \in Ids /\ Exists(y) /\ y \in There /\ o[y] # PathOf[y]
           /\ \A z \in There : /\ o[z] \in Seq(Nat) /\ PathOf[z] \in Seq(Nat)
                               /\ z \notin Moved(o) => o[z] = PathOf[z]
           /\ \A z \in Ids : Exists(z) =>
                z \in There /\ Held(z) /\ rows[z].path \in {o[z], PathOf[z]}
           /\ \A y \in Moved(o), z \in There : /\ ~IsPrefix(o[y], PathOf[z])
                                               /\ IsPrefix(o[y], o[z]) => z \in Moved(o)
                                                    /\ PathOf[z] = Shifted(o[z], o[y], PathOf[y])
           /\ \A y, z \in There : o[y] = o[z] \/ PathOf[y] = PathOf[z] => y = z
           /\ \A y \in Moved(o), z \in There : o[y] # PathOf[z]
           /\ \A y \in Moved(o) : ~IsPrefix(o[y], Top)
<1>1. TripIs(x, o, PathOf, drive, There) /\ Halfway(x, o)
  BY DEF Moving
<1>2. /\ x \in Moved(o) /\ o[Root] = Top /\ PathOf[Root] = Top /\ Root \in There
      /\ \A y : y \in Moved(o) <=> y \in There /\ o[y] # PathOf[y]
  BY <1>1, ThereFacts DEF TripIs, Moved, Strays
<1>3. \A y \in Moved(o) : y \in Ids /\ Exists(y) /\ y \in There /\ o[y] # PathOf[y]
  BY <1>2, ThereFacts
<1>4. \A z \in There : o[z] \in Seq(Nat) /\ PathOf[z] \in Seq(Nat) /\ (z \notin Moved(o) => o[z] = PathOf[z])
  BY <1>1, <1>2, ThereFacts DEF TripIs
<1>5. \A z \in Ids : Exists(z) => z \in There /\ Held(z) /\ rows[z].path \in {o[z], PathOf[z]}
  BY <1>1 DEF Halfway, There
<1>6. \A y \in Moved(o), z \in There : /\ ~IsPrefix(o[y], PathOf[z])
                                       /\ IsPrefix(o[y], o[z]) => z \in Moved(o)
                                            /\ PathOf[z] = Shifted(o[z], o[y], PathOf[y])
  BY <1>1 DEF TripIs, Moved
<1>7. \A y, z \in There : o[y] = o[z] \/ PathOf[y] = PathOf[z] => y = z
  BY <1>1, ThereFacts DEF TripIs
<1>8. \A y \in Moved(o), z \in There : o[y] # PathOf[z]
  <2>1. \A y \in Moved(o) : IsPrefix(o[y], o[y])
    BY <1>3, <1>4, PrefixChain
  <2> QED BY <2>1, <1>6
<1>9. \A y \in Moved(o) : ~IsPrefix(o[y], Top)
  BY <1>2, <1>6
<1> QED BY <1>2, <1>3, <1>4, <1>5, <1>6, <1>7, <1>8, <1>9

\* What goes along when y, which has its old path, is renamed.
Goes(z, y, o) == rows[z].path = o[z] /\ IsPrefix(o[y], o[z])

\* What is known of one that moves.
LEMMA OneThatMoves ==
    ASSUME Typed, NEW x \in Ids, NEW o, Moving(x, o), NEW y \in Moved(o)
    PROVE  /\ y \in Ids /\ Exists(y) /\ y \in There /\ o[y] # PathOf[y]
           /\ o[y] \in Seq(Nat) /\ PathOf[y] \in Seq(Nat)
           /\ Held(y) /\ rows[y].path \in {o[y], PathOf[y]}
<1>1. /\ \A z \in Moved(o) : z \in Ids /\ Exists(z) /\ z \in There /\ o[z] # PathOf[z]
      /\ \A z \in There : o[z] \in Seq(Nat) /\ PathOf[z] \in Seq(Nat)
      /\ \A z \in Ids : Exists(z) => z \in There /\ Held(z) /\ rows[z].path \in {o[z], PathOf[z]}
  <2>1. \A z \in Moved(o) : z \in Ids /\ Exists(z) /\ z \in There /\ o[z] # PathOf[z]
    BY MovingFacts
  <2>2. \A z \in There : o[z] \in Seq(Nat) /\ PathOf[z] \in Seq(Nat)
    BY MovingFacts
  <2>3. \A z \in Ids : Exists(z) => z \in There /\ Held(z) /\ rows[z].path \in {o[z], PathOf[z]}
    BY MovingFacts
  <2> QED BY <2>1, <2>2, <2>3
<1> QED BY <1>1

\* What is known of one that exists while x is moving.
LEMMA OneThatExists ==
    ASSUME Typed, NEW x \in Ids, NEW o, Moving(x, o), NEW z \in Ids, Exists(z)
    PROVE  /\ z \in There /\ Held(z) /\ rows[z].path \in {o[z], PathOf[z]}
           /\ o[z] \in Seq(Nat) /\ PathOf[z] \in Seq(Nat)
           /\ z \notin Moved(o) => o[z] = PathOf[z]
<1>1. \A y \in Ids : Exists(y) => y \in There /\ Held(y) /\ rows[y].path \in {o[y], PathOf[y]}
  BY MovingFacts
<1>2. \A y \in There : /\ o[y] \in Seq(Nat) /\ PathOf[y] \in Seq(Nat)
                       /\ y \notin Moved(o) => o[y] = PathOf[y]
  BY MovingFacts
<1> QED BY <1>1, <1>2

\* What is in the directory that moves is what goes along.
LEMMA GoesFacts ==
    ASSUME Typed, NEW x \in Ids, NEW o, Moving(x, o), NEW y \in Moved(o)
    PROVE  /\ \A z \in Ids : Exists(z) =>
                /\ Within(o[y], rows[z].path) <=> Goes(z, y, o)
                /\ Goes(z, y, o) => z \in Moved(o) /\ PathOf[z] = Shifted(o[z], o[y], PathOf[y])
           /\ \A z, w \in Ids : Exists(z) /\ Exists(w) /\ Goes(w, y, o) /\ rows[z].path = PathOf[w] => z = w
<1>1. ASSUME NEW z \in Ids, Exists(z)
      PROVE  /\ Within(o[y], rows[z].path) <=> Goes(z, y, o)
             /\ Goes(z, y, o) => z \in Moved(o) /\ PathOf[z] = Shifted(o[z], o[y], PathOf[y])
  BY <1>1, MovingFacts DEF Goes, Within
<1>2. ASSUME NEW z \in Ids, NEW w \in Ids, Exists(z), Exists(w), Goes(w, y, o), rows[z].path = PathOf[w]
      PROVE  z = w
  <2>1. /\ z \in There /\ w \in There /\ rows[z].path \in {o[z], PathOf[z]}
        /\ z \notin Moved(o) => o[z] = PathOf[z]
    BY <1>2, OneThatExists
  <2>2. z \in Moved(o) => o[z] # PathOf[w]
    BY <2>1, MovingFacts
  <2>3. PathOf[z] = PathOf[w]
    BY <2>1, <2>2, <1>2
  <2> QED BY <2>1, <2>3, MovingFacts
<1> QED BY <1>1, <1>2

\* The rows of what goes along follow.
LEMMA RenameRows ==
    ASSUME Typed, NEW x \in Ids, NEW o, Moving(x, o), NEW y \in Moved(o),
           named \in 0..MaxChanges, Rewrite(o[y], PathOf[y]),
           \A z \in Ids : Exists(z) => PathOf[z] \in Seq(1..named)
    PROVE  \A z \in Ids : Exists(z) =>
             /\ rows'[z] # Nothing /\ rows'[z].rev = rows[z].rev
             /\ rows'[z].path = IF Goes(z, y, o) THEN PathOf[z] ELSE rows[z].path
<1> SUFFICES ASSUME NEW z \in Ids, Exists(z)
             PROVE  /\ rows'[z] # Nothing /\ rows'[z].rev = rows[z].rev
                    /\ rows'[z].path = IF Goes(z, y, o) THEN PathOf[z] ELSE rows[z].path
  OBVIOUS
<1>1. rows[z] # Nothing /\ rows[z] \in [path : Seq(1..named), rev : Nat]
  BY MovingFacts DEF Held, Typed
<1>2. rows'[z] = IF ~(rows[z] # Nothing /\ Within(o[y], rows[z].path)) THEN rows[z]
                 ELSE IF RowAt(Shifted(rows[z].path, o[y], PathOf[y])) \ {z} # {} THEN Nothing
                 ELSE [rows[z] EXCEPT !.path = Shifted(rows[z].path, o[y], PathOf[y])]
  BY DEF Rewrite
<1>3. CASE ~Goes(z, y, o)
  <2>1. ~Within(o[y], rows[z].path)
    BY <1>3, GoesFacts
  <2> QED BY <2>1, <1>1, <1>2, <1>3
<1>4. CASE Goes(z, y, o)
  <2>1. Within(o[y], rows[z].path) /\ Shifted(rows[z].path, o[y], PathOf[y]) = PathOf[z]
    BY <1>4, GoesFacts DEF Goes
  <2>2. RowAt(PathOf[z]) \ {z} = {}
    <3>1. \A w \in Ids : rows[w] # Nothing => Exists(w)
      BY DEF Typed
    <3> QED BY <3>1, <1>4, GoesFacts DEF RowAt
  <2>3. rows'[z] = [rows[z] EXCEPT !.path = PathOf[z]]
    BY <2>1, <2>2, <1>1, <1>2
  <2>4. \A a \in [path : Seq(1..named), rev : Nat] : \A p \in Seq(1..named) :
          LET b == [a EXCEPT !.path = p] IN
          b \in [path : Seq(1..named), rev : Nat] /\ b.rev = a.rev /\ b.path = p
    OBVIOUS
  <2>5. /\ rows'[z] \in [path : Seq(1..named), rev : Nat]
        /\ rows'[z].rev = rows[z].rev /\ rows'[z].path = PathOf[z]
    BY <2>3, <2>4, <1>1
  <2>6. rows'[z] # Nothing
    BY <2>5, Something
  <2> QED BY <2>5, <2>6, <1>4
<1> QED BY <1>3, <1>4

\* The directory goes with all that is in it, and what is elsewhere stays.
LEMMA RenameDisk ==
    ASSUME IInv, Typed, NEW x \in Ids, NEW o, Moving(x, o), NEW y \in Moved(o), rows[y].path = o[y],
           MoveTree(o[y], PathOf[y])
    PROVE  /\ \A z \in Ids : Exists(z) =>
                LET to == IF Goes(z, y, o) THEN PathOf[z] ELSE rows[z].path IN
                to \in DOMAIN disk' /\ disk'[to] = disk[rows[z].path]
           /\ \A p \in DOMAIN disk' : p = Top \/ \E z \in Ids : Exists(z) /\
                (\/ p = IF Goes(z, y, o) THEN PathOf[z] ELSE rows[z].path
                 \/ z \in Folders /\ p = PathOf[z])
<1> DEFINE from == o[y]
           to == PathOf[y]
           dirs == Dirs(ParentOf(to))
           there == WithDirs(dirs)
           moved == {p \in DOMAIN there : Within(from, p)}
           stay  == DOMAIN there \ moved
           targets == {Shifted(p, from, to) : p \in moved}
<1>1. /\ y \in Ids /\ Exists(y) /\ y \in There /\ from # to
      /\ from \in Seq(Nat) /\ to \in Seq(Nat) /\ OnDisk(from)
  <2>1. y \in Ids /\ Exists(y) /\ y \in There /\ from # to /\ from \in Seq(Nat) /\ to \in Seq(Nat)
    BY OneThatMoves
  <2>2. Held(y)
    BY <2>1, MovingFacts
  <2> QED BY <2>1, <2>2 DEF Held
<1>2. disk' = [p \in stay \cup targets |->
                 IF p \in targets THEN there[Shifted(p, to, from)] ELSE there[p]]
  BY <1>1 DEF MoveTree
<1>3. /\ DOMAIN there = DOMAIN disk \cup dirs /\ \A p \in DOMAIN disk : there[p] = disk[p]
  BY DirsMade
\* The directories made are those of folders, where they are now.
<1>4. \A p \in dirs : p = Top \/ \E w \in Ids : Exists(w) /\ w \in Folders /\ p = PathOf[w]
  <2>1. /\ ParentOf(to) = PathOf[drive[y].parent] /\ drive[y].parent \in There
        /\ drive[y].parent \in Places
    BY <1>1, ThereFacts DEF ParentOf
  <2>2. PathOf[drive[y].parent] = Top
          \/ \E w \in Ids : Exists(w) /\ w \in Folders /\ PathOf[drive[y].parent] = PathOf[w]
    BY <2>1, ThereFacts
  <2> QED BY <2>1, <2>2, PathDirs
<1> HIDE DEF from, to, dirs, there, moved, stay, targets
<1>5. \A p \in DOMAIN disk : p = Top \/ \E w \in Ids :
        Exists(w) /\ (p = rows[w].path \/ (w \in Folders /\ p = PathOf[w]))
  BY DEF Moving, Halfway
<1>6. \A w \in Ids : Exists(w) => w \in There /\ rows[w].path \in DOMAIN disk
  BY MovingFacts DEF Held, OnDisk
<1>7. \A w \in There : ~Within(from, PathOf[w]) /\ ~Within(from, Top)
  BY MovingFacts DEF Within, from
<1>8. \A w \in Ids : Exists(w) =>
        /\ Within(from, rows[w].path) <=> Goes(w, y, o)
        /\ Goes(w, y, o) => /\ rows[w].path = o[w] /\ o[w] \in Seq(Nat)
                            /\ PathOf[w] = Shifted(rows[w].path, from, to)
                            /\ Shifted(PathOf[w], to, from) = rows[w].path
  <2> SUFFICES ASSUME NEW w \in Ids, Exists(w)
               PROVE  /\ Within(from, rows[w].path) <=> Goes(w, y, o)
                      /\ Goes(w, y, o) => /\ rows[w].path = o[w] /\ o[w] \in Seq(Nat)
                                          /\ PathOf[w] = Shifted(rows[w].path, from, to)
                                          /\ Shifted(PathOf[w], to, from) = rows[w].path
    OBVIOUS
  <2>1. Within(from, rows[w].path) <=> Goes(w, y, o)
    BY GoesFacts DEF from
  <2>2. ASSUME Goes(w, y, o)
        PROVE  /\ rows[w].path = o[w] /\ o[w] \in Seq(Nat)
               /\ PathOf[w] = Shifted(rows[w].path, from, to)
               /\ Shifted(PathOf[w], to, from) = rows[w].path
    <3>1. rows[w].path = o[w] /\ PathOf[w] = Shifted(o[w], from, to)
      BY <2>2, GoesFacts DEF Goes, from, to
    <3>2. o[w] \in Seq(Nat) /\ Within(from, o[w])
      <4>1. o[w] \in Seq(Nat)
        BY OneThatExists
      <4> QED BY <2>1, <2>2, <3>1, <4>1
    <3> QED BY <3>1, <3>2, <1>1, ShiftedBack
  <2> QED BY <2>1, <2>2
<1>9. moved = {p \in DOMAIN there : Within(from, p)} /\ stay = DOMAIN there \ moved
      /\ targets = {Shifted(p, from, to) : p \in moved}
  BY DEF moved, stay, targets
<1>10. \A p \in moved : \E w \in Ids : Exists(w) /\ Goes(w, y, o) /\ p = rows[w].path
  <2> SUFFICES ASSUME NEW p \in moved PROVE \E w \in Ids : Exists(w) /\ Goes(w, y, o) /\ p = rows[w].path
    OBVIOUS
  <2>1. p \in DOMAIN disk \cup dirs /\ Within(from, p)
    BY <1>3, <1>9
  <2>2. p # Top /\ \A w \in There : p # PathOf[w]
    BY <2>1, <1>1, <1>7
  <2>3. \A w \in Ids : Exists(w) => p # PathOf[w]
    BY <2>2, <1>6
  <2>4. p \notin dirs
    BY <2>2, <2>3, <1>4
  <2>5. PICK w \in Ids : Exists(w) /\ (p = rows[w].path \/ (w \in Folders /\ p = PathOf[w]))
    BY <2>1, <2>2, <2>4, <1>5
  <2>6. p = rows[w].path
    BY <2>3, <2>5
  <2> QED BY <2>1, <2>5, <2>6, <1>8
<1>11. \A w \in Ids : Exists(w) /\ Goes(w, y, o) => rows[w].path \in moved /\ PathOf[w] \in targets
  BY <1>3, <1>6, <1>8, <1>9
<1>12. \A p \in targets : \E w \in Ids : Exists(w) /\ Goes(w, y, o) /\ p = PathOf[w]
  BY <1>8, <1>9, <1>10
<1>13. ASSUME NEW z \in Ids, Exists(z), Goes(z, y, o)
       PROVE  PathOf[z] \in DOMAIN disk' /\ disk'[PathOf[z]] = disk[rows[z].path]
  <2>1. PathOf[z] \in targets
    BY <1>11, <1>13
  <2>2. disk'[PathOf[z]] = there[Shifted(PathOf[z], to, from)]
    BY <2>1, <1>2
  <2>3. Shifted(PathOf[z], to, from) = rows[z].path /\ rows[z].path \in DOMAIN disk
    BY <1>6, <1>8, <1>13
  <2> QED BY <2>1, <2>2, <2>3, <1>2, <1>3
<1>14. ASSUME NEW z \in Ids, Exists(z), ~Goes(z, y, o)
       PROVE  rows[z].path \in DOMAIN disk' /\ disk'[rows[z].path] = disk[rows[z].path]
  <2>1. rows[z].path \in stay
    BY <1>3, <1>6, <1>8, <1>9, <1>14
  <2>2. rows[z].path \notin targets
    BY <1>12, <1>14, GoesFacts
  <2>3. rows[z].path \in DOMAIN disk
    BY <1>6, <1>14
  <2>4. there[rows[z].path] = disk[rows[z].path]
    BY <2>3, <1>3
  <2>5. rows[z].path \in DOMAIN disk' /\ disk'[rows[z].path] = there[rows[z].path]
    BY <2>1, <2>2, <1>2
  <2> QED BY <2>4, <2>5
<1>15. ASSUME NEW p \in DOMAIN disk', p # Top
       PROVE  \E z \in Ids : Exists(z) /\
                (\/ p = IF Goes(z, y, o) THEN PathOf[z] ELSE rows[z].path
                 \/ z \in Folders /\ p = PathOf[z])
  <2>1. CASE p \in targets
    <3>1. PICK w \in Ids : Exists(w) /\ Goes(w, y, o) /\ p = PathOf[w]
      BY <2>1, <1>12
    <3> QED BY <3>1
  <2>2. CASE p \in stay
    <3>1. CASE p \in dirs
      BY <3>1, <1>4, <1>15
    <3>2. CASE p \in DOMAIN disk
      <4>1. PICK w \in Ids : Exists(w) /\ (p = rows[w].path \/ (w \in Folders /\ p = PathOf[w]))
        BY <3>2, <1>5, <1>15
      <4>2. p = rows[w].path => ~Goes(w, y, o)
        BY <2>2, <4>1, <1>9, <1>11
      <4> QED BY <4>1, <4>2
    <3> QED BY <2>2, <3>1, <3>2, <1>3, <1>9
  <2> QED BY <2>1, <2>2, <1>2
<1> QED BY <1>13, <1>14, <1>15

\* A path on Drive is made of the names given.
LEMMA PathsTyped ==
    ASSUME IInv, Typed
    PROVE  \A z \in Ids : Exists(z) => PathOf[z] \in Seq(1..named)
<1> DEFINE S == {z \in There : PathOf[z] \notin Seq(1..named)}
<1>1. Root \notin S
  BY ThereFacts DEF Top
<1>2. S = {}
  <2>1. SUFFICES ASSUME S # {} PROVE FALSE
    OBVIOUS
  <2>2. PICK z \in S : drive[z].parent \notin S
    BY <2>1, <1>1 DEF Typed, IsTree
  <2>3. z \in Ids /\ Exists(z) /\ PathOf[z] \notin Seq(1..named)
    BY <2>2, <1>1, ThereFacts
  <2>4. drive[z].parent \in There /\ PathOf[z] = Append(PathOf[drive[z].parent], drive[z].name)
    BY <2>3, ThereFacts
  <2>5. PICK K \in SUBSET (1..named) : DriveOK(K)
    BY DEF IInv, Named
  <2>6. drive[z].name \in 1..named
    BY <2>3, <2>5, EntryFacts
  <2>7. PathOf[drive[z].parent] \in Seq(1..named)
    BY <2>2, <2>4
  <2> QED BY <2>3, <2>4, <2>6, <2>7
<1> QED BY <1>2 DEF There

\* A rename of what is there already makes the directories it is in, and no more.
LEMMA RenamedBefore ==
    ASSUME IInv, Typed, NEW x \in Ids, NEW o, Moving(x, o), NEW y \in Moved(o),
           NEW job, job.id = y, job.path = PathOf[y], rows[y].path = PathOf[y], Rename(job)
    PROVE  /\ \A z \in Ids : rows'[z] = rows[z]
           /\ DOMAIN disk' = DOMAIN disk \cup Dirs(Front(PathOf[y]))
           /\ \A p \in DOMAIN disk : disk'[p] = disk[p]
<1> DEFINE to == PathOf[y]
<1>1. MoveTree(to, to) /\ Rewrite(to, to)
  BY DEF Rename
<1>2. disk' = WithDirs(Dirs(Front(to)))
  BY <1>1 DEF MoveTree, ParentOf
<1>3. to \in Seq(Nat)
  BY OneThatMoves
<1>4. ASSUME NEW z \in Ids
      PROVE  rows'[z] = rows[z]
  <2>1. rows'[z] = IF ~(rows[z] # Nothing /\ Within(to, rows[z].path)) THEN rows[z]
                   ELSE IF RowAt(Shifted(rows[z].path, to, to)) \ {z} # {} THEN Nothing
                   ELSE [rows[z] EXCEPT !.path = Shifted(rows[z].path, to, to)]
    BY <1>1 DEF Rewrite
  <2>2. CASE rows[z] # Nothing /\ Within(to, rows[z].path)
    <3>1. rows[z].path \in Seq(Nat) /\ rows[z] \in [path : Seq(1..named), rev : Nat]
      BY <2>2 DEF Typed
    <3>2. Shifted(rows[z].path, to, to) = rows[z].path
      BY <2>2, <3>1, <1>3, ShiftedSame
    <3>3. RowAt(rows[z].path) \ {z} = {}
      BY <2>2 DEF RowAt, Typed
    <3>4. \A a \in [path : Seq(1..named), rev : Nat] : [a EXCEPT !.path = a.path] = a
      OBVIOUS
    <3>5. rows'[z] = [rows[z] EXCEPT !.path = rows[z].path]
      BY <2>1, <2>2, <3>2, <3>3
    <3> QED BY <3>1, <3>4, <3>5
  <2>3. CASE ~(rows[z] # Nothing /\ Within(to, rows[z].path))
    BY <2>1, <2>3
  <2> QED BY <2>2, <2>3
<1> QED BY <1>2, <1>4, DirsMade

\* A rename brings what it can on its way, and what it was for is where it should be.
LEMMA ExecuteMoves ==
    ASSUME IInv, Typed, Current, Execute, NEW x \in Ids, NEW o, Moving(x, o)
    PROVE  Moving(x, o)' /\ Current'
<1> DEFINE job == Head(ops)
           y == job.id
<1>1. /\ ops # <<>> /\ UNCHANGED remote
      /\ \/ job.kind = "mkdir" /\ MakeDir(job)
         \/ job.kind = "download" /\ Download(job)
         \/ job.kind = "rename" /\ Rename(job)
  BY DEF Execute
<1>2. job \in PendingJobs
  <2>1. job \in ToSet(ops)
    BY <1>1, TailSet DEF Typed
  <2> QED BY <2>1 DEF PendingJobs
<1>3. job.kind = "rename" /\ y \in Moved(o) /\ y \in Folders \cup {x} /\ job.path = PathOf[y]
  BY <1>2 DEF Moving, Renames
<1>4. /\ drive' = drive /\ PathOf' = PathOf /\ There' = There /\ Moved(o)' = Moved(o)
      /\ \A z : Exists(z)' <=> Exists(z)
  BY <1>1, DriveStill
<1>5. /\ y \in Ids /\ Exists(y) /\ y \in There /\ o[y] # PathOf[y] /\ rows[y].path \in {o[y], PathOf[y]}
      /\ x \in Moved(o)
      /\ \A z \in Moved(o) : z \in Ids /\ Exists(z) /\ z \in There /\ o[z] # PathOf[z] /\ o[z] \in Seq(Nat)
      /\ \A z \in Ids : Exists(z) => z \in There /\ Held(z) /\ rows[z].path \in {o[z], PathOf[z]}
  <2>1. y \in Ids /\ Exists(y) /\ y \in There /\ o[y] # PathOf[y] /\ rows[y].path \in {o[y], PathOf[y]}
    BY <1>3, OneThatMoves
  <2>2. x \in Moved(o)
    BY MovingFacts
  <2>3. \A z \in Moved(o) : z \in Ids /\ Exists(z) /\ z \in There /\ o[z] # PathOf[z] /\ o[z] \in Seq(Nat)
    BY OneThatMoves
  <2>4. \A z \in Ids : Exists(z) => z \in There /\ Held(z) /\ rows[z].path \in {o[z], PathOf[z]}
    BY OneThatExists
  <2> QED BY <2>1, <2>2, <2>3, <2>4
<1>6. Rename(job)
  BY <1>1, <1>3
<1>7. TripIs(x, o, PathOf, drive, There) /\ Halfway(x, o) /\ Reported \subseteq Moved(o) /\ Renames(x, o)
  BY DEF Moving
<1>8. Informed(x, o)
  BY <1>2 DEF Moving, Unaware
\* Either way: what has its new path keeps it, and so do all that are below it.
<1>9. ASSUME \A z \in Ids : Exists(z) => Held(z)' /\ rows'[z].path \in {o[z], PathOf[z]},
             \A z \in Ids : Exists(z) /\ rows'[z].path = o[z] => rows[z].path = o[z] \/ z \notin Moved(o),
             \A w, z \in Moved(o) : IsPrefix(o[w], o[z]) /\ rows'[w].path # o[w] => rows'[z].path # o[z],
             \A p \in DOMAIN disk' : p = Top \/ \E z \in Ids :
               Exists(z) /\ (p = rows'[z].path \/ (z \in Folders /\ p = PathOf[z])),
             rows'[y].path # o[y],
             rows'[x].path = o[x] => \A z \in Files : Exists(z) /\ drive[z].parent = x /\ rows[z].path = o[z] =>
               rows'[z].path = o[z]
      PROVE  Moving(x, o)' /\ Current'
  <2>1. \A z \in Ids : rows[z] # Nothing => rows'[z] # Nothing
    BY <1>9 DEF Held, Typed
  <2>2. /\ cache' = cache /\ Reported' = Reported /\ Current'
        /\ PendingJobs' \subseteq PendingJobs /\ PendingJobs \ {job} \subseteq PendingJobs'
    BY <2>1, QueueRuns
  <2>3. Halfway(x, o)'
    <3>1. \A z \in Ids : Exists(z)' => Held(z)' /\ rows'[z].path \in {o[z], PathOf'[z]}
      BY <1>4, <1>9
    <3>2. \A w, z \in Moved(o)' : IsPrefix(o[w], o[z]) /\ rows'[w].path # o[w] => rows'[z].path # o[z]
      BY <1>4, <1>9
    <3>3. \A p \in DOMAIN disk' : p = Top \/ \E z \in Ids :
            Exists(z)' /\ (p = rows'[z].path \/ (z \in Folders /\ p = PathOf'[z]))
      BY <1>4, <1>9
    <3> QED BY <3>1, <3>2, <3>3 DEF Halfway
  <2>4. Renames(x, o)'
    BY <2>2, <1>4, <1>7 DEF Renames
  <2>5. ASSUME rows'[x].path = o[x]
        PROVE  Told(x, o)'
    <3>1. rows[x].path = o[x] /\ y # x
      BY <2>5, <1>5, <1>9
    <3>2. Told(x, o)
      BY <3>1, <1>8 DEF Informed
    <3>3. CASE x \in Reported
      BY <3>3, <2>2 DEF Told
    <3>4. CASE \E j \in PendingJobs : j.id = x
      BY <3>1, <3>4, <2>2 DEF Told
    <3>5. ASSUME NEW z \in Reported \cap Files, drive[z].parent = x, rows[z].path = o[z]
          PROVE  Told(x, o)'
      <4>1. Exists(z)
        BY <1>5, <1>7
      <4>2. rows'[z].path = o[z]
        BY <2>5, <3>5, <4>1, <1>9
      <4> QED BY <3>5, <4>2, <2>2, <1>4 DEF Told
    <3> QED BY <3>2, <3>3, <3>4, <3>5 DEF Told
  <2>6. CacheAs(PathOf, {})'
    BY <2>2, <1>4, <1>8 DEF Informed, CacheAs
  <2>7. Informed(x, o)'
    BY <2>5, <2>6 DEF Informed
  <2> QED BY <2>2, <2>3, <2>4, <2>7, <1>4, <1>7 DEF Moving
<1>10. CASE rows[y].path = PathOf[y]
  <2>1. /\ \A z \in Ids : rows'[z] = rows[z]
        /\ DOMAIN disk' = DOMAIN disk \cup Dirs(Front(PathOf[y]))
        /\ \A p \in DOMAIN disk : disk'[p] = disk[p]
    BY <1>3, <1>6, <1>10, RenamedBefore
  <2>2. \A z \in Ids : Exists(z) => Held(z)' /\ rows'[z].path \in {o[z], PathOf[z]}
    <3>1. \A z \in Ids : Held(z) => Held(z)'
      BY <2>1, <1>4 DEF Held, Holds, OnDisk
    <3> QED BY <3>1, <2>1, <1>5
  <2>3. \A p \in Dirs(Front(PathOf[y])) : p = Top \/ \E w \in Ids : Exists(w) /\ w \in Folders /\ p = PathOf[w]
    <3>1. /\ Front(PathOf[y]) = PathOf[drive[y].parent] /\ drive[y].parent \in There
          /\ drive[y].parent \in Places
      BY <1>5, ThereFacts
    <3>2. PathOf[drive[y].parent] = Top
            \/ \E w \in Ids : Exists(w) /\ w \in Folders /\ PathOf[drive[y].parent] = PathOf[w]
      BY <3>1, ThereFacts
    <3> QED BY <3>1, <3>2, PathDirs
  <2>4. \A p \in DOMAIN disk' : p = Top \/ \E z \in Ids :
          Exists(z) /\ (p = rows'[z].path \/ (z \in Folders /\ p = PathOf[z]))
    BY <2>1, <2>3, <1>7 DEF Halfway
  <2>5. \A w, z \in Moved(o) : IsPrefix(o[w], o[z]) /\ rows'[w].path # o[w] => rows'[z].path # o[z]
    BY <2>1, <1>5, <1>7 DEF Halfway
  <2> HIDE DEF y
  <2>6. \A z \in Files : z \in Ids
    BY DEF Ids
  <2> QED BY <2>1, <2>2, <2>4, <2>5, <2>6, <1>5, <1>9, <1>10
<1>11. CASE rows[y].path = o[y]
  <2>1. MoveTree(o[y], PathOf[y]) /\ Rewrite(o[y], PathOf[y])
    <3>1. ~Within(o[y], PathOf[y])
      BY <1>3, <1>5, MovingFacts DEF Within
    <3> QED BY <3>1, <1>3, <1>6, <1>11 DEF Rename
  <2>2. \A z \in Ids : Exists(z) => PathOf[z] \in Seq(1..named)
    BY PathsTyped
  <2>3. \A z \in Ids : Exists(z) =>
          /\ rows'[z] # Nothing /\ rows'[z].rev = rows[z].rev
          /\ rows'[z].path = IF Goes(z, y, o) THEN PathOf[z] ELSE rows[z].path
    BY <2>1, <2>2, <1>3, RenameRows DEF IInv
  <2>4. /\ \A z \in Ids : Exists(z) =>
             rows'[z].path \in DOMAIN disk' /\ disk'[rows'[z].path] = disk[rows[z].path]
        /\ \A p \in DOMAIN disk' : p = Top \/ \E z \in Ids :
             Exists(z) /\ (p = rows'[z].path \/ (z \in Folders /\ p = PathOf[z]))
    BY <2>1, <2>3, <1>3, <1>11, RenameDisk
  <2>5. \A z \in Ids : Exists(z) => Held(z)' /\ rows'[z].path \in {o[z], PathOf[z]}
    <3> SUFFICES ASSUME NEW z \in Ids, Exists(z) PROVE Held(z)' /\ rows'[z].path \in {o[z], PathOf[z]}
      OBVIOUS
    <3>1. rows'[z].path \in {o[z], PathOf[z]}
      BY <2>3, <1>5
    <3>2. Held(z)
      BY <1>5
    <3>3. Held(z)'
      BY <3>2, <2>3, <2>4, <1>4 DEF Held, Holds, OnDisk
    <3> QED BY <3>1, <3>3
  <2>6. \A z \in Moved(o) : rows'[z].path = o[z] <=> rows[z].path = o[z] /\ ~IsPrefix(o[y], o[z])
    BY <2>3, <1>5 DEF Goes
  <2>7. \A w, z \in Moved(o) : IsPrefix(o[w], o[z]) /\ rows'[w].path # o[w] => rows'[z].path # o[z]
    <3> SUFFICES ASSUME NEW w \in Moved(o), NEW z \in Moved(o), IsPrefix(o[w], o[z]), rows'[z].path = o[z]
                 PROVE  rows'[w].path = o[w]
      OBVIOUS
    <3>1. rows[z].path = o[z] /\ ~IsPrefix(o[y], o[z])
      BY <2>6
    <3>2. rows[w].path = o[w]
      BY <3>1, <1>7 DEF Halfway
    <3>3. ~IsPrefix(o[y], o[w])
      <4>1. o[y] \in Seq(Nat) /\ o[w] \in Seq(Nat) /\ o[z] \in Seq(Nat)
        BY <1>3, <1>5
      <4> QED BY <3>1, <4>1, PrefixChain
    <3> QED BY <3>2, <3>3, <2>6
  <2>8. rows'[y].path # o[y]
    <3>1. IsPrefix(o[y], o[y])
      BY <1>3, <1>5, PrefixChain
    <3> QED BY <3>1, <2>6, <1>3
\* A file in x does not go alone.
  <2>9. ASSUME rows'[x].path = o[x], NEW z \in Files, Exists(z), drive[z].parent = x, rows[z].path = o[z]
        PROVE  rows'[z].path = o[z]
    <3>1. z \in Ids /\ z # x /\ z # y
      <4>1. x \in Places /\ x # Root
        BY <2>9 DEF Typed, Ids
      <4>2. x \in Folders
        BY <4>1, ThereFacts
      <4>3. z \notin Folders /\ z \in Ids
        BY <2>9 DEF Typed, Ids
      <4> QED BY <4>2, <4>3, <1>3
    <3>2. /\ z \in There /\ o[z] = Append(o[x], drive[z].name) /\ o[x] \in Seq(Nat) /\ o[z] \in Seq(Nat)
          /\ drive[z].name \in Nat
      <4>1. z \in There /\ drive[z].name \in Nat
        BY <2>9, <3>1, <1>5, ThereFacts
      <4>2. o[z] = Append(o[x], drive[z].name)
        BY <2>9, <3>1, <1>7, TripAlong
      <4>3. o[x] \in Seq(Nat) /\ o[z] \in Seq(Nat)
        BY <4>1, <1>5, <1>7 DEF TripIs
      <4> QED BY <4>1, <4>2, <4>3
    <3>3. ~IsPrefix(o[y], o[x])
      BY <2>6, <2>9, <1>5
    <3>4. ~IsPrefix(o[y], o[z])
      <4> SUFFICES ASSUME IsPrefix(o[y], o[z]) PROVE FALSE
        OBVIOUS
      <4>1. IsPrefix(o[x], o[y]) /\ o[y] \in Seq(Nat)
        BY <1>3, <1>5, <1>7 DEF TripIs, Moved
      <4>2. o[y] # o[z]
        <5>1. \A v, w \in There : o[v] = o[w] => v = w
          BY <1>7 DEF TripIs
        <5> QED BY <5>1, <3>1, <3>2, <1>5
      <4>3. o[y] # o[x]
        BY <3>2, <3>3, PrefixChain
      <4>4. Len(o[x]) < Len(o[y]) /\ Len(o[y]) < Len(o[z])
        BY <4>1, <4>2, <4>3, <3>2, PrefixChain
      <4>5. Len(o[z]) = Len(o[x]) + 1
        BY <3>2, AppendFacts
      <4>6. Len(o[x]) \in Nat /\ Len(o[y]) \in Nat
        BY <4>1, <3>2
      <4> QED BY <4>4, <4>5, <4>6
    <3>5. ~Goes(z, y, o)
      BY <3>4 DEF Goes
    <3> QED BY <2>3, <2>9, <3>1, <3>5
  <2>10. \A z \in Ids : Exists(z) /\ rows'[z].path = o[z] => rows[z].path = o[z] \/ z \notin Moved(o)
    BY <2>6
  <2> HIDE DEF y
  <2> QED BY <2>4, <2>5, <2>7, <2>8, <2>9, <2>10, <1>9
<1> QED BY <1>5, <1>10, <1>11

\* Whatever runs, the change is on its way still.
LEMMA ExecuteGoes ==
    ASSUME IInv, Typed, Current, OnItsWay, Execute
    PROVE  OnItsWay' /\ Current'
<1>1. ~AtEase
  <2>1. ops # <<>>
    BY DEF Execute
  <2>2. Head(ops) \in ToSet(ops)
    BY <2>1, TailSet DEF Typed
  <2> QED BY <2>2 DEF AtEase, PendingJobs
<1>2. ASSUME NEW x \in Ids, Coming(x)
      PROVE  OnItsWay' /\ Current'
  BY <1>2, ExecuteComes DEF OnItsWay
<1>3. ASSUME NEW x \in Ids, NEW o, Moving(x, o)
      PROVE  OnItsWay' /\ Current'
  BY <1>3, ExecuteMoves DEF OnItsWay
<1> QED BY <1>1, <1>2, <1>3 DEF OnItsWay

-----------------------------------------------------------------------------
\* Nothing is under way at first.
LEMMA InitCalm == Init => CalmInv
<1> SUFFICES ASSUME Init PROVE CalmInv
  OBVIOUS
<1>1. /\ drive = [x \in Ids |-> Nothing] /\ changed = {} /\ delta = {} /\ ops = <<>> /\ waiting = {}
      /\ cache = [x \in Folders \cup {Root} |-> IF x = Root THEN Top ELSE Nothing]
      /\ disk = [path \in {Top} |-> "dir"]
  BY DEF Init
<1>2. \A y \in Ids : ~Exists(y)
  BY <1>1 DEF Exists
<1>3. Apart /\ Current
  BY <1>1, <1>2 DEF Apart, Current
<1>4. Reported = {} /\ PendingJobs = {}
  <2>1. AtRest
    BY <1>1 DEF AtRest
  <2> QED BY <2>1, RestMeans
<1>5. Clean
  BY <1>1 DEF Clean
<1>6. CacheAs(PathOf, {})
  <2>1. \A f \in Folders : cache[f] = Nothing
    BY <1>1, FolderSyncAssumption DEF Ids
  <2> QED BY <2>1 DEF CacheAs
<1>7. AtEase
  BY <1>2, <1>4, <1>5, <1>6 DEF AtEase
<1> QED BY <1>3, <1>7, InitInv DEF CalmInv, OnItsWay

\* Names stay apart, and what is fetched is as it is, whatever the daemon does.
LEMMA DaemonApart ==
    ASSUME IInv, IInv', Apart, Current, DaemonStep
    PROVE  Apart' /\ Current'
<1>1. UNCHANGED remote
  BY DEF DaemonStep, Fetch, Apply, LookUpFails, DueAgain, Execute, ExecuteFails, Restart
<1>2. drive' = drive /\ Apart'
  BY <1>1, DriveStill
<1>3. ASSUME NEW ids, Fetch(ids)
      PROVE  Current'
  BY <1>2, <1>3 DEF Fetch, Current
<1>4. ASSUME delta' \subseteq delta
      PROVE  Current'
  BY <1>2, <1>4 DEF Current
<1>5. (\E s \in delta : Apply(s) \/ LookUpFails(s)) => delta' \subseteq delta
  BY DEF Apply, LookUpFails
<1>6. (\E job \in waiting : DueAgain(job)) \/ Execute \/ ExecuteFails \/ Restart => delta' \subseteq delta
  BY DEF DueAgain, Execute, ExecuteFails, Restart, feed
<1> QED BY <1>2, <1>3, <1>4, <1>5, <1>6 DEF DaemonStep

\* A name that is given is new.
LEMMA ChangeApart ==
    ASSUME IInv, Apart, NEW x \in Ids, NEW entry, NEW reported, Change(x, entry, reported),
           entry.name = named + 1 \/ (Exists(x) /\ entry.name = drive[x].name)
    PROVE  Apart'
<1>1. PICK K \in SUBSET (1..named) : DriveOK(K) /\ named \in Nat
  BY FolderSyncAssumption DEF IInv, Named
<1>2. drive' = [drive EXCEPT ![x] = entry] /\ DOMAIN drive = Ids
  BY <1>1 DEF Change, DriveOK
<1>3. drive'[x] = entry /\ \A y \in Ids \ {x} : drive'[y] = drive[y] /\ (Exists(y)' <=> Exists(y))
  BY <1>2 DEF Exists
<1>4. \A y \in Ids : Exists(y) => drive[y].name \in 1..named
  BY <1>1, EntryFacts
<1>5. named + 1 \notin 1..named
  BY <1>1
<1>6. \A y \in Ids \ {x} : Exists(y) => drive[y].name # entry.name
  BY <1>4, <1>5 DEF Apart
<1>7. ASSUME NEW y \in Ids, NEW z \in Ids, Exists(y)', Exists(z)', drive'[y].name = drive'[z].name
      PROVE  y = z
  <2>1. CASE y = x \/ z = x
    BY <2>1, <1>3, <1>6, <1>7
  <2>2. CASE y # x /\ z # x
    BY <2>2, <1>3, <1>7 DEF Apart
  <2> QED BY <2>1, <2>2
<1> QED BY <1>7 DEF Apart

\* What users do keeps names apart, and at rest nothing is fetched.
LEMMA UserApart ==
    ASSUME IInv, Apart, AtRest, UserStep
    PROVE  Apart' /\ Current'
<1>1. ASSUME NEW x \in Ids, NEW in, Create(x, in)
      PROVE  Apart' /\ delta' = delta
  <2> DEFINE entry == [parent |-> in, name |-> named + 1, rev |-> 1]
  <2>1. Change(x, entry, {x}) /\ entry.name = named + 1
    BY <1>1 DEF Create
  <2>2. delta' = delta
    BY <2>1 DEF Change
  <2> HIDE DEF entry
  <2> QED BY <2>1, <2>2, ChangeApart
<1>2. ASSUME NEW x \in Files, Touch(x)
      PROVE  Apart' /\ delta' = delta
  <2> DEFINE entry == [drive[x] EXCEPT !.rev = @ + 1]
  <2>1. Change(x, entry, {x}) /\ Exists(x) /\ x \in Ids
    BY <1>2 DEF Touch, Ids
  <2>2. drive[x] \in [parent : Folders \cup {Root}, name : 1..named, rev : Nat]
    <3>1. PICK K \in SUBSET (1..named) : DriveOK(K)
      BY DEF IInv, Named
    <3> QED BY <3>1, <2>1, EntryFacts DEF Entries
  <2>3. entry.name = drive[x].name
    BY <2>2
  <2>4. delta' = delta
    BY <2>1 DEF Change
  <2> HIDE DEF entry
  <2> QED BY <2>1, <2>3, <2>4, ChangeApart
<1>3. ASSUME NEW x \in Ids, NEW in, Relocate(x, in)
      PROVE  Apart' /\ delta' = delta
  <2> DEFINE m == IF in = drive[x].parent THEN named + 1 ELSE drive[x].name
             entry == [drive[x] EXCEPT !.parent = in, !.name = m]
  <2>1. Exists(x) /\ \E reported : Change(x, entry, reported)
    BY <1>3 DEF Relocate
  <2>2. drive[x] \in [parent : Folders \cup {Root}, name : 1..named, rev : Nat]
    <3>1. PICK K \in SUBSET (1..named) : DriveOK(K)
      BY DEF IInv, Named
    <3> QED BY <3>1, <2>1, EntryFacts DEF Entries
  <2>3. entry.name = m
    BY <2>2
  <2>4. m = named + 1 \/ m = drive[x].name
    OBVIOUS
  <2>5. delta' = delta
    BY <2>1 DEF Change
  <2> HIDE DEF entry, m
  <2> QED BY <2>1, <2>3, <2>4, <2>5, ChangeApart
<1>4. Apart' /\ delta' = delta
  BY <1>1, <1>2, <1>3 DEF UserStep
<1>5. Current'
  BY <1>4 DEF AtRest, Current
<1> QED BY <1>4, <1>5

\* Nothing that was lost is found again, nor what is stale fresh.
LEMMA GhostsStay == Next => /\ lost \subseteq lost' /\ (stale => stale')
                            /\ \A s : LookUpFails(s) => lost' # {}
<1> SUFFICES ASSUME Next PROVE /\ lost \subseteq lost' /\ (stale => stale')
                               /\ \A s : LookUpFails(s) => lost' # {}
  OBVIOUS
<1>1. ASSUME UserStep
      PROVE  lost' = lost /\ (stale => stale')
  <2>1. \A x, in : Create(x, in) => lost' = lost /\ (stale => stale')
    BY DEF Create, Change
  <2>2. \A x, in : Relocate(x, in) => lost' = lost /\ (stale => stale')
    BY DEF Relocate, Change
  <2>3. \A x : Touch(x) => lost' = lost /\ (stale => stale')
    BY DEF Touch, Change
  <2> QED BY <1>1, <2>1, <2>2, <2>3 DEF UserStep
<1>2. ASSUME DaemonStep
      PROVE  lost \subseteq lost' /\ (stale => stale')
  <2>1. \A ids : Fetch(ids) => lost' = lost /\ stale' = stale
    BY DEF Fetch
  <2>2. \A s : Apply(s) => lost' = lost /\ (stale => stale')
    BY DEF Apply
  <2>3. \A s : LookUpFails(s) => lost \subseteq lost' /\ stale' = stale
    BY DEF LookUpFails
  <2>4. \A job : DueAgain(job) => lost' = lost /\ stale' = stale
    BY DEF DueAgain, feed
  <2>5. Execute \/ ExecuteFails \/ Restart => lost' = lost /\ stale' = stale
    BY DEF Execute, ExecuteFails, Restart, feed
  <2> QED BY <1>2, <2>1, <2>2, <2>3, <2>4, <2>5 DEF DaemonStep
<1>3. \A s : LookUpFails(s) => lost' # {}
  BY DEF LookUpFails
<1> QED BY <1>1, <1>2, <1>3 DEF Next

\* Every step keeps the invariant if users change things at rest only.
LEMMA NextCalm == CalmInv /\ [Next]_vars /\ [UserStep => AtRest]_vars => CalmInv'
<1> SUFFICES ASSUME CalmInv, [Next]_vars, [UserStep => AtRest]_vars PROVE CalmInv'
  OBVIOUS
<1>1. IInv /\ Apart /\ Current /\ IInv' /\ Typed
  BY NextInv, TypedNow DEF CalmInv
<1>2. CASE UNCHANGED vars
  <2>1. UNCHANGED <<drive, changed, delta, lost, stale, cache, rows, ops, waiting, disk>>
    BY <1>2 DEF vars, remote, feed, local
  <2>2. UNCHANGED remote
    BY <1>2 DEF vars
  <2>3. Apart' /\ Current'
    <3>1. Apart'
      BY <2>2, <1>1, DriveStill
    <3> QED BY <3>1, <2>1, <1>1 DEF Current
  <2>4. OnItsWay => OnItsWay'
    <3>1. Reported' = Reported /\ PendingJobs' = PendingJobs
      BY <2>1 DEF Reported, PendingJobs
    <3> QED BY <3>1, <2>1, <2>2, QuietSteps
  <2> QED BY <2>1, <2>3, <2>4, <1>1 DEF CalmInv
<1>3. CASE Next /\ UserStep /\ ~UNCHANGED vars
  <2>1. AtRest
    BY <1>3
  <2>2. /\ lost \subseteq lost' /\ (stale => stale')
    BY <1>3, GhostsStay
  <2>3. \/ \E x \in Ids, in \in Folders \cup {Root} : Create(x, in) \/ Relocate(x, in)
        \/ \E x \in Files : Touch(x)
    BY <1>3 DEF UserStep
  <2>4. Apart' /\ Current'
    BY <2>1, <1>1, <1>3, UserApart
  <2>5. Typed'
    BY <2>4, <1>1, TypedNext
  <2>6. ASSUME lost' = {}, ~stale'
        PROVE  OnItsWay'
    <3>1. AtEase
      BY <2>1, <2>2, <2>6, <1>1, RestIsEase DEF CalmInv
    <3> QED BY <2>1, <2>3, <2>5, <2>6, <3>1, <1>1, CreateComes, RelocateMoves, TouchComes DEF Ids
  <2> QED BY <2>4, <2>6, <1>1 DEF CalmInv
<1>4. CASE Next /\ DaemonStep /\ ~UNCHANGED vars
  <2>1. /\ lost \subseteq lost' /\ (stale => stale') /\ \A s : LookUpFails(s) => lost' # {}
    BY <1>4, GhostsStay
  <2>2. Apart' /\ Current'
    BY <1>1, <1>4, DaemonApart
  <2>3. ASSUME lost' = {}, ~stale'
        PROVE  OnItsWay'
    <3>1. OnItsWay
      BY <2>1, <2>3 DEF CalmInv
    <3>2. \/ \E ids \in SUBSET changed : Fetch(ids)
          \/ \E s \in delta : Apply(s)
          \/ \E job \in waiting : DueAgain(job)
          \/ Execute \/ ExecuteFails \/ Restart
      BY <2>1, <2>3, <1>4 DEF DaemonStep
    <3> QED BY <2>3, <3>1, <3>2, <1>1, QuietGoes, ApplyGoes, ExecuteGoes
  <2> QED BY <2>2, <2>3, <1>1 DEF CalmInv
<1> QED BY <1>2, <1>3, <1>4 DEF Next

\* At rest Drive is mirrored.
LEMMA CalmMirrors == CalmInv => RestMeansMirrored /\ RenamesConverge
<1> SUFFICES ASSUME CalmInv, AtRest, lost = {}, ~stale PROVE Mirrored
  BY DEF RestMeansMirrored, RenamesConverge
<1>1. Typed /\ OnItsWay
  BY TypedNow DEF CalmInv
<1> QED BY <1>1, RestIsEase, EaseMirrors

\* And where a row says that a file is, it is.
LEMMA CalmRows == CalmInv => (lost = {} => RowsMatchDisk)
<1> SUFFICES ASSUME CalmInv, AtRest, lost = {}, ~stale, NEW x \in Files, rows[x] # Nothing
             PROVE  Holds(rows[x].path, x, rows[x].rev)
  BY DEF RowsMatchDisk
<1>1. Typed /\ OnItsWay
  BY TypedNow DEF CalmInv
<1>2. AtEase
  BY <1>1, RestIsEase
<1>3. x \in Ids /\ Exists(x)
  BY <1>1 DEF Typed, Ids
<1> QED BY <1>2, <1>3 DEF AtEase, Placed, Held

\* Users who wait: the invariant holds all along.
LEMMA CalmAlways == Spec /\ Calm => []CalmInv
<1>1. Init => CalmInv
  BY InitCalm
<1>2. CalmInv /\ [Next]_vars /\ [UserStep => AtRest]_vars => CalmInv'
  BY NextCalm
<1> QED BY <1>1, <1>2, PTL DEF Spec, Calm

\* If users change things on Drive only while the daemon is at rest: however Drive orders and
\* splits the entries of a change, whatever operation fails and whenever the daemon restarts, the
\* local tree and the rows mirror Drive when it is at rest again (drive/changes.rs,
\* reconcile/continuous.rs, daemon/runtime.rs).
THEOREM CalmMirrored == Spec /\ Calm => []RestMeansMirrored
<1>1. CalmInv => RestMeansMirrored
  BY CalmMirrors
<1> QED BY <1>1, CalmAlways, PTL

\* Nor is an edit or a rename of a file masked by the rename of its folder then: what the
\* documentation promises of renames (sync-model.md) holds for users who wait.
THEOREM CalmConverges == Spec /\ Calm => []RenamesConverge
<1>1. CalmInv => RenamesConverge
  BY CalmMirrors
<1> QED BY <1>1, CalmAlways, PTL

\* And where a row says that a file is, there it is, with the revision the row has (the rows that
\* state/items.rs rewrites, the tree that daemon/runtime.rs moves); as far as no look-up dropped
\* a change.
THEOREM CalmRowsMatch == Spec /\ Calm => [](lost = {} => RowsMatchDisk)
<1>1. CalmInv => (lost = {} => RowsMatchDisk)
  BY CalmRows
<1> QED BY <1>1, CalmAlways, PTL
=============================================================================
