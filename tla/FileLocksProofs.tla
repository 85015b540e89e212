-------------------------- MODULE FileLocksProofs --------------------------
(***************************************************************************)
(* Proofs about FileLocks, for any set of agents, any finite set of files  *)
(* and any declarations: the type invariant, mutual exclusion, that the    *)
(* lock manager implements FileLease, and that no waiter is forgotten.     *)
(***************************************************************************)
EXTENDS FileLocks, FiniteSetTheorems, TLAPS

\* The labels at which a loop over todo is at a file.
LoopLabels ==
  {"wait", "undo", "requeue", "release", "pop", "give", "putback", "unqueue",
   "drop", "force"}

\* A loop is at a file; a declaration in progress has files; a rollback has
\* files to give back; a hand-off has a waiter.
LoopInv ==
  /\ \A p \in Procs : pc[p] \in LoopLabels => todo[p] # <<>>
  /\ \A a \in Agents :
       pc[a] \in {"try", "wait", "undo", "requeue", "register", "held", "queued"}
         => declared[a] # <<>>
  /\ \A a \in Agents : pc[a] \in {"undo", "requeue"} => got[a] # <<>>
  /\ \A p \in Procs : pc[p] \in {"give", "putback"} => popped[p] \in Agents

\* a owns each file of s, or lost it to the sweep.
Owns(a, s) == \A f \in Elems(s) : lock[f] = a \/ <<a, f>> \in stripped

\* Up to its result, a declaration owns the files it has acquired; a rolled
\* back declaration cannot be taken for a granted one.
OwnInv ==
  \A a \in Agents :
    /\ pc[a] \in {"try", "wait"} =>
         /\ Elems(todo[a]) \subseteq Elems(declared[a])
         /\ Elems(got[a]) \subseteq Elems(declared[a])
         /\ Owns(a, got[a])
    /\ pc[a] \in {"undo", "requeue"} => got[a] # declared[a]
    /\ pc[a] = "register" /\ got[a] = declared[a] => Owns(a, got[a])
    /\ pc[a] = "held" => Owns(a, declared[a])

IndInv == TypeOK /\ LoopInv /\ OwnInv

-----------------------------------------------------------------------------
(***************************************************************************)
(* Lemmas about the helpers                                                *)
(***************************************************************************)

\* The elements of a sequence are its values.
LEMMA ElemsFacts ==
  ASSUME NEW S, NEW s \in Seq(S)
  PROVE  /\ Elems(s) \subseteq S
         /\ s # <<>> => /\ Head(s) \in S /\ Head(s) \in Elems(s)
                        /\ Tail(s) \in Seq(S) /\ Elems(Tail(s)) \subseteq Elems(s)
         /\ \A x \in S : /\ Append(s, x) \in Seq(S)
                         /\ Elems(Append(s, x)) = Elems(s) \cup {x}
  <1>1. Elems(s) \subseteq S
    BY DEF Elems
  <1>2. s # <<>> => /\ Head(s) \in S /\ Head(s) \in Elems(s)
                    /\ Tail(s) \in Seq(S) /\ Elems(Tail(s)) \subseteq Elems(s)
    <2> SUFFICES ASSUME s # <<>>
                 PROVE  /\ Head(s) \in S /\ Head(s) \in Elems(s)
                        /\ Tail(s) \in Seq(S)
                        /\ Elems(Tail(s)) \subseteq Elems(s)
      OBVIOUS
    <2>1. Len(s) >= 1 /\ Head(s) = s[1] /\ s[1] \in S
      OBVIOUS
    <2>2. Tail(s) \in Seq(S)
      OBVIOUS
    <2>3. \A i \in 1..Len(Tail(s)) : Tail(s)[i] = s[i + 1] /\ i + 1 \in 1..Len(s)
      OBVIOUS
    <2> QED BY <2>1, <2>2, <2>3 DEF Elems
  <1>3. \A x \in S : /\ Append(s, x) \in Seq(S)
                     /\ Elems(Append(s, x)) = Elems(s) \cup {x}
    <2> TAKE x \in S
    <2>1. Append(s, x) \in Seq(S) /\ Len(Append(s, x)) = Len(s) + 1
      OBVIOUS
    <2>2. \A i \in 1..Len(s) : Append(s, x)[i] = s[i]
      OBVIOUS
    <2>3. Append(s, x)[Len(s) + 1] = x
      OBVIOUS
    <2>4. 1..Len(Append(s, x)) = 1..Len(s) \cup {Len(s) + 1}
      BY <2>1
    <2> QED BY <2>1, <2>2, <2>3, <2>4 DEF Elems
  <1> QED BY <1>1, <1>2, <1>3

\* The order in which rows are returned is a sequence of the rows.
LEMMA OrdersType ==
  ASSUME NEW S \in SUBSET Files, NEW s \in Orders(S)
  PROVE  s \in Seq(Files) /\ (S # {} => s # <<>>)
  <1>1. IsFiniteSet(S)
    BY FileLocksAssumption, FS_Subset
  <1>2. Cardinality(S) \in Nat /\ (S # {} => Cardinality(S) # 0)
    BY <1>1, FS_CardinalityType, FS_EmptySet
  <1>3. s \in [1..Cardinality(S) -> S]
    BY DEF Orders
  <1>4. s \in Seq(Files) /\ Len(s) = Cardinality(S)
    BY <1>2, <1>3
  <1> QED BY <1>2, <1>4

\* retain returns a queue of agents, and drops nobody but a.
LEMMA RetainFacts ==
  ASSUME NEW q \in Seq(Agents), NEW a
  PROVE  /\ Retain(q, a) \in Seq(Agents)
         /\ Elems(q) \ {a} \subseteq Elems(Retain(q, a))
  <1> DEFINE keep == {i \in 1..Len(q) : q[i] # a}
             Below(i) == {k \in keep : k <= i}
             Rank == [i \in keep |-> Cardinality(Below(i))]
             n == Cardinality(keep)
  <1>1. keep \in SUBSET (1..Len(q)) /\ Len(q) \in Nat
    OBVIOUS
  <1>2. IsFiniteSet(keep) /\ n \in Nat
    <2>1. IsFiniteSet(1..Len(q))
      BY <1>1, FS_Interval
    <2> QED BY <1>1, <2>1, FS_Subset, FS_CardinalityType
  <1>3. \A i \in keep : IsFiniteSet(Below(i)) /\ Cardinality(Below(i)) \in 1..n
    <2> TAKE i \in keep
    <2>1. Below(i) \in SUBSET keep /\ i \in Below(i)
      BY <1>1
    <2>2. IsFiniteSet(Below(i)) /\ Cardinality(Below(i)) <= n
      BY <1>2, <2>1, FS_Subset
    <2>3. Cardinality(Below(i)) \in Nat /\ Cardinality(Below(i)) # 0
      BY <2>1, <2>2, FS_CardinalityType, FS_EmptySet
    <2> QED BY <1>2, <2>2, <2>3
  <1>4. \A i, j \in keep : i < j => Cardinality(Below(i)) # Cardinality(Below(j))
    <2> SUFFICES ASSUME NEW i \in keep, NEW j \in keep, i < j,
                        Cardinality(Below(i)) = Cardinality(Below(j))
                 PROVE  FALSE
      OBVIOUS
    <2>1. Below(i) \in SUBSET Below(j) /\ j \in Below(j) /\ j \notin Below(i)
      BY <1>1
    <2>2. Below(j) = Below(i)
      BY <1>3, <2>1, FS_Subset
    <2> QED BY <2>1, <2>2
  <1>5. Rank \in Injection(keep, 1..n)
    <2>1. \A i, j \in keep : Rank[i] = Rank[j] => i = j
      BY <1>1, <1>4
    <2> QED BY <1>3, <2>1 DEF Injection, IsInjective
  <1>6. Rank \in Surjection(keep, 1..n)
    <2>1. IsFiniteSet(1..n) /\ Cardinality(1..n) = n
      BY <1>2, FS_Interval
    <2> QED BY <1>5, <2>1, FS_Injection
  <1>7. \A j \in 1..n : \E i \in keep : Cardinality(Below(i)) = j
    BY <1>6 DEF Surjection
  <1>8. \A j \in 1..n : q[CHOOSE i \in keep : Cardinality(Below(i)) = j] \in Agents
    <2> TAKE j \in 1..n
    <2>1. (CHOOSE i \in keep : Cardinality(Below(i)) = j) \in keep
      BY <1>7
    <2> QED BY <1>1, <2>1
  <1>9. Retain(q, a) = [j \in 1..n |-> q[CHOOSE i \in keep : Cardinality(Below(i)) = j]]
    BY DEF Retain
  <1>10. Retain(q, a) \in [1..n -> Agents]
    <2> DEFINE Entry(j) == q[CHOOSE i \in keep : Cardinality(Below(i)) = j]
    <2>1. \A j \in 1..n : Entry(j) \in Agents
      BY <1>8
    <2>2. Retain(q, a) = [j \in 1..n |-> Entry(j)]
      BY <1>9
    <2> HIDE DEF Entry, n
    <2> QED BY <2>1, <2>2
  <1>11. ASSUME NEW b \in Elems(q) \ {a}
         PROVE  \E j \in 1..n : Retain(q, a)[j] = b
    <2>1. PICK i \in 1..Len(q) : q[i] = b
      BY DEF Elems
    <2>2. i \in keep
      BY <2>1
    <2>3. PICK j \in 1..n : j = Cardinality(Below(i))
      BY <1>3, <2>2
    <2>4. \A k \in keep : Cardinality(Below(k)) = j => k = i
      BY <1>1, <1>4, <2>2, <2>3
    <2>5. (CHOOSE k \in keep : Cardinality(Below(k)) = j) = i
      <3> DEFINE c == CHOOSE k \in keep : Cardinality(Below(k)) = j
      <3>1. c \in keep /\ Cardinality(Below(c)) = j
        BY <1>7
      <3> HIDE DEF c, Below, keep
      <3>2. c = i
        BY <2>4, <3>1
      <3> QED BY <3>2 DEF c
    <2> DEFINE Entry(k) == q[CHOOSE l \in keep : Cardinality(Below(l)) = k]
    <2>6. Retain(q, a) = [k \in 1..n |-> Entry(k)]
      BY <1>9
    <2>7. Entry(j) = b
      BY <2>1, <2>5
    <2> HIDE DEF Entry, n
    <2>8. Retain(q, a)[j] = Entry(j)
      BY <2>6
    <2> QED BY <2>7, <2>8
  <1> HIDE DEF n
  <1>12. Retain(q, a) \in Seq(Agents) /\ Len(Retain(q, a)) = n
    BY <1>2, <1>10
  <1> QED BY <1>11, <1>12 DEF Elems

\* What the end of a hand-off, or of one turn of a loop, leaves: p is at a file
\* or out of the loop, and only p has moved.
LEMMA NextFileFacts ==
  ASSUME TypeOK, NEW p \in Procs, todo[p] # <<>>,
         NEW label \in Labels, NEW end \in Labels \ LoopLabels,
         NextFile(p, label, end)
  PROVE  /\ todo' \in [Procs -> Seq(Files)]
         /\ pc' \in [Procs -> Labels]
         /\ op' \in [Procs -> Callers]
         /\ \A q \in Procs \ {p} : pc'[q] = pc[q] /\ todo'[q] = todo[q]
         /\ pc'[p] \in {label, end}
         /\ pc'[p] \in LoopLabels => todo'[p] # <<>>
  <1>1. todo[p] \in Seq(Files) /\ Tail(todo[p]) \in Seq(Files)
    BY DEF TypeOK
  <1>2. todo' = [todo EXCEPT ![p] = Tail(todo[p])]
    BY DEF NextFile
  <1>3. todo' \in [Procs -> Seq(Files)] /\ todo'[p] = Tail(todo[p])
    BY <1>1, <1>2 DEF TypeOK
  <1>4. /\ pc' \in [Procs -> Labels]
        /\ pc'[p] = IF Tail(todo[p]) = <<>> THEN end ELSE label
    BY DEF NextFile, Goto, TypeOK
  <1>5. op' \in [Procs -> Callers]
    BY DEF NextFile, TypeOK, Callers
  <1>6. \A q \in Procs \ {p} : pc'[q] = pc[q] /\ todo'[q] = todo[q]
    BY DEF NextFile, Goto, TypeOK
  <1> QED BY <1>3, <1>4, <1>5, <1>6

\* The same for the return from grant_to_next_in_queue.
LEMMA GrantedFacts ==
  ASSUME TypeOK, NEW p \in Procs, todo[p] # <<>>, Granted(p)
  PROVE  /\ todo' \in [Procs -> Seq(Files)]
         /\ pc' \in [Procs -> Labels]
         /\ op' \in [Procs -> Callers]
         /\ \A q \in Procs \ {p} : pc'[q] = pc[q] /\ todo'[q] = todo[q]
         /\ pc'[p] \in {"unqueue", "pop", "purge", "force", "release", "idle"}
         /\ pc'[p] \in LoopLabels => todo'[p] # <<>>
  <1>1. CASE op[p] = "rollback"
    BY <1>1 DEF Granted, Goto, TypeOK, Labels
  <1>2. CASE op[p] = "releaseAll"
    <2>1. NextFile(p, "pop", "purge")
      BY <1>2 DEF Granted
    <2> QED BY <2>1, NextFileFacts DEF Labels, LoopLabels
  <1>3. CASE op[p] = "sweep"
    <2>1. NextFile(p, "force", "idle")
      BY <1>3 DEF Granted
    <2> QED BY <2>1, NextFileFacts DEF Labels, LoopLabels
  <1>4. CASE op[p] \notin {"rollback", "releaseAll", "sweep"}
    <2>1. NextFile(p, "release", "idle")
      BY <1>4 DEF Granted
    <2> QED BY <2>1, NextFileFacts DEF Labels, LoopLabels
  <1> QED BY <1>1, <1>2, <1>3, <1>4

\* The labels of a declaration, from its first file to its result.
DeclLabels ==
  {"try", "wait", "undo", "requeue", "register", "held", "queued"}

\* A step of p leaves the other agents' calls and locks alone.
KeepsOthers(p) ==
  \A b \in Agents \ {p} :
    /\ pc'[b] = pc[b] /\ todo'[b] = todo[b]
    /\ got'[b] = got[b] /\ declared'[b] = declared[b]
    /\ \A f \in Files : lock[f] = b => lock'[f] = b
    /\ \A f \in Files : <<b, f>> \in stripped => <<b, f>> \in stripped'

\* Such a step preserves what the others own.
LEMMA OthersOwn ==
  ASSUME TypeOK, OwnInv, NEW p \in Procs, KeepsOthers(p),
         NEW b \in Agents \ {p}
  PROVE  /\ pc'[b] \in {"try", "wait"} =>
              /\ Elems(todo'[b]) \subseteq Elems(declared'[b])
              /\ Elems(got'[b]) \subseteq Elems(declared'[b])
              /\ \A f \in Elems(got'[b]) : lock'[f] = b \/ <<b, f>> \in stripped'
         /\ pc'[b] \in {"undo", "requeue"} => got'[b] # declared'[b]
         /\ pc'[b] = "register" /\ got'[b] = declared'[b] =>
              \A f \in Elems(got'[b]) : lock'[f] = b \/ <<b, f>> \in stripped'
         /\ pc'[b] = "held" =>
              \A f \in Elems(declared'[b]) : lock'[f] = b \/ <<b, f>> \in stripped'
  <1>0. got[b] \in Seq(Files) /\ declared[b] \in Seq(Files)
    <2>1. declared[b] \in Declarations \cup {<<>>} /\ got[b] \in Seq(Files)
      BY DEF TypeOK
    <2>2. <<>> \in Seq(Files) /\ Declarations \subseteq Seq(Files)
      BY FileLocksAssumption
    <2> QED BY <2>1, <2>2, Zenon
  <1>1. /\ pc'[b] = pc[b] /\ todo'[b] = todo[b]
        /\ got'[b] = got[b] /\ declared'[b] = declared[b]
    BY Zenon DEF KeepsOthers
  <1>2. \A f \in Files : (lock[f] = b \/ <<b, f>> \in stripped)
                           => (lock'[f] = b \/ <<b, f>> \in stripped')
    BY Zenon DEF KeepsOthers
  <1>3. Elems(got[b]) \subseteq Files /\ Elems(declared[b]) \subseteq Files
    BY <1>0, ElemsFacts
  <1> QED BY <1>1, <1>2, <1>3 DEF OwnInv, Owns

\* ... and OwnInv as a whole, when p is not, or no longer, declaring.
LEMMA OwnKept ==
  ASSUME TypeOK, OwnInv, NEW p \in Procs, KeepsOthers(p),
         p \in Agents => pc'[p] \notin DeclLabels
  PROVE  OwnInv'
  <1>1. \A b \in Agents \ {p} :
          /\ pc'[b] \in {"try", "wait"} =>
               /\ Elems(todo'[b]) \subseteq Elems(declared'[b])
               /\ Elems(got'[b]) \subseteq Elems(declared'[b])
               /\ \A f \in Elems(got'[b]) : lock'[f] = b \/ <<b, f>> \in stripped'
          /\ pc'[b] \in {"undo", "requeue"} => got'[b] # declared'[b]
          /\ pc'[b] = "register" /\ got'[b] = declared'[b] =>
               \A f \in Elems(got'[b]) : lock'[f] = b \/ <<b, f>> \in stripped'
          /\ pc'[b] = "held" =>
               \A f \in Elems(declared'[b]) : lock'[f] = b \/ <<b, f>> \in stripped'
    BY OthersOwn
  <1> QED BY <1>1 DEF OwnInv, Owns, DeclLabels

\* The file a loop is at.
LEMMA CurFacts ==
  ASSUME TypeOK, NEW p \in Procs, todo[p] # <<>>
  PROVE  /\ Cur(p) \in Files
         /\ Cur(p) \in Elems(todo[p])
         /\ todo[p] \in Seq(Files)
         /\ Tail(todo[p]) \in Seq(Files)
         /\ Elems(Tail(todo[p])) \subseteq Elems(todo[p])
  <1>1. todo[p] \in Seq(Files)
    BY DEF TypeOK
  <1> QED BY <1>1, ElemsFacts DEF Cur

\* Every step preserves the inductive invariant.
LEMMA IndInvStep == IndInv /\ [Next]_vars => IndInv'
  <1> SUFFICES ASSUME IndInv, [Next]_vars
               PROVE  IndInv'
    OBVIOUS
  <1> USE FileLocksAssumption
  <1>0. TypeOK /\ LoopInv /\ OwnInv
    BY DEF IndInv
  <1>1. ASSUME NEW a \in Agents, NEW fs \in Declarations, Declare(a, fs)
       PROVE  IndInv'
    <2>1. TypeOK'
      BY <1>0, <1>1
      DEF TypeOK, LoopInv, LoopLabels, Declare, Goto, Procs, Labels,
          Callers
    <2>2. LoopInv'
      BY <1>0, <1>1
      DEF TypeOK, LoopInv, LoopLabels, Declare, Goto, Procs
    <2>3. OwnInv'
      <3>1. a \in Procs /\ KeepsOthers(a)
        BY <1>0, <1>1 DEF Declare, Goto, KeepsOthers, TypeOK, Procs
      <3>2. /\ pc'[a] = "try" /\ todo'[a] = fs /\ declared'[a] = fs
            /\ got'[a] = <<>> /\ Elems(<<>>) = {}
        BY <1>0, <1>1, <3>1 DEF Declare, Goto, TypeOK, Elems
      <3> QED BY <1>0, <3>1, <3>2, OthersOwn DEF OwnInv, Owns
    <2> QED BY <2>1, <2>2, <2>3 DEF IndInv
  <1>2. ASSUME NEW a \in Agents, TryLock(a)
       PROVE  IndInv'
    <2>0. /\ a \in Procs /\ todo[a] # <<>> /\ Cur(a) \in Files
          /\ Cur(a) \in Elems(todo[a])
          /\ todo[a] \in Seq(Files) /\ Tail(todo[a]) \in Seq(Files)
          /\ Elems(Tail(todo[a])) \subseteq Elems(todo[a])
      <3>1. a \in Procs /\ todo[a] # <<>>
        BY <1>2 DEF TryLock, Procs
      <3> QED BY <1>0, <3>1, CurFacts
    <2>00. /\ Append(got[a], Cur(a)) \in Seq(Files)
           /\ Elems(Append(got[a], Cur(a))) = Elems(got[a]) \cup {Cur(a)}
      <3>1. got[a] \in Seq(Files)
        BY <1>0 DEF TypeOK
      <3> QED BY <2>0, <3>1, ElemsFacts
    <2>1. TypeOK'
      <3> HIDE FileLocksAssumption
      <3>1. lock' \in [Files -> Agents \cup {NoAgent}] /\ old' \in SUBSET Files
        BY <1>0, <1>2, <2>0 DEF TryLock, PutLock, TypeOK
      <3>2. todo' \in [Procs -> Seq(Files)]
        BY <1>0, <1>2, <2>0 DEF TryLock, TypeOK
      <3>3. got' \in [Agents -> Seq(Files)]
        BY <1>0, <1>2, <2>00 DEF TryLock, TypeOK
      <3>4. pc' \in [Procs -> Labels]
        BY <1>0, <1>2, <2>0 DEF TryLock, TypeOK, Goto, Labels
      <3> QED BY <1>0, <1>2, <3>1, <3>2, <3>3, <3>4 DEF TryLock, TypeOK
    <2>2. LoopInv'
      BY <1>0, <1>2
      DEF TypeOK, LoopInv, LoopLabels, TryLock, Goto, Cur, PutLock,
          CanLock, Procs
    <2>3. OwnInv'
      <3>1. KeepsOthers(a)
        BY <1>0, <1>2, <2>0
        DEF TryLock, CanLock, PutLock, Goto, KeepsOthers, TypeOK, Procs
      <3>2. /\ declared'[a] = declared[a] /\ pc'[a] \in {"try", "wait"}
            /\ Elems(todo'[a]) \subseteq Elems(todo[a])
        BY <1>0, <1>2, <2>0 DEF TryLock, Goto, TypeOK
      <3>3. /\ Elems(todo[a]) \subseteq Elems(declared[a])
            /\ Elems(got[a]) \subseteq Elems(declared[a])
            /\ Owns(a, got[a])
        BY <1>0, <1>2 DEF TryLock, OwnInv
      <3>4. CASE CanLock(Cur(a), a)
        <4>1. /\ got'[a] = Append(got[a], Cur(a)) /\ lock'[Cur(a)] = a
              /\ stripped' = stripped
              /\ \A f \in Files : lock[f] = a => lock'[f] = a
          BY <1>0, <1>2, <2>0, <3>4 DEF TryLock, PutLock, TypeOK
        <4>2. Elems(got[a]) \subseteq Files
          BY <1>0, ElemsFacts DEF TypeOK
        <4>3. /\ Elems(got'[a]) \subseteq Elems(declared'[a])
              /\ \A f \in Elems(got'[a]) : lock'[f] = a \/ <<a, f>> \in stripped'
          BY <2>0, <2>00, <3>2, <3>3, <4>1, <4>2 DEF Owns
        <4> QED BY <1>0, <2>0, <3>1, <3>2, <3>3, <4>3, OthersOwn DEF OwnInv, Owns
      <3>5. CASE ~ CanLock(Cur(a), a)
        <4>1. got'[a] = got[a] /\ lock' = lock /\ stripped' = stripped
          BY <1>2, <3>5 DEF TryLock
        <4> QED BY <1>0, <2>0, <3>1, <3>2, <3>3, <4>1, OthersOwn DEF OwnInv, Owns
      <3> QED BY <3>4, <3>5
    <2> QED BY <2>1, <2>2, <2>3 DEF IndInv
  <1>3. ASSUME NEW a \in Agents, EnqueueWait(a)
       PROVE  IndInv'
    <2>0. /\ a \in Procs /\ todo[a] # <<>> /\ Cur(a) \in Files
          /\ Cur(a) \in Elems(todo[a])
          /\ todo[a] \in Seq(Files) /\ Tail(todo[a]) \in Seq(Files)
          /\ Elems(Tail(todo[a])) \subseteq Elems(todo[a])
      <3>1. a \in Procs /\ todo[a] # <<>>
        BY <1>0, <1>3 DEF LoopInv, LoopLabels, EnqueueWait, Procs
      <3> QED BY <1>0, <3>1, CurFacts
    <2>1. TypeOK'
      BY <1>0, <1>3
      DEF TypeOK, LoopInv, LoopLabels, EnqueueWait, Goto, Cur, Enqueue,
          Procs, Labels, Callers
    <2>2. LoopInv'
      BY <1>0, <1>3
      DEF TypeOK, LoopInv, LoopLabels, EnqueueWait, Goto, Cur, Enqueue,
          Procs
    <2>3. OwnInv'
      <3>1. KeepsOthers(a)
        BY <1>0, <1>3, <2>0 DEF EnqueueWait, Goto, KeepsOthers, TypeOK
      <3>2. /\ declared'[a] = declared[a] /\ pc'[a] = "try" /\ got'[a] = got[a]
            /\ Elems(todo'[a]) \subseteq Elems(todo[a])
            /\ lock' = lock /\ stripped' = stripped
        BY <1>0, <1>3, <2>0 DEF EnqueueWait, Goto, TypeOK
      <3>3. /\ Elems(todo[a]) \subseteq Elems(declared[a])
            /\ Elems(got[a]) \subseteq Elems(declared[a])
            /\ Owns(a, got[a])
        BY <1>0, <1>3 DEF EnqueueWait, OwnInv
      <3> QED BY <1>0, <2>0, <3>1, <3>2, <3>3, OthersOwn DEF OwnInv, Owns
    <2> QED BY <2>1, <2>2, <2>3 DEF IndInv
  <1>4. ASSUME NEW a \in Agents, Settle(a)
       PROVE  IndInv'
    <2>1. TypeOK'
      BY <1>0, <1>4
      DEF TypeOK, LoopInv, LoopLabels, Settle, Goto, Procs, Labels,
          Callers
    <2>2. LoopInv'
      BY <1>0, <1>4
      DEF TypeOK, LoopInv, LoopLabels, Settle, Goto, Procs
    <2>3. OwnInv'
      BY <1>0, <1>4
      DEF TypeOK, LoopInv, OwnInv, Owns, Settle, Goto, Procs
    <2> QED BY <2>1, <2>2, <2>3 DEF IndInv
  <1>5. ASSUME NEW a \in Agents, UndoLock(a)
       PROVE  IndInv'
    <2>0. /\ a \in Procs /\ todo[a] # <<>> /\ Cur(a) \in Files
          /\ Cur(a) \in Elems(todo[a])
          /\ todo[a] \in Seq(Files) /\ Tail(todo[a]) \in Seq(Files)
          /\ Elems(Tail(todo[a])) \subseteq Elems(todo[a])
      <3>1. a \in Procs /\ todo[a] # <<>>
        BY <1>0, <1>5 DEF LoopInv, LoopLabels, UndoLock, Procs
      <3> QED BY <1>0, <3>1, CurFacts
    <2>1. TypeOK'
      <3>1. lock' \in [Files -> Agents \cup {NoAgent}] /\ old' \in SUBSET Files
        BY <1>0, <1>5, <2>0 DEF UndoLock, DeleteLock, TypeOK
      <3>2. todo' \in [Procs -> Seq(Files)]
        BY <1>0, <1>5, <2>0 DEF UndoLock, TypeOK
      <3>3. pc' \in [Procs -> Labels]
        <4>1. pc' \in {pc, [pc EXCEPT ![a] = "requeue"]}
          BY <1>5 DEF UndoLock, Goto
        <4> QED BY <1>0, <4>1 DEF TypeOK, Labels
      <3> QED BY <1>0, <1>5, <3>1, <3>2, <3>3 DEF UndoLock, TypeOK
    <2>2. LoopInv'
      BY <1>0, <1>5
      DEF TypeOK, LoopInv, LoopLabels, UndoLock, Goto, Cur, DeleteLock,
          Procs
    <2>3. OwnInv'
      <3>1. KeepsOthers(a)
        BY <1>0, <1>5, <2>0
        DEF UndoLock, DeleteLock, Goto, KeepsOthers, TypeOK, Procs
      <3>2. /\ declared'[a] = declared[a] /\ got'[a] = got[a]
            /\ pc'[a] \in {"undo", "requeue"} /\ got[a] # declared[a]
        BY <1>0, <1>5, <2>0 DEF UndoLock, Goto, TypeOK, OwnInv
      <3> QED BY <1>0, <2>0, <3>1, <3>2, OthersOwn DEF OwnInv, Owns
    <2> QED BY <2>1, <2>2, <2>3 DEF IndInv
  <1>6. ASSUME NEW a \in Agents, Requeue(a)
       PROVE  IndInv'
    <2>0. /\ a \in Procs /\ todo[a] # <<>> /\ Cur(a) \in Files
          /\ Cur(a) \in Elems(todo[a])
          /\ todo[a] \in Seq(Files) /\ Tail(todo[a]) \in Seq(Files)
          /\ Elems(Tail(todo[a])) \subseteq Elems(todo[a])
      <3>1. a \in Procs /\ todo[a] # <<>>
        BY <1>0, <1>6 DEF LoopInv, LoopLabels, Requeue, Procs
      <3> QED BY <1>0, <3>1, CurFacts
    <2>1. TypeOK'
      BY <1>0, <1>6
      DEF TypeOK, LoopInv, LoopLabels, Requeue, Goto, NextFile, Cur,
          Enqueue, Procs, Labels, Callers
    <2>2. LoopInv'
      BY <1>0, <1>6
      DEF TypeOK, LoopInv, LoopLabels, Requeue, Goto, NextFile, Cur,
          Enqueue, Procs
    <2>3. OwnInv'
      BY <1>0, <1>6
      DEF TypeOK, LoopInv, OwnInv, Owns, Requeue, Goto, NextFile, Cur,
          Enqueue, Procs
    <2> QED BY <2>1, <2>2, <2>3 DEF IndInv
  <1>7. ASSUME NEW a \in Agents, Register(a)
       PROVE  IndInv'
    <2>1. TypeOK'
      BY <1>0, <1>7
      DEF TypeOK, LoopInv, LoopLabels, Register, Goto, Procs, Labels,
          Callers
    <2>2. LoopInv'
      BY <1>0, <1>7
      DEF TypeOK, LoopInv, LoopLabels, Register, Goto, Procs
    <2>3. OwnInv'
      BY <1>0, <1>7
      DEF TypeOK, LoopInv, OwnInv, Owns, Register, Goto, Procs
    <2> QED BY <2>1, <2>2, <2>3 DEF IndInv
  <1>8. ASSUME NEW a \in Agents, RegisterFails(a)
       PROVE  IndInv'
    <2>1. TypeOK'
      BY <1>0, <1>8
      DEF TypeOK, LoopInv, LoopLabels, RegisterFails, Goto,
          EndDeclaration, Procs, Labels, Callers
    <2>2. LoopInv'
      BY <1>0, <1>8
      DEF TypeOK, LoopInv, LoopLabels, RegisterFails, Goto,
          EndDeclaration, Procs
    <2>3. OwnInv'
      BY <1>0, <1>8
      DEF TypeOK, LoopInv, OwnInv, Owns, RegisterFails, Goto,
          EndDeclaration, Procs
    <2> QED BY <2>1, <2>2, <2>3 DEF IndInv
  <1>9. ASSUME NEW a \in Agents, Proceed(a)
       PROVE  IndInv'
    <2>1. TypeOK'
      BY <1>0, <1>9
      DEF TypeOK, LoopInv, LoopLabels, Proceed, Goto, Procs, Labels,
          Callers
    <2>2. LoopInv'
      BY <1>0, <1>9
      DEF TypeOK, LoopInv, LoopLabels, Proceed, Goto, Procs
    <2>3. OwnInv'
      BY <1>0, <1>9
      DEF TypeOK, LoopInv, OwnInv, Owns, Proceed, Goto, Procs
    <2> QED BY <2>1, <2>2, <2>3 DEF IndInv
  <1>10. ASSUME NEW a \in Agents, Abandon(a)
       PROVE  IndInv'
    <2>0. a \in Procs
      BY DEF Procs
    <2>1. TypeOK'
      <3>1. declared[a] \in Declarations
        BY <1>0, <1>10 DEF Abandon, TypeOK, LoopInv
      <3> QED BY <1>0, <1>10, <2>0, <3>1
          DEF Abandon, EndDeclaration, Goto, TypeOK, Labels
    <2>2. LoopInv'
      BY <1>0, <1>10
      DEF TypeOK, LoopInv, LoopLabels, Abandon, Goto, EndDeclaration,
          Procs
    <2>3. OwnInv'
      <3>1. KeepsOthers(a)
        BY <1>0, <2>0, <1>10
        DEF TypeOK, KeepsOthers, Abandon, Goto, EndDeclaration, Procs
      <3>2. a \in Agents => pc'[a] \notin DeclLabels
        BY <1>0, <2>0, <1>10
        DEF TypeOK, DeclLabels, Abandon, Goto, EndDeclaration
      <3> QED BY <1>0, <2>0, <3>1, <3>2, OwnKept
    <2> QED BY <2>1, <2>2, <2>3 DEF IndInv
  <1>11. ASSUME NEW a \in Agents, Unqueue(a)
       PROVE  IndInv'
    <2>0. /\ a \in Procs /\ todo[a] # <<>> /\ Cur(a) \in Files
          /\ Cur(a) \in Elems(todo[a])
          /\ todo[a] \in Seq(Files) /\ Tail(todo[a]) \in Seq(Files)
          /\ Elems(Tail(todo[a])) \subseteq Elems(todo[a])
      <3>1. a \in Procs /\ todo[a] # <<>>
        BY <1>0, <1>11 DEF LoopInv, LoopLabels, Unqueue, Procs
      <3> QED BY <1>0, <3>1, CurFacts
    <2>1. TypeOK'
      <3>1. queue' \in [Files -> Seq(Agents)]
        <4>1. queue[Cur(a)] \in Seq(Agents)
          BY <1>0, <2>0 DEF TypeOK
        <4>2. Retain(queue[Cur(a)], a) \in Seq(Agents)
          BY <4>1, RetainFacts
        <4> QED BY <1>0, <1>11, <2>0, <4>2 DEF Unqueue, TypeOK
      <3>2. \E label \in {"release", "unqueue"} : NextFile(a, label, "idle")
        BY <1>11 DEF Unqueue
      <3>3. /\ todo' \in [Procs -> Seq(Files)] /\ pc' \in [Procs -> Labels]
            /\ op' \in [Procs -> Callers]
        BY <1>0, <2>0, <3>2, NextFileFacts DEF Labels, LoopLabels
      <3> QED BY <1>0, <1>11, <3>1, <3>3 DEF Unqueue, TypeOK
    <2>2. LoopInv'
      BY <1>0, <1>11
      DEF TypeOK, LoopInv, LoopLabels, Unqueue, Goto, NextFile, Cur, Procs
    <2>3. OwnInv'
      <3>1. KeepsOthers(a)
        BY <1>0, <2>0, <1>11
        DEF TypeOK, KeepsOthers, Unqueue, Goto, NextFile, Cur, Procs
      <3>2. a \in Agents => pc'[a] \notin DeclLabels
        BY <1>0, <2>0, <1>11
        DEF TypeOK, DeclLabels, Unqueue, Goto, NextFile, Cur
      <3> QED BY <1>0, <2>0, <3>1, <3>2, OwnKept
    <2> QED BY <2>1, <2>2, <2>3 DEF IndInv
  <1>12. ASSUME NEW a \in Agents, StartRelease(a)
       PROVE  IndInv'
    <2>1. TypeOK'
      BY <1>0, <1>12
      DEF TypeOK, LoopInv, LoopLabels, StartRelease, Goto, EndDeclaration,
          Procs, Labels, Callers
    <2>2. LoopInv'
      BY <1>0, <1>12
      DEF TypeOK, LoopInv, LoopLabels, StartRelease, Goto, EndDeclaration,
          Procs
    <2>3. OwnInv'
      BY <1>0, <1>12
      DEF TypeOK, LoopInv, OwnInv, Owns, StartRelease, Goto,
          EndDeclaration, Procs
    <2> QED BY <2>1, <2>2, <2>3 DEF IndInv
  <1>13. ASSUME NEW a \in Agents, ReleaseLock(a)
       PROVE  IndInv'
    <2>0. /\ a \in Procs /\ todo[a] # <<>> /\ Cur(a) \in Files
          /\ Cur(a) \in Elems(todo[a])
          /\ todo[a] \in Seq(Files) /\ Tail(todo[a]) \in Seq(Files)
          /\ Elems(Tail(todo[a])) \subseteq Elems(todo[a])
      <3>1. a \in Procs /\ todo[a] # <<>>
        BY <1>0, <1>13 DEF LoopInv, LoopLabels, ReleaseLock, Procs
      <3> QED BY <1>0, <3>1, CurFacts
    <2>1. TypeOK'
      <3>1. CASE lock[Cur(a)] = a
        BY <1>0, <1>13, <2>0, <3>1
        DEF ReleaseLock, DeleteLock, Goto, TypeOK, Labels, LoopInv, LoopLabels
      <3>2. CASE lock[Cur(a)] # a /\ op[a] = "rollback"
        BY <1>0, <1>13, <2>0, <3>2
        DEF ReleaseLock, Goto, TypeOK, Labels, LoopInv, LoopLabels
      <3>3. CASE lock[Cur(a)] # a /\ op[a] # "rollback"
        <4>1. NextFile(a, "release", "idle")
          BY <1>13, <3>3 DEF ReleaseLock
        <4>2. /\ todo' \in [Procs -> Seq(Files)] /\ pc' \in [Procs -> Labels]
              /\ op' \in [Procs -> Callers]
              /\ \A q \in Procs \ {a} : pc'[q] = pc[q] /\ todo'[q] = todo[q]
              /\ pc'[a] \in {"release", "idle"}
              /\ pc'[a] \in LoopLabels => todo'[a] # <<>>
          BY <1>0, <2>0, <4>1, NextFileFacts DEF Labels, LoopLabels
        <4> QED BY <1>0, <1>13, <2>0, <3>3, <4>2
            DEF ReleaseLock, TypeOK, LoopInv, Procs
      <3> QED BY <3>1, <3>2, <3>3
    <2>2. LoopInv'
      <3>1. CASE lock[Cur(a)] = a
        <4>1. /\ todo' = todo /\ declared' = declared /\ got' = got
              /\ popped' = popped /\ pc' = [pc EXCEPT ![a] = "pop"]
          BY <1>13, <3>1 DEF ReleaseLock, Goto
        <4> QED BY <1>0, <2>0, <4>1 DEF TypeOK, LoopInv, Procs
      <3>2. CASE lock[Cur(a)] # a /\ op[a] = "rollback"
        <4>1. /\ todo' = todo /\ declared' = declared /\ got' = got
              /\ popped' = popped /\ pc' = [pc EXCEPT ![a] = "unqueue"]
          BY <1>13, <3>2 DEF ReleaseLock, Goto
        <4> QED BY <1>0, <2>0, <4>1 DEF TypeOK, LoopInv, Procs
      <3>3. CASE lock[Cur(a)] # a /\ op[a] # "rollback"
        <4>1. NextFile(a, "release", "idle")
          BY <1>13, <3>3 DEF ReleaseLock
        <4>2. /\ todo' \in [Procs -> Seq(Files)] /\ pc' \in [Procs -> Labels]
              /\ op' \in [Procs -> Callers]
              /\ \A q \in Procs \ {a} : pc'[q] = pc[q] /\ todo'[q] = todo[q]
              /\ pc'[a] \in {"release", "idle"}
              /\ pc'[a] \in LoopLabels => todo'[a] # <<>>
          BY <1>0, <2>0, <4>1, NextFileFacts DEF Labels, LoopLabels
        <4> QED BY <1>0, <1>13, <2>0, <3>3, <4>2
            DEF ReleaseLock, TypeOK, LoopInv, Procs
      <3> QED BY <3>1, <3>2, <3>3
    <2>3. OwnInv'
      <3>1. CASE lock[Cur(a)] # a /\ op[a] # "rollback"
        <4>1. NextFile(a, "release", "idle")
          BY <1>13, <3>1 DEF ReleaseLock
        <4>2. /\ \A q \in Procs \ {a} : pc'[q] = pc[q] /\ todo'[q] = todo[q]
              /\ pc'[a] \in {"release", "idle"}
          BY <1>0, <2>0, <4>1, NextFileFacts DEF Labels, LoopLabels
        <4>3. KeepsOthers(a)
          BY <1>13, <3>1, <4>2 DEF ReleaseLock, KeepsOthers, Procs
        <4>4. pc'[a] \notin DeclLabels
          BY <4>2 DEF DeclLabels
        <4> QED BY <1>0, <2>0, <4>3, <4>4, OwnKept
      <3>2. CASE lock[Cur(a)] = a \/ op[a] = "rollback"
        <4>1. KeepsOthers(a)
          BY <1>0, <1>13, <2>0, <3>2
          DEF ReleaseLock, DeleteLock, Goto, KeepsOthers, TypeOK, Procs
        <4>2. pc'[a] \notin DeclLabels
          BY <1>0, <1>13, <2>0, <3>2 DEF ReleaseLock, Goto, TypeOK, DeclLabels
        <4> QED BY <1>0, <2>0, <4>1, <4>2, OwnKept
      <3> QED BY <3>1, <3>2
    <2> QED BY <2>1, <2>2, <2>3 DEF IndInv
  <1>14. ASSUME NEW a \in Agents, StartDrop(a)
       PROVE  IndInv'
    <2>1. TypeOK'
      BY <1>0, <1>14
      DEF TypeOK, LoopInv, LoopLabels, StartDrop, Goto, EndDeclaration,
          Procs, Labels, Callers
    <2>2. LoopInv'
      BY <1>0, <1>14
      DEF TypeOK, LoopInv, LoopLabels, StartDrop, Goto, EndDeclaration,
          Procs
    <2>3. OwnInv'
      BY <1>0, <1>14
      DEF TypeOK, LoopInv, OwnInv, Owns, StartDrop, Goto, EndDeclaration,
          Procs
    <2> QED BY <2>1, <2>2, <2>3 DEF IndInv
  <1>15. ASSUME NEW a \in Agents, DropGuard(a)
       PROVE  IndInv'
    <2>0. /\ a \in Procs /\ todo[a] # <<>> /\ Cur(a) \in Files
          /\ Cur(a) \in Elems(todo[a])
          /\ todo[a] \in Seq(Files) /\ Tail(todo[a]) \in Seq(Files)
          /\ Elems(Tail(todo[a])) \subseteq Elems(todo[a])
      <3>1. a \in Procs /\ todo[a] # <<>>
        BY <1>0, <1>15 DEF LoopInv, LoopLabels, DropGuard, Procs
      <3> QED BY <1>0, <3>1, CurFacts
    <2>00. /\ todo' \in [Procs -> Seq(Files)] /\ pc' \in [Procs -> Labels]
           /\ op' \in [Procs -> Callers]
           /\ \A q \in Procs \ {a} : pc'[q] = pc[q] /\ todo'[q] = todo[q]
           /\ pc'[a] \in {"drop", "idle"}
           /\ pc'[a] \in LoopLabels => todo'[a] # <<>>
      <3>1. NextFile(a, "drop", "idle")
        BY <1>15 DEF DropGuard
      <3> QED BY <1>0, <2>0, <3>1, NextFileFacts DEF Labels, LoopLabels
    <2>1. TypeOK'
      <3>1. lock' \in [Files -> Agents \cup {NoAgent}] /\ old' \in SUBSET Files
        BY <1>0, <1>15, <2>0 DEF DropGuard, DeleteLock, TypeOK
      <3> QED BY <1>0, <1>15, <2>00, <3>1 DEF DropGuard, TypeOK
    <2>2. LoopInv'
      BY <1>0, <1>15
      DEF TypeOK, LoopInv, LoopLabels, DropGuard, Goto, NextFile, Cur,
          DeleteLock, Procs
    <2>3. OwnInv'
      <3>1. KeepsOthers(a)
        BY <1>0, <1>15, <2>0, <2>00
        DEF DropGuard, DeleteLock, KeepsOthers, TypeOK, Procs
      <3>2. pc'[a] \notin DeclLabels
        BY <2>00 DEF DeclLabels
      <3> QED BY <1>0, <2>0, <3>1, <3>2, OwnKept
    <2> QED BY <2>1, <2>2, <2>3 DEF IndInv
  <1>16. ASSUME NEW a \in Agents, ReleaseAll(a)
       PROVE  IndInv'
    <2> DEFINE mine == {f \in Files : lock[f] = a}
    <2>0. a \in Procs
      BY DEF Procs
    <2>00. PICK s \in Orders(mine) : todo' = [todo EXCEPT ![a] = s]
      BY <1>16 DEF ReleaseAll
    <2>000. s \in Seq(Files) /\ (mine # {} => s # <<>>)
      BY OrdersType
    <2>1. TypeOK'
      <3>1. todo' \in [Procs -> Seq(Files)]
        BY <1>0, <2>00, <2>000 DEF TypeOK
      <3>2. lock' \in [Files -> Agents \cup {NoAgent}] /\ old' \in SUBSET Files
        BY <1>0, <1>16 DEF ReleaseAll, TypeOK
      <3>3. pc' \in [Procs -> Labels] /\ op' \in [Procs -> Callers]
        BY <1>0, <1>16 DEF ReleaseAll, Goto, TypeOK, Labels, Callers
      <3> QED BY <1>0, <1>16, <3>1, <3>2, <3>3 DEF ReleaseAll, EndDeclaration, TypeOK
    <2>2. LoopInv'
      <3>1. /\ pc'[a] = IF mine = {} THEN "purge" ELSE "pop"
            /\ todo'[a] = s
            /\ \A q \in Procs \ {a} : pc'[q] = pc[q] /\ todo'[q] = todo[q]
            /\ \A b \in Agents \ {a} : declared'[b] = declared[b] /\ got'[b] = got[b]
            /\ popped' = popped
        BY <1>0, <1>16, <2>0, <2>00 DEF ReleaseAll, EndDeclaration, Goto, TypeOK
      <3>2. pc'[a] \in LoopLabels => todo'[a] # <<>>
        BY <2>000, <3>1 DEF LoopLabels
      <3> QED BY <1>0, <3>1, <3>2 DEF LoopInv, Procs
    <2>3. OwnInv'
      <3>1. KeepsOthers(a)
        BY <1>0, <1>16, <2>0, <2>00
        DEF ReleaseAll, EndDeclaration, Goto, KeepsOthers, TypeOK, Procs
      <3>2. pc'[a] \notin DeclLabels
        BY <1>0, <1>16, <2>0 DEF ReleaseAll, Goto, TypeOK, DeclLabels
      <3> QED BY <1>0, <2>0, <3>1, <3>2, OwnKept
    <2> QED BY <2>1, <2>2, <2>3 DEF IndInv
  <1>17. ASSUME NEW a \in Agents, Purge(a)
       PROVE  IndInv'
    <2>0. a \in Procs
      BY DEF Procs
    <2>1. TypeOK'
      <3>1. \A f \in Files : Retain(queue[f], a) \in Seq(Agents)
        BY <1>0, RetainFacts DEF TypeOK
      <3>2. queue' \in [Files -> Seq(Agents)]
        BY <1>17, <3>1 DEF Purge
      <3> QED BY <1>0, <1>17, <2>0, <3>2 DEF Purge, Goto, TypeOK, Labels, Callers
    <2>2. LoopInv'
      BY <1>0, <1>17
      DEF TypeOK, LoopInv, LoopLabels, Purge, Goto, Procs
    <2>3. OwnInv'
      <3>1. KeepsOthers(a)
        BY <1>0, <2>0, <1>17
        DEF TypeOK, KeepsOthers, Purge, Goto, Procs
      <3>2. a \in Agents => pc'[a] \notin DeclLabels
        BY <1>0, <2>0, <1>17
        DEF TypeOK, DeclLabels, Purge, Goto
      <3> QED BY <1>0, <2>0, <3>1, <3>2, OwnKept
    <2> QED BY <2>1, <2>2, <2>3 DEF IndInv
  <1>18. ASSUME NEW p \in Procs, PopWaiter(p)
       PROVE  IndInv'
    <2>0. /\ p \in Procs /\ todo[p] # <<>> /\ Cur(p) \in Files
          /\ Cur(p) \in Elems(todo[p])
          /\ todo[p] \in Seq(Files) /\ Tail(todo[p]) \in Seq(Files)
          /\ Elems(Tail(todo[p])) \subseteq Elems(todo[p])
      <3>1. p \in Procs /\ todo[p] # <<>>
        BY <1>0, <1>18 DEF LoopInv, LoopLabels, PopWaiter, Procs
      <3> QED BY <1>0, <3>1, CurFacts
    <2>00. /\ todo' \in [Procs -> Seq(Files)] /\ pc' \in [Procs -> Labels]
           /\ op' \in [Procs -> Callers]
           /\ \A q \in Procs \ {p} : pc'[q] = pc[q] /\ todo'[q] = todo[q]
           /\ pc'[p] \in {"unqueue", "pop", "purge", "force", "release", "idle",
                         "give", "putback"}
           /\ pc'[p] \in LoopLabels => todo'[p] # <<>>
      <3>1. CASE queue[Cur(p)] = <<>>
        <4>1. Granted(p)
          BY <1>18, <3>1 DEF PopWaiter
        <4> QED BY <1>0, <2>0, <4>1, GrantedFacts
      <3>2. CASE queue[Cur(p)] # <<>>
        BY <1>0, <1>18, <2>0, <3>2 DEF PopWaiter, Goto, TypeOK, Labels
      <3> QED BY <3>1, <3>2
    <2>1. TypeOK'
      <3>1. queue[Cur(p)] \in Seq(Agents)
        BY <1>0, <2>0 DEF TypeOK
      <3>2. /\ queue' \in [Files -> Seq(Agents)]
            /\ popped' \in [Procs -> Agents \cup {NoAgent}]
        <4>1. CASE queue[Cur(p)] = <<>>
          BY <1>0, <1>18, <4>1 DEF PopWaiter, TypeOK
        <4>2. CASE queue[Cur(p)] # <<>>
          <5>1. /\ Head(queue[Cur(p)]) \in Agents
                /\ Tail(queue[Cur(p)]) \in Seq(Agents)
            BY <3>1, <4>2
          <5>2. /\ popped' = [popped EXCEPT ![p] = Head(queue[Cur(p)])]
                /\ queue' = [queue EXCEPT ![Cur(p)] = Tail(queue[Cur(p)])]
            BY <1>18, <4>2 DEF PopWaiter
          <5> QED BY <1>0, <5>1, <5>2 DEF TypeOK
        <4> QED BY <4>1, <4>2
      <3> QED BY <1>0, <1>18, <2>00, <3>2 DEF PopWaiter, TypeOK
    <2>2. LoopInv'
      <3>1. queue[Cur(p)] \in Seq(Agents)
        BY <1>0, <2>0 DEF TypeOK
      <3>2. /\ pc'[p] \in {"give", "putback"} => popped'[p] \in Agents
            /\ \A q \in Procs \ {p} : popped'[q] = popped[q]
        <4>1. CASE queue[Cur(p)] = <<>>
          <5>1. Granted(p) /\ popped' = popped
            BY <1>18, <4>1 DEF PopWaiter
          <5> QED BY <1>0, <2>0, <5>1, GrantedFacts
        <4>2. CASE queue[Cur(p)] # <<>>
          BY <1>0, <1>18, <2>0, <3>1, <4>2 DEF PopWaiter, TypeOK
        <4> QED BY <4>1, <4>2
      <3>3. declared' = declared /\ got' = got
        BY <1>18 DEF PopWaiter
      <3> QED BY <1>0, <2>00, <3>2, <3>3 DEF LoopInv, Procs
    <2>3. OwnInv'
      <3>1. KeepsOthers(p)
        BY <1>0, <1>18, <2>0, <2>00
        DEF PopWaiter, CanLock, PutLock, KeepsOthers, TypeOK, Procs
      <3>2. pc'[p] \notin DeclLabels
        BY <2>00 DEF DeclLabels
      <3> QED BY <1>0, <2>0, <3>1, <3>2, OwnKept
    <2> QED BY <2>1, <2>2, <2>3 DEF IndInv
  <1>19. ASSUME NEW p \in Procs, GiveLock(p)
       PROVE  IndInv'
    <2>0. /\ p \in Procs /\ todo[p] # <<>> /\ Cur(p) \in Files
          /\ Cur(p) \in Elems(todo[p])
          /\ todo[p] \in Seq(Files) /\ Tail(todo[p]) \in Seq(Files)
          /\ Elems(Tail(todo[p])) \subseteq Elems(todo[p])
      <3>1. p \in Procs /\ todo[p] # <<>>
        BY <1>0, <1>19 DEF LoopInv, LoopLabels, GiveLock, Procs
      <3> QED BY <1>0, <3>1, CurFacts
    <2>00. /\ todo' \in [Procs -> Seq(Files)] /\ pc' \in [Procs -> Labels]
           /\ op' \in [Procs -> Callers]
           /\ \A q \in Procs \ {p} : pc'[q] = pc[q] /\ todo'[q] = todo[q]
           /\ pc'[p] \in {"unqueue", "pop", "purge", "force", "release", "idle",
                         "give", "putback"}
           /\ pc'[p] \in LoopLabels => todo'[p] # <<>>
      <3>1. CASE CanLock(Cur(p), popped[p])
        <4>1. Granted(p)
          BY <1>19, <3>1 DEF GiveLock
        <4> QED BY <1>0, <2>0, <4>1, GrantedFacts
      <3>2. CASE ~ CanLock(Cur(p), popped[p])
        BY <1>0, <1>19, <2>0, <3>2 DEF GiveLock, Goto, TypeOK, Labels
      <3> QED BY <3>1, <3>2
    <2>000. popped[p] \in Agents
      BY <1>0, <1>19 DEF GiveLock, LoopInv
    <2>1. TypeOK'
      <3>1. lock' \in [Files -> Agents \cup {NoAgent}] /\ old' \in SUBSET Files
        BY <1>0, <1>19, <2>0, <2>000 DEF GiveLock, PutLock, TypeOK
      <3>2. popped' \in [Procs -> Agents \cup {NoAgent}]
        BY <1>0, <1>19 DEF GiveLock, TypeOK
      <3> QED BY <1>0, <1>19, <2>00, <3>1, <3>2 DEF GiveLock, TypeOK
    <2>2. LoopInv'
      <3>1. /\ pc'[p] \in {"give", "putback"} => popped'[p] \in Agents
            /\ \A q \in Procs \ {p} : popped'[q] = popped[q]
        <4>1. CASE CanLock(Cur(p), popped[p])
          <5>1. Granted(p) /\ popped' = [popped EXCEPT ![p] = NoAgent]
            BY <1>19, <4>1 DEF GiveLock
          <5> QED BY <1>0, <2>0, <5>1, GrantedFacts DEF TypeOK
        <4>2. CASE ~ CanLock(Cur(p), popped[p])
          BY <1>19, <2>000, <4>2 DEF GiveLock
        <4> QED BY <4>1, <4>2
      <3>2. declared' = declared /\ got' = got
        BY <1>19 DEF GiveLock
      <3> QED BY <1>0, <2>00, <3>1, <3>2 DEF LoopInv, Procs
    <2>3. OwnInv'
      <3>1. KeepsOthers(p)
        BY <1>0, <1>19, <2>0, <2>00
        DEF GiveLock, CanLock, PutLock, KeepsOthers, TypeOK, Procs
      <3>2. pc'[p] \notin DeclLabels
        BY <2>00 DEF DeclLabels
      <3> QED BY <1>0, <2>0, <3>1, <3>2, OwnKept
    <2> QED BY <2>1, <2>2, <2>3 DEF IndInv
  <1>20. ASSUME NEW p \in Procs, PutBack(p)
       PROVE  IndInv'
    <2>0. /\ p \in Procs /\ todo[p] # <<>> /\ Cur(p) \in Files
          /\ Cur(p) \in Elems(todo[p])
          /\ todo[p] \in Seq(Files) /\ Tail(todo[p]) \in Seq(Files)
          /\ Elems(Tail(todo[p])) \subseteq Elems(todo[p])
      <3>1. p \in Procs /\ todo[p] # <<>>
        BY <1>0, <1>20 DEF LoopInv, LoopLabels, PutBack, Procs
      <3> QED BY <1>0, <3>1, CurFacts
    <2>00. /\ todo' \in [Procs -> Seq(Files)] /\ pc' \in [Procs -> Labels]
           /\ op' \in [Procs -> Callers]
           /\ \A q \in Procs \ {p} : pc'[q] = pc[q] /\ todo'[q] = todo[q]
           /\ pc'[p] \in {"unqueue", "pop", "purge", "force", "release", "idle",
                         "give", "putback"}
           /\ pc'[p] \in LoopLabels => todo'[p] # <<>>
      <3>1. Granted(p)
        BY <1>20 DEF PutBack
      <3> QED BY <1>0, <2>0, <3>1, GrantedFacts
    <2>000. popped[p] \in Agents
      BY <1>0, <1>20 DEF PutBack, LoopInv
    <2>1. TypeOK'
      <3>1. queue[Cur(p)] \in Seq(Agents)
        BY <1>0, <2>0 DEF TypeOK
      <3>2. <<popped[p]>> \o queue[Cur(p)] \in Seq(Agents)
        BY <2>000, <3>1
      <3>3. queue' \in [Files -> Seq(Agents)]
        BY <1>0, <1>20, <2>0, <3>2 DEF PutBack, TypeOK
      <3>4. popped' \in [Procs -> Agents \cup {NoAgent}]
        BY <1>0, <1>20 DEF PutBack, TypeOK
      <3> QED BY <1>0, <1>20, <2>00, <3>3, <3>4 DEF PutBack, TypeOK
    <2>2. LoopInv'
      <3>1. /\ pc'[p] \notin {"give", "putback"}
            /\ \A q \in Procs \ {p} : popped'[q] = popped[q]
        <4>1. Granted(p) /\ popped' = [popped EXCEPT ![p] = NoAgent]
          BY <1>20 DEF PutBack
        <4> QED BY <1>0, <2>0, <4>1, GrantedFacts DEF TypeOK
      <3>2. declared' = declared /\ got' = got
        BY <1>20 DEF PutBack
      <3> QED BY <1>0, <2>00, <3>1, <3>2 DEF LoopInv, Procs
    <2>3. OwnInv'
      <3>1. KeepsOthers(p)
        BY <1>0, <1>20, <2>0, <2>00
        DEF PutBack, CanLock, PutLock, KeepsOthers, TypeOK, Procs
      <3>2. pc'[p] \notin DeclLabels
        BY <2>00 DEF DeclLabels
      <3> QED BY <1>0, <2>0, <3>1, <3>2, OwnKept
    <2> QED BY <2>1, <2>2, <2>3 DEF IndInv
  <1>21. ASSUME NEW f \in Files, Age(f)
       PROVE  IndInv'
    <2>1. TypeOK'
      BY <1>0, <1>21
      DEF TypeOK, LoopInv, LoopLabels, Age, Procs, Labels, Callers
    <2>2. LoopInv'
      BY <1>0, <1>21
      DEF TypeOK, LoopInv, LoopLabels, Age, Procs
    <2>3. OwnInv'
      BY <1>0, <1>21
      DEF TypeOK, LoopInv, OwnInv, Owns, Age, Procs
    <2> QED BY <2>1, <2>2, <2>3 DEF IndInv
  <1>22. ASSUME SweepSnapshot
       PROVE  IndInv'
    <2>0. Sweeper \in Procs /\ Sweeper \notin Agents
      BY DEF Procs
    <2>00. PICK s \in Orders(old) : todo' = [todo EXCEPT ![Sweeper] = s]
      BY <1>22 DEF SweepSnapshot
    <2>000. s \in Seq(Files) /\ s # <<>>
      <3>1. old \in SUBSET Files /\ old # {}
        BY <1>0, <1>22 DEF SweepSnapshot, TypeOK
      <3> QED BY <3>1, OrdersType
    <2>1. TypeOK'
      BY <1>0, <1>22, <2>0, <2>00, <2>000
      DEF SweepSnapshot, Goto, TypeOK, Labels, Callers
    <2>2. LoopInv'
      BY <1>0, <1>22, <2>0, <2>00, <2>000
      DEF SweepSnapshot, Goto, TypeOK, LoopInv, Procs
    <2>3. OwnInv'
      BY <1>0, <1>22
      DEF TypeOK, LoopInv, OwnInv, Owns, SweepSnapshot, Goto, Procs
    <2> QED BY <2>1, <2>2, <2>3 DEF IndInv
  <1>23. ASSUME ForceRelease
       PROVE  IndInv'
    <2>1. TypeOK'
      BY <1>0, <1>23
      DEF TypeOK, LoopInv, LoopLabels, ForceRelease, Goto, Cur,
          DeleteLock, Procs, Labels, Callers
    <2>2. LoopInv'
      BY <1>0, <1>23
      DEF TypeOK, LoopInv, LoopLabels, ForceRelease, Goto, Cur,
          DeleteLock, Procs
    <2>3. OwnInv'
      BY <1>0, <1>23
      DEF TypeOK, LoopInv, OwnInv, Owns, ForceRelease, Goto, Cur,
          DeleteLock, Procs
    <2> QED BY <2>1, <2>2, <2>3 DEF IndInv
  <1>24. ASSUME Crash
       PROVE  IndInv'
    <2>1. TypeOK'
      BY <1>0, <1>24
      DEF TypeOK, LoopInv, LoopLabels, Crash, Procs, Labels, Callers
    <2>2. LoopInv'
      BY <1>0, <1>24
      DEF TypeOK, LoopInv, LoopLabels, Crash, Procs
    <2>3. OwnInv'
      BY <1>0, <1>24
      DEF TypeOK, LoopInv, OwnInv, Owns, Crash, Procs
    <2> QED BY <2>1, <2>2, <2>3 DEF IndInv
  <1>25. ASSUME RecoverFromCrash
       PROVE  IndInv'
    <2>1. TypeOK'
      BY <1>0, <1>25
      DEF TypeOK, LoopInv, LoopLabels, RecoverFromCrash, Procs, Labels,
          Callers
    <2>2. LoopInv'
      BY <1>0, <1>25
      DEF TypeOK, LoopInv, LoopLabels, RecoverFromCrash, Procs
    <2>3. OwnInv'
      BY <1>0, <1>25
      DEF TypeOK, LoopInv, OwnInv, Owns, RecoverFromCrash, Procs
    <2> QED BY <2>1, <2>2, <2>3 DEF IndInv
  <1>26. ASSUME NEW a \in Agents, AcquireFails(a)
       PROVE  IndInv'
    <2>0. a \in Procs
      BY DEF Procs
    <2>1. TypeOK'
      BY <1>0, <1>26, <2>0
      DEF AcquireFails, EndDeclaration, Goto, TypeOK, Labels
    <2>2. LoopInv'
      BY <1>0, <1>26
      DEF TypeOK, LoopInv, LoopLabels, AcquireFails, Goto, EndDeclaration,
          Procs
    <2>3. OwnInv'
      <3>1. KeepsOthers(a)
        BY <1>0, <1>26, <2>0
        DEF AcquireFails, EndDeclaration, Goto, KeepsOthers, TypeOK, Procs
      <3>2. a \in Agents => pc'[a] \notin DeclLabels
        BY <1>0, <1>26, <2>0 DEF AcquireFails, EndDeclaration, Goto, DeclLabels, TypeOK
      <3> QED BY <1>0, <2>0, <3>1, <3>2, OwnKept
    <2> QED BY <2>1, <2>2, <2>3 DEF IndInv
  <1>27. ASSUME NEW a \in Agents, ReleaseFails(a)
       PROVE  IndInv'
    <2>0. a \in Procs /\ todo[a] # <<>>
      BY <1>0, <1>27 DEF LoopInv, LoopLabels, ReleaseFails, Procs
    <2>00. /\ todo' \in [Procs -> Seq(Files)] /\ pc' \in [Procs -> Labels]
           /\ op' \in [Procs -> Callers]
           /\ \A q \in Procs \ {a} : pc'[q] = pc[q] /\ todo'[q] = todo[q]
           /\ pc'[a] \in {"release", "drop", "unqueue", "idle"}
           /\ pc'[a] \in LoopLabels => todo'[a] # <<>>
      <3>1. CASE op[a] = "rollback"
        BY <1>0, <1>27, <2>0, <3>1 DEF ReleaseFails, Goto, TypeOK, Labels
      <3>2. CASE op[a] # "rollback"
        <4>1. \E label \in {"release", "drop"} : NextFile(a, label, "idle")
          BY <1>27, <3>2 DEF ReleaseFails
        <4> QED BY <1>0, <2>0, <4>1, NextFileFacts DEF Labels, LoopLabels
      <3> QED BY <3>1, <3>2
    <2>1. TypeOK'
      BY <1>0, <1>27, <2>00 DEF ReleaseFails, TypeOK
    <2>2. LoopInv'
      <3>1. declared' = declared /\ got' = got /\ popped' = popped
        BY <1>27 DEF ReleaseFails
      <3> QED BY <1>0, <2>00, <3>1 DEF LoopInv, Procs
    <2>3. OwnInv'
      <3>1. KeepsOthers(a)
        BY <1>0, <1>27, <2>0, <2>00 DEF ReleaseFails, KeepsOthers, TypeOK, Procs
      <3>2. pc'[a] \notin DeclLabels
        BY <2>00 DEF DeclLabels
      <3> QED BY <1>0, <2>0, <3>1, <3>2, OwnKept
    <2> QED BY <2>1, <2>2, <2>3 DEF IndInv
  <1>28. ASSUME NEW p \in Procs, GrantFails(p)
       PROVE  IndInv'
    <2>0. p \in Procs /\ todo[p] # <<>>
      BY <1>0, <1>28 DEF LoopInv, LoopLabels, GrantFails
    <2>00. /\ todo' \in [Procs -> Seq(Files)] /\ pc' \in [Procs -> Labels]
           /\ op' \in [Procs -> Callers]
           /\ \A q \in Procs \ {p} : pc'[q] = pc[q] /\ todo'[q] = todo[q]
           /\ pc'[p] \in {"unqueue", "pop", "purge", "force", "release", "idle"}
           /\ pc'[p] \in LoopLabels => todo'[p] # <<>>
      <3>1. CASE op[p] \in {"releaseAll", "sweep"}
        <4>1. /\ todo' = [todo EXCEPT ![p] = <<>>]
              /\ op' = [op EXCEPT ![p] = "none"]
              /\ pc' = [pc EXCEPT ![p] = "idle"]
          BY <1>28, <3>1 DEF GrantFails, CutShort, Goto
        <4>2. pc'[p] = "idle" /\ "idle" \notin LoopLabels
          BY <1>0, <4>1 DEF TypeOK, LoopLabels
        <4> QED BY <1>0, <4>1, <4>2 DEF TypeOK, Labels, Callers
      <3>2. CASE op[p] \notin {"releaseAll", "sweep"}
        <4>1. Granted(p)
          BY <1>28, <3>2 DEF GrantFails
        <4> QED BY <1>0, <2>0, <4>1, GrantedFacts
      <3> QED BY <3>1, <3>2
    <2>1. TypeOK'
      <3>1. popped' \in [Procs -> Agents \cup {NoAgent}]
        BY <1>0, <1>28 DEF GrantFails, TypeOK
      <3> QED BY <1>0, <1>28, <2>00, <3>1 DEF GrantFails, TypeOK
    <2>2. LoopInv'
      <3>1. /\ declared' = declared /\ got' = got
            /\ \A q \in Procs \ {p} : popped'[q] = popped[q]
        BY <1>0, <1>28 DEF GrantFails, TypeOK
      <3> QED BY <1>0, <2>00, <3>1 DEF LoopInv, Procs
    <2>3. OwnInv'
      <3>1. KeepsOthers(p)
        BY <1>0, <1>28, <2>0, <2>00 DEF GrantFails, KeepsOthers, TypeOK, Procs
      <3>2. pc'[p] \notin DeclLabels
        BY <2>00 DEF DeclLabels
      <3> QED BY <1>0, <2>0, <3>1, <3>2, OwnKept
    <2> QED BY <2>1, <2>2, <2>3 DEF IndInv
  <1>29. ASSUME ForceFails
       PROVE  IndInv'
    <2>0. Sweeper \in Procs /\ Sweeper \notin Agents
      BY DEF Procs
    <2>1. TypeOK'
      BY <1>0, <1>29, <2>0
      DEF ForceFails, CutShort, Goto, TypeOK, Labels, Callers
    <2>2. LoopInv'
      BY <1>0, <1>29, <2>0
      DEF TypeOK, LoopInv, LoopLabels, ForceFails, CutShort, Goto, Procs
    <2>3. OwnInv'
      <3>1. KeepsOthers(Sweeper)
        BY <1>0, <1>29, <2>0
        DEF ForceFails, CutShort, Goto, KeepsOthers, TypeOK, Procs
      <3>2. Sweeper \in Agents => pc'[Sweeper] \notin DeclLabels
        BY <1>0, <1>29, <2>0 DEF ForceFails, CutShort, Goto, DeclLabels, TypeOK
      <3> QED BY <1>0, <2>0, <3>1, <3>2, OwnKept
    <2> QED BY <2>1, <2>2, <2>3 DEF IndInv
  <1>30. CASE UNCHANGED vars
    BY <1>30 DEF IndInv, TypeOK, LoopInv, OwnInv, Owns, vars, Cur
  <1> QED
    BY <1>1, <1>2, <1>3, <1>4, <1>5, <1>6, <1>7, <1>8, <1>9, <1>10, <1>11,
       <1>12, <1>13, <1>14, <1>15, <1>16, <1>17, <1>18, <1>19, <1>20,
       <1>21, <1>22, <1>23, <1>24, <1>25, <1>26, <1>27, <1>28, <1>29, <1>30
    DEF Next, CallStep, AgentChoice, Grant, Sweep, StoreError

\* The initial state satisfies the inductive invariant.
LEMMA IndInvInit == Init => IndInv
  <1> SUFFICES ASSUME Init PROVE IndInv
    OBVIOUS
  <1> USE FileLocksAssumption
  <1>1. TypeOK
    BY DEF Init, TypeOK, Labels, Callers, Procs
  <1>2. LoopInv
    BY DEF Init, LoopInv, LoopLabels, Procs
  <1>3. OwnInv
    BY DEF Init, OwnInv, Procs
  <1> QED BY <1>1, <1>2, <1>3 DEF IndInv

\* The inductive invariant excludes two agents at work on one file, unless the
\* sweep took it from one of them.
LEMMA IndInvExcludes == IndInv => MutualExclusion
  <1> SUFFICES ASSUME IndInv, NEW a \in Agents, NEW b \in Agents, NEW f \in Files,
                      a # b, WorksOn(a, f), WorksOn(b, f)
               PROVE  <<a, f>> \in stripped \/ <<b, f>> \in stripped
    BY DEF MutualExclusion
  <1>1. lock[f] = a \/ <<a, f>> \in stripped
    BY DEF IndInv, OwnInv, Owns, WorksOn
  <1>2. lock[f] = b \/ <<b, f>> \in stripped
    BY DEF IndInv, OwnInv, Owns, WorksOn
  <1> QED BY <1>1, <1>2

-----------------------------------------------------------------------------

\* Type correctness of the lock manager: whatever agents declare and however
\* their calls, the hand-offs, the sweep, store errors and crashes interleave.
THEOREM TypeCorrect == Spec => []TypeOK
  <1>1. IndInv => TypeOK
    BY DEF IndInv
  <1> QED BY <1>1, IndInvInit, IndInvStep, PTL DEF Spec

\* Mutual exclusion of the lock manager: acquire_locks with its rollback,
\* release_lock with its hand-off, guard drops, fault releases and crash
\* recovery never let two agents work on one file; only the sweep for expired
\* locks can.
THEOREM Exclusion == Spec => []MutualExclusion
  BY IndInvInit, IndInvStep, IndInvExcludes, PTL DEF Spec

-----------------------------------------------------------------------------
(***************************************************************************)
(* The lock manager implements the lease table: every step of FileLocks is *)
(* a step of FileLease, or changes nothing that FileLease can see.         *)
(***************************************************************************)


\* The files each agent works on, as FileLease sees them.
Insides == [a \in Agents |-> Inside(a)]

\* The files that a step of p, which is not inside before or after it, leaves
\* to the agents.
SameInside == \A b \in Agents : Inside(b)' = Inside(b)

\* A step that changes nobody's inside leaves the mapped function alone.
LEMMA InsidesKept ==
  ASSUME SameInside
  PROVE  Insides' = Insides
  BY DEF SameInside, Insides

\* A step of p outside "held" that declares nothing changes nobody's inside.
LEMMA OutsideStep ==
  ASSUME NEW p, declared' = declared, p \in Agents => pc[p] # "held",
         p \in Agents => pc'[p] # "held",
         \A q \in Procs \ {p} : pc'[q] = pc[q]
  PROVE  SameInside
  BY DEF SameInside, Inside, Procs

\* A step that ends the declaration of a takes a out of its files.
LEMMA LeavingStep ==
  ASSUME NEW a \in Agents, pc'[a] # "held",
         \A b \in Agents \ {a} : pc'[b] = pc[b] /\ declared'[b] = declared[b]
  PROVE  Insides' = [Insides EXCEPT ![a] = {}]
  <1>1. \A b \in Agents \ {a} : Inside(b)' = Inside(b)
    BY DEF Inside
  <1>2. Inside(a)' = {}
    BY DEF Inside
  <1> QED BY <1>1, <1>2 DEF Insides

\* A step that lets a into the files it declared.
LEMMA EnteringStep ==
  ASSUME TypeOK, NEW a \in Agents, pc[a] # "held", declared' = declared,
         pc' = [pc EXCEPT ![a] = "held"]
  PROVE  /\ Insides[a] = {}
         /\ Insides' = [Insides EXCEPT ![a] = Elems(declared[a])]
  <1>1. pc'[a] = "held" /\ \A b \in Agents \ {a} : pc'[b] = pc[b]
    BY DEF TypeOK, Procs
  <1>2. \A b \in Agents \ {a} : Inside(b)' = Inside(b)
    BY <1>1 DEF Inside
  <1>3. Inside(a)' = Elems(declared[a]) /\ Inside(a) = {}
    BY <1>1 DEF Inside
  <1> QED BY <1>2, <1>3 DEF Insides

\* Nothing that FileLease sees has changed.
LEMMA Stutters ==
  ASSUME SameInside, lock' = lock, stripped' = stripped
  PROVE  [Lease!Next]_Lease!vars
  <1>1. Insides' = Insides
    BY InsidesKept
  <1> QED BY <1>1 DEF Lease!vars, Insides

\* The files of a declaration.
LEMMA DeclaredFiles ==
  ASSUME TypeOK, NEW a \in Agents
  PROVE  Elems(declared[a]) \subseteq Files
  <1>1. declared[a] \in Declarations \cup {<<>>}
    BY DEF TypeOK
  <1>2. <<>> \in Seq(Files) /\ Declarations \subseteq Seq(Files)
    BY FileLocksAssumption
  <1> QED BY <1>1, <1>2, ElemsFacts

\* A step of FileLease by name.
LEMMA TakeIsNext ==
  ASSUME NEW a \in Agents, NEW f \in Files, lock[f] \in {NoAgent, a},
         lock \in [Files -> Agents \cup {NoAgent}],
         lock' = [lock EXCEPT ![f] = a], stripped' = stripped, SameInside
  PROVE  [Lease!Next]_Lease!vars
  <1>1. Insides' = Insides
    BY InsidesKept
  <1>2. CASE lock[f] = NoAgent
    <2>1. Lease!Take(a, f)
      BY <1>1, <1>2 DEF Lease!Take, Insides
    <2> QED BY <2>1 DEF Lease!Next
  <1>3. CASE lock[f] = a
    <2>1. lock' = lock
      BY <1>3
    <2> QED BY <2>1, Stutters
  <1> QED BY <1>2, <1>3

\* An agent outside deletes its own row, or finds that it has none.
LEMMA GiveBackIsNext ==
  ASSUME NEW a \in Agents, NEW f \in Files, pc[a] # "held",
         \/ lock[f] = a /\ lock' = [lock EXCEPT ![f] = NoAgent]
         \/ lock' = lock,
         stripped' = stripped, SameInside
  PROVE  [Lease!Next]_Lease!vars
  <1>1. Insides' = Insides
    BY InsidesKept
  <1>2. CASE lock[f] = a /\ lock' = [lock EXCEPT ![f] = NoAgent]
    <2>1. Inside(a) = {}
      BY DEF Inside
    <2>2. Lease!GiveBack(a, f)
      BY <1>1, <1>2, <2>1 DEF Lease!GiveBack, Insides
    <2> QED BY <2>2 DEF Lease!Next
  <1>3. CASE lock' = lock
    BY <1>3, Stutters
  <1> QED BY <1>2, <1>3

\* The declaration of a ends, and the rows in F are deleted with it.
LEMMA LeaveIsNext ==
  ASSUME NEW a \in Agents, NEW F \in SUBSET Files, pc'[a] # "held",
         \A b \in Agents \ {a} : pc'[b] = pc[b] /\ declared'[b] = declared[b],
         \A f \in F : lock[f] = a,
         lock' = [f \in Files |-> IF f \in F THEN NoAgent ELSE lock[f]],
         stripped' = {s \in stripped : s[1] # a}
  PROVE  [Lease!Next]_Lease!vars
  <1>1. Insides' = [Insides EXCEPT ![a] = {}]
    BY LeavingStep
  <1>2. Lease!Leave(a, F)
    BY <1>1 DEF Lease!Leave, Insides
  <1> QED BY <1>2 DEF Lease!Next

\* ... or none of them is.
LEMMA LeaveOnly ==
  ASSUME lock \in [Files -> Agents \cup {NoAgent}],
         NEW a \in Agents, pc'[a] # "held",
         \A b \in Agents \ {a} : pc'[b] = pc[b] /\ declared'[b] = declared[b],
         lock' = lock, stripped' = {s \in stripped : s[1] # a}
  PROVE  [Lease!Next]_Lease!vars
  <1>1. PICK F \in SUBSET Files : F = {}
    OBVIOUS
  <1>2. /\ \A f \in F : lock[f] = a
        /\ lock' = [f \in Files |-> IF f \in F THEN NoAgent ELSE lock[f]]
    BY <1>1
  <1> QED BY <1>2, LeaveIsNext

-----------------------------------------------------------------------------

\* Every step of the lock manager is a step of the lease table or none.
LEMMA LeaseStep == IndInv /\ [Next]_vars => [Lease!Next]_Lease!vars
  <1> SUFFICES ASSUME IndInv, [Next]_vars
               PROVE  [Lease!Next]_Lease!vars
    OBVIOUS
  <1>0. TypeOK /\ LoopInv /\ OwnInv
    BY DEF IndInv
  <1>00. /\ lock \in [Files -> Agents \cup {NoAgent}]
         /\ pc \in [Procs -> Labels]
         /\ Agents \subseteq Procs
    BY <1>0 DEF TypeOK, Procs
  <1>1. ASSUME NEW a \in Agents, NEW fs \in Declarations, Declare(a, fs)
        PROVE  [Lease!Next]_Lease!vars
    <2>1. lock' = lock
      BY <1>1 DEF Declare
    <2>2. /\ pc'[a] # "held"
          /\ \A b \in Agents \ {a} : pc'[b] = pc[b] /\ declared'[b] = declared[b]
      BY <1>0, <1>1 DEF Declare, Goto, TypeOK, Procs
    <2>3. stripped' = {s \in stripped : s[1] # a}
      BY <1>1 DEF Declare
    <2> QED BY <1>00, <2>1, <2>2, <2>3, LeaveOnly
  <1>2. ASSUME NEW a \in Agents, TryLock(a)
        PROVE  [Lease!Next]_Lease!vars
    <2>1. a \in Procs /\ todo[a] # <<>> /\ pc[a] # "held" /\ pc'[a] # "held"
      BY <1>00, <1>2 DEF TryLock, Goto
    <2>2. SameInside
      <3>1. declared' = declared /\ \A q \in Procs \ {a} : pc'[q] = pc[q]
        BY <1>00, <1>2 DEF TryLock, Goto
      <3> QED BY <2>1, <3>1, OutsideStep
    <2>3. Cur(a) \in Files
      BY <1>0, <2>1, CurFacts
    <2>4. CASE CanLock(Cur(a), a)
      <3>1. /\ lock[Cur(a)] \in {NoAgent, a}
            /\ lock' = [lock EXCEPT ![Cur(a)] = a] /\ stripped' = stripped
        BY <1>2, <2>4 DEF TryLock, CanLock, PutLock
      <3> QED BY <1>00, <2>2, <2>3, <3>1, TakeIsNext
    <2>5. CASE ~ CanLock(Cur(a), a)
      <3>1. lock' = lock /\ stripped' = stripped
        BY <1>2, <2>5 DEF TryLock
      <3> QED BY <2>2, <3>1, Stutters
    <2> QED BY <2>4, <2>5
  <1>3. ASSUME NEW a \in Agents,
               EnqueueWait(a) \/ Settle(a) \/ Requeue(a) \/ Unqueue(a) \/ Purge(a)
        PROVE  [Lease!Next]_Lease!vars
    <2>1. /\ lock' = lock /\ stripped' = stripped /\ declared' = declared
          /\ pc[a] # "held"
      BY <1>3 DEF EnqueueWait, Settle, Requeue, Unqueue, Purge
    <2>2. pc'[a] # "held" /\ \A q \in Procs \ {a} : pc'[q] = pc[q]
      BY <1>00, <1>3
      DEF EnqueueWait, Settle, Requeue, Unqueue, Purge, NextFile, Goto
    <2> QED BY <2>1, <2>2, OutsideStep, Stutters
  <1>4. ASSUME NEW a \in Agents, UndoLock(a) \/ ReleaseLock(a) \/ DropGuard(a)
        PROVE  [Lease!Next]_Lease!vars
    <2>1. /\ stripped' = stripped /\ declared' = declared
          /\ a \in Procs /\ pc[a] # "held" /\ todo[a] # <<>>
      BY <1>0, <1>00, <1>4
      DEF UndoLock, ReleaseLock, DropGuard, LoopInv, LoopLabels
    <2>2. pc'[a] # "held" /\ \A q \in Procs \ {a} : pc'[q] = pc[q]
      BY <1>00, <1>4 DEF UndoLock, ReleaseLock, DropGuard, NextFile, Goto
    <2>3. Cur(a) \in Files
      BY <1>0, <2>1, CurFacts
    <2>4. \/ lock[Cur(a)] = a /\ lock' = [lock EXCEPT ![Cur(a)] = NoAgent]
          \/ lock' = lock
      BY <1>4 DEF UndoLock, ReleaseLock, DropGuard, DeleteLock
    <2>5. SameInside
      BY <2>1, <2>2, OutsideStep
    <2> QED BY <2>1, <2>3, <2>4, <2>5, GiveBackIsNext
  <1>5. ASSUME NEW a \in Agents, Register(a)
        PROVE  [Lease!Next]_Lease!vars
    <2>1. /\ lock' = lock /\ stripped' = stripped /\ declared' = declared
          /\ pc[a] = "register"
      BY <1>5 DEF Register
    <2>2. CASE got[a] = declared[a]
      <3>1. \A f \in Elems(declared[a]) : lock[f] = a \/ <<a, f>> \in stripped
        BY <1>0, <2>1, <2>2 DEF OwnInv, Owns
      <3>2. pc' = [pc EXCEPT ![a] = "held"]
        BY <1>5, <2>2 DEF Register, Goto
      <3>3. /\ Insides[a] = {}
            /\ Insides' = [Insides EXCEPT ![a] = Elems(declared[a])]
        BY <1>0, <2>1, <3>2, EnteringStep
      <3>4. Lease!Enter(a, Elems(declared[a]))
        BY <2>1, <3>1, <3>3 DEF Lease!Enter, Insides
      <3> QED BY <1>0, <3>4, DeclaredFiles DEF Lease!Next
    <2>3. CASE got[a] # declared[a]
      <3>1. pc'[a] # "held" /\ \A q \in Procs \ {a} : pc'[q] = pc[q]
        BY <1>00, <1>5, <2>3 DEF Register, Goto
      <3> QED BY <2>1, <3>1, OutsideStep, Stutters
    <2> QED BY <2>2, <2>3
  <1>6. ASSUME NEW a \in Agents, Proceed(a)
        PROVE  [Lease!Next]_Lease!vars
    <2>1. /\ lock' = lock /\ stripped' = stripped /\ declared' = declared
          /\ pc[a] # "held" /\ pc' = [pc EXCEPT ![a] = "held"]
          /\ \A f \in Elems(declared[a]) : lock[f] = a
      BY <1>6 DEF Proceed, Goto
    <2>2. /\ Insides[a] = {}
          /\ Insides' = [Insides EXCEPT ![a] = Elems(declared[a])]
      BY <1>0, <2>1, EnteringStep
    <2>3. Lease!Enter(a, Elems(declared[a]))
      BY <2>1, <2>2 DEF Lease!Enter, Insides
    <2> QED BY <1>0, <2>3, DeclaredFiles DEF Lease!Next
  <1>7. ASSUME NEW a \in Agents,
               \/ RegisterFails(a) \/ Abandon(a) \/ StartRelease(a)
               \/ StartDrop(a) \/ AcquireFails(a)
        PROVE  [Lease!Next]_Lease!vars
    <2>1. lock' = lock
      BY <1>7
      DEF RegisterFails, Abandon, StartRelease, StartDrop, AcquireFails
    <2>2. /\ pc'[a] # "held"
          /\ \A b \in Agents \ {a} : pc'[b] = pc[b] /\ declared'[b] = declared[b]
      BY <1>0, <1>7
      DEF RegisterFails, Abandon, StartRelease, StartDrop, AcquireFails,
          EndDeclaration, Goto, TypeOK, Procs
    <2>3. stripped' = {s \in stripped : s[1] # a}
      BY <1>7
      DEF RegisterFails, Abandon, StartRelease, StartDrop, AcquireFails,
          EndDeclaration
    <2> QED BY <1>00, <2>1, <2>2, <2>3, LeaveOnly
  <1>8. ASSUME NEW a \in Agents, ReleaseAll(a)
        PROVE  [Lease!Next]_Lease!vars
    <2> DEFINE mine == {f \in Files : lock[f] = a}
    <2>1. lock' = [f \in Files |-> IF f \in mine THEN NoAgent ELSE lock[f]]
      BY <1>8 DEF ReleaseAll
    <2>2. /\ pc'[a] # "held"
          /\ \A b \in Agents \ {a} : pc'[b] = pc[b] /\ declared'[b] = declared[b]
      BY <1>0, <1>8 DEF ReleaseAll, EndDeclaration, Goto, TypeOK, Procs
    <2>3. stripped' = {s \in stripped : s[1] # a}
      BY <1>8 DEF ReleaseAll, EndDeclaration
    <2>4. mine \in SUBSET Files /\ \A f \in mine : lock[f] = a
      OBVIOUS
    <2> HIDE DEF mine
    <2> QED BY <2>1, <2>2, <2>3, <2>4, LeaveIsNext
  <1>9. ASSUME NEW p \in Procs,
               PopWaiter(p) \/ PutBack(p) \/ GrantFails(p) \/ GiveLock(p)
        PROVE  [Lease!Next]_Lease!vars
    <2>1. /\ stripped' = stripped /\ declared' = declared
          /\ pc[p] # "held"
      BY <1>9 DEF PopWaiter, PutBack, GrantFails, GiveLock
    <2>2. pc'[p] # "held" /\ \A q \in Procs \ {p} : pc'[q] = pc[q]
      <3>1. CASE Granted(p)
        BY <1>00, <3>1 DEF Granted, NextFile, Goto
      <3>2. CASE ~ Granted(p)
        BY <1>00, <1>9, <3>2
        DEF PopWaiter, PutBack, GrantFails, GiveLock, CutShort, Goto
      <3> QED BY <3>1, <3>2
    <2>3. SameInside
      BY <2>1, <2>2, OutsideStep
    <2>4. CASE lock' = lock
      BY <2>1, <2>3, <2>4, Stutters
    <2>5. CASE lock' # lock
      <3>1. /\ pc[p] = "give" /\ CanLock(Cur(p), popped[p])
            /\ lock' = [lock EXCEPT ![Cur(p)] = popped[p]]
        BY <1>9, <2>5 DEF PopWaiter, PutBack, GrantFails, GiveLock, PutLock
      <3>2. popped[p] \in Agents /\ Cur(p) \in Files
        <4>1. todo[p] # <<>> /\ popped[p] \in Agents
          BY <1>0, <3>1 DEF LoopInv, LoopLabels
        <4> QED BY <1>0, <4>1, CurFacts
      <3> QED BY <1>00, <2>1, <2>3, <3>1, <3>2, TakeIsNext DEF CanLock
    <2> QED BY <2>4, <2>5
  <1>10. ASSUME NEW f \in Files, Age(f)
         PROVE  [Lease!Next]_Lease!vars
    <2>1. lock' = lock /\ stripped' = stripped /\ SameInside
      BY <1>10 DEF Age, SameInside, Inside
    <2> QED BY <2>1, Stutters
  <1>11. ASSUME SweepSnapshot \/ ForceFails
         PROVE  [Lease!Next]_Lease!vars
    <2>1. /\ lock' = lock /\ stripped' = stripped /\ declared' = declared
          /\ \A q \in Procs \ {Sweeper} : pc'[q] = pc[q]
      BY <1>00, <1>11 DEF SweepSnapshot, ForceFails, CutShort, Goto
    <2> QED BY <2>1, FileLocksAssumption, OutsideStep, Stutters
  <1>12. ASSUME ForceRelease
         PROVE  [Lease!Next]_Lease!vars
    <2> DEFINE f == Cur(Sweeper)
    <2>1. f \in Files
      <3>1. Sweeper \in Procs /\ todo[Sweeper] # <<>>
        BY <1>0, <1>12 DEF ForceRelease, LoopInv, LoopLabels, Procs
      <3> QED BY <1>0, <3>1, CurFacts
    <2>2. /\ stripped' = stripped \cup
                {<<a, f>> : a \in {b \in Agents : lock[f] = b
                                                 /\ f \in Elems(declared[b])}}
          /\ lock' = [lock EXCEPT ![f] = NoAgent] /\ declared' = declared
          /\ \A q \in Procs \ {Sweeper} : pc'[q] = pc[q]
      BY <1>00, <1>12 DEF ForceRelease, DeleteLock, Goto
    <2>3. SameInside
      BY <2>2, FileLocksAssumption, OutsideStep
    <2> HIDE DEF f
    <2>4. CASE lock[f] = NoAgent
      <3>1. lock' = lock
        BY <1>00, <2>1, <2>2, <2>4
      <3>2. stripped' = stripped
        BY <2>2, <2>4, FileLocksAssumption
      <3> QED BY <2>3, <3>1, <3>2, Stutters
    <2>5. CASE lock[f] # NoAgent
      <3>1. lock[f] \in Agents
        BY <1>00, <2>1, <2>5
      <3>2. Insides' = Insides
        BY <2>3, InsidesKept
      <3>3. CASE f \in Elems(declared[lock[f]])
        <4>1. stripped' = stripped \cup {<<lock[f], f>>}
          BY <2>2, <3>1, <3>3
        <4>2. Lease!Revoke(f)
          BY <2>2, <2>5, <3>2, <4>1 DEF Lease!Revoke, Insides
        <4> QED BY <2>1, <4>2 DEF Lease!Next
      <3>4. CASE f \notin Elems(declared[lock[f]])
        <4>1. stripped' = stripped
          BY <2>2, <3>4
        <4>2. f \notin Insides[lock[f]]
          BY <3>1, <3>4 DEF Insides, Inside
        <4>3. Lease!Revoke(f)
          BY <2>2, <2>5, <3>2, <4>1, <4>2 DEF Lease!Revoke, Insides
        <4> QED BY <2>1, <4>3 DEF Lease!Next
      <3> QED BY <3>3, <3>4
    <2> QED BY <2>4, <2>5
  <1>13. ASSUME NEW a \in Agents, ReleaseFails(a)
         PROVE  [Lease!Next]_Lease!vars
    <2>1. /\ lock' = lock /\ stripped' = stripped /\ declared' = declared
          /\ pc[a] \in {"release", "drop"}
      BY <1>13 DEF ReleaseFails
    <2>2. pc'[a] # "held" /\ \A q \in Procs \ {a} : pc'[q] = pc[q]
      BY <1>00, <1>13, <2>1 DEF ReleaseFails, NextFile, Goto
    <2> QED BY <2>1, <2>2, OutsideStep, Stutters
  <1>14. ASSUME Crash
         PROVE  [Lease!Next]_Lease!vars
    <2>1. Insides' = [a \in Agents |-> {}]
      BY <1>14 DEF Crash, Insides, Inside, Procs
    <2>2. Lease!Restart
      BY <1>14, <2>1 DEF Crash, Lease!Restart, Insides
    <2> QED BY <2>2 DEF Lease!Next
  <1>15. ASSUME RecoverFromCrash
         PROVE  [Lease!Next]_Lease!vars
    <2>1. \A a \in Agents : Inside(a) = {} /\ Inside(a)' = {}
      BY <1>15 DEF RecoverFromCrash, Inside, Procs
    <2>2. /\ lock' = [f \in Files |-> NoAgent] /\ stripped' = stripped
      BY <1>15 DEF RecoverFromCrash
    <2>3. Lease!Clear
      BY <2>1, <2>2 DEF Lease!Clear
    <2> QED BY <2>3 DEF Lease!Next
  <1>16. CASE UNCHANGED vars
    <2>1. lock' = lock /\ stripped' = stripped /\ SameInside
      BY <1>16 DEF vars, SameInside, Inside
    <2> QED BY <2>1, Stutters
  <1> QED
    BY <1>1, <1>2, <1>3, <1>4, <1>5, <1>6, <1>7, <1>8, <1>9, <1>10, <1>11,
       <1>12, <1>13, <1>14, <1>15, <1>16
    DEF Next, CallStep, AgentChoice, Grant, Sweep, StoreError

\* The lock manager implements the lease table, for any agents and files and
\* under expiry, crashes and store errors: acquire_locks lets an agent in only
\* with every file leased to it, leases change hands only through being free,
\* and only force_release takes a file from an agent that is inside.
THEOREM Refinement == Spec => ImplementsLease
  <1>1. Init => Lease!Init
    BY DEF Init, Lease!Init, Inside, Procs
  <1> QED
    BY <1>1, IndInvInit, IndInvStep, LeaseStep, PTL
    DEF Spec, ImplementsLease, Lease!Spec

-----------------------------------------------------------------------------
(***************************************************************************)
(* No waiter is forgotten, as long as the store answers.                   *)
(***************************************************************************)

\* a is queued for f, is being handed f, has it, or lost it to the sweep.
Accounted(a, f) ==
  \/ a \in Elems(queue[f])
  \/ InHandOff(a, f)
  \/ lock[f] = a
  \/ <<a, f>> \in stripped

\* The declaration of a has yet to try f, or to queue for it again.
Ahead(a, f) ==
  \/ pc[a] \in {"try", "wait", "requeue"} /\ f \in Elems(todo[a])
  \/ pc[a] = "undo" /\ f \in Elems(got[a])

\* From the first file of a declaration to the answer Queued and beyond, each
\* of its files is ahead or accounted for; a rollback gives back what was got.
Waits(a) ==
  /\ pc[a] = "undo" => Elems(todo[a]) \subseteq Elems(got[a])
  /\ pc[a] \in DeclLabels \ {"held"} =>
       \A f \in Elems(declared[a]) : Ahead(a, f) \/ Accounted(a, f)

WaitInv == \A a \in Agents : Waits(a)

\* A queue or a list is its first element and the rest.
LEMMA ElemsSplit ==
  ASSUME NEW S, NEW s \in Seq(S)
  PROVE  /\ s # <<>> => Elems(s) = {Head(s)} \cup Elems(Tail(s))
         /\ \A x \in S : Elems(<<x>> \o s) = {x} \cup Elems(s)
  <1>1. ASSUME s # <<>> PROVE Elems(s) \subseteq {Head(s)} \cup Elems(Tail(s))
    <2> SUFFICES ASSUME NEW i \in 1..Len(s), i # 1
                 PROVE  s[i] \in Elems(Tail(s))
      BY <1>1 DEF Elems
    <2>1. i - 1 \in 1..Len(Tail(s)) /\ Tail(s)[i - 1] = s[i]
      BY <1>1
    <2> QED BY <2>1 DEF Elems
  <1>2. s # <<>> => Elems(s) = {Head(s)} \cup Elems(Tail(s))
    BY <1>1, ElemsFacts
  <1>3. ASSUME NEW x \in S PROVE Elems(<<x>> \o s) = {x} \cup Elems(s)
    <2> DEFINE t == <<x>> \o s
    <2>1. t \in Seq(S) /\ Len(t) = Len(s) + 1 /\ t[1] = x
          /\ \A i \in 1..Len(s) : t[i + 1] = s[i]
      OBVIOUS
    <2> HIDE DEF t
    <2>2. Elems(t) \subseteq {x} \cup Elems(s)
      <3> SUFFICES ASSUME NEW i \in 1..Len(t), i # 1 PROVE t[i] \in Elems(s)
        BY <2>1 DEF Elems
      <3>1. i - 1 \in 1..Len(s) /\ (i - 1) + 1 = i
        BY <2>1
      <3>2. t[i] = s[i - 1]
        BY <2>1, <3>1
      <3> QED BY <3>1, <3>2 DEF Elems
    <2>3. {x} \cup Elems(s) \subseteq Elems(t)
      <3>1. x \in Elems(t)
        BY <2>1 DEF Elems
      <3>2. ASSUME NEW i \in 1..Len(s) PROVE s[i] \in Elems(t)
        <4>1. i + 1 \in 1..Len(t) /\ t[i + 1] = s[i]
          BY <2>1
        <4> QED BY <4>1 DEF Elems
      <3> QED BY <3>1, <3>2 DEF Elems
    <2> QED BY <2>2, <2>3 DEF t
  <1> QED BY <1>2, <1>3

\* enqueue_wait leaves everybody in the queue, and the agent too.
LEMMA EnqueueFacts ==
  ASSUME NEW q \in Seq(Agents), NEW a \in Agents
  PROVE  Elems(Enqueue(q, a)) = Elems(q) \cup {a}
  BY ElemsFacts DEF Enqueue

\* A step of p is nobody else's.
StepOf(p) ==
  /\ \A q \in Procs \ {p} : pc'[q] = pc[q] /\ todo'[q] = todo[q] /\ popped'[q] = popped[q]
  /\ \A b \in Agents \ {p} : got'[b] = got[b] /\ declared'[b] = declared[b]

\* It preserves WaitInv if it keeps every other waiter accounted for.
LEMMA WaitStep ==
  ASSUME TypeOK, WaitInv, NEW p \in Procs, StepOf(p),
         \A b \in Agents \ {p}, f \in Files :
           f \in Elems(declared[b]) /\ Accounted(b, f) => Accounted(b, f)',
         p \in Agents => Waits(p)'
  PROVE  WaitInv'
  <1> SUFFICES ASSUME NEW b \in Agents, b # p PROVE Waits(b)'
    BY DEF WaitInv
  <1>1. pc'[b] = pc[b] /\ todo'[b] = todo[b] /\ got'[b] = got[b] /\ declared'[b] = declared[b]
    BY DEF StepOf, Procs
  <1>2. Elems(declared[b]) \subseteq Files
    BY DeclaredFiles
  <1>3. \A f : Ahead(b, f)' <=> Ahead(b, f)
    BY <1>1 DEF Ahead
  <1>4. Waits(b)
    BY DEF WaitInv
  <1> QED BY <1>1, <1>2, <1>3, <1>4 DEF Waits

\* A step outside a hand-off keeps b accounted for if it keeps its place in the
\* queue and its lock, or records that it took it.
LEMMA AccountedKept ==
  ASSUME NEW p \in Procs, StepOf(p), pc[p] \notin {"give", "putback"},
         NEW b \in Agents, NEW f \in Files, Accounted(b, f),
         lock[f] = b => lock'[f] = b \/ <<b, f>> \in stripped',
         <<b, f>> \in stripped => <<b, f>> \in stripped',
         b \in Elems(queue[f]) => b \in Elems(queue'[f])
  PROVE  Accounted(b, f)'
  <1>1. CASE InHandOff(b, f)
    <2>1. PICK q \in Procs : pc[q] \in {"give", "putback"} /\ popped[q] = b /\ Cur(q) = f
      BY <1>1 DEF InHandOff
    <2>2. q # p
      BY <2>1
    <2>3. pc'[q] = pc[q] /\ popped'[q] = popped[q] /\ todo'[q] = todo[q]
      BY <2>2 DEF StepOf
    <2> QED BY <2>1, <2>3 DEF Accounted, InHandOff, Cur
  <1>2. CASE ~ InHandOff(b, f)
    BY <1>2 DEF Accounted
  <1> QED BY <1>1, <1>2

\* The same for all the others.
LEMMA QuietWait ==
  ASSUME TypeOK, WaitInv, NEW p \in Procs, StepOf(p), pc[p] \notin {"give", "putback"},
         \A b \in Agents \ {p}, f \in Files :
           /\ f \in Elems(declared[b]) /\ lock[f] = b => lock'[f] = b \/ <<b, f>> \in stripped'
           /\ <<b, f>> \in stripped => <<b, f>> \in stripped'
           /\ b \in Elems(queue[f]) => b \in Elems(queue'[f]),
         p \in Agents => Waits(p)'
  PROVE  WaitInv'
  <1> SUFFICES ASSUME NEW b \in Agents \ {p}, NEW f \in Files,
                      f \in Elems(declared[b]), Accounted(b, f)
               PROVE  Accounted(b, f)'
    BY WaitStep
  <1> QED BY AccountedKept

\* Declaring: a file tried is locked or queued for.
LEMMA DeclareWaits ==
  ASSUME IndInv, WaitInv, NEW a \in Agents,
         (\E fs \in Declarations : Declare(a, fs)) \/ TryLock(a) \/ EnqueueWait(a)
  PROVE  WaitInv'
  <1>0. TypeOK /\ LoopInv /\ a \in Procs
    BY DEF IndInv, Procs
  <1>1. ASSUME NEW fs \in Declarations, Declare(a, fs)
        PROVE  WaitInv'
    <2>1. StepOf(a) /\ pc[a] \notin {"give", "putback"}
      BY <1>0, <1>1 DEF Declare, Goto, StepOf, TypeOK, Procs
    <2>2. lock' = lock /\ queue' = queue /\ stripped' = {s \in stripped : s[1] # a}
      BY <1>1 DEF Declare
    <2>3. pc'[a] = "try" /\ todo'[a] = fs /\ declared'[a] = fs
      BY <1>0, <1>1 DEF Declare, Goto, TypeOK
    <2>4. Waits(a)'
      BY <2>3 DEF Waits, Ahead
    <2> QED BY <1>0, <2>1, <2>2, <2>4, QuietWait
  <1>2. ASSUME TryLock(a)
        PROVE  WaitInv'
    <2>0. Cur(a) \in Files /\ todo[a] \in Seq(Files) /\ todo[a] # <<>>
      BY <1>0, <1>2, CurFacts DEF TryLock
    <2>1. StepOf(a) /\ pc[a] = "try"
      BY <1>0, <1>2 DEF TryLock, Goto, StepOf, TypeOK
    <2>2. queue' = queue /\ stripped' = stripped /\ declared' = declared /\ popped' = popped
      BY <1>2 DEF TryLock
    <2>3. \A b \in Agents, f \in Files : lock[f] = b => lock'[f] = b
      BY <1>0, <1>2, <2>0, FileLocksAssumption DEF TryLock, CanLock, PutLock, TypeOK
    <2>4. pc'[a] \in {"try", "wait"}
      BY <1>0, <1>2 DEF TryLock, Goto, TypeOK
    <2>5. \A f \in Elems(todo[a]) : f \in Elems(todo'[a]) \/ lock'[f] = a
      <3>1. CASE CanLock(Cur(a), a)
        <4>1. todo'[a] = Tail(todo[a]) /\ lock'[Cur(a)] = a
          BY <1>0, <1>2, <2>0, <3>1 DEF TryLock, PutLock, TypeOK
        <4>2. Elems(todo[a]) = {Cur(a)} \cup Elems(Tail(todo[a]))
          BY <2>0, ElemsSplit DEF Cur
        <4> QED BY <4>1, <4>2
      <3>2. CASE ~ CanLock(Cur(a), a)
        BY <1>2, <3>2 DEF TryLock
      <3> QED BY <3>1, <3>2
    <2>6. Waits(a)'
      <3> SUFFICES ASSUME NEW f \in Elems(declared[a])
                   PROVE  Ahead(a, f)' \/ Accounted(a, f)'
        BY <2>2, <2>4 DEF Waits
      <3>1. f \in Files
        BY <1>0, DeclaredFiles
      <3>2. Ahead(a, f) \/ Accounted(a, f)
        BY <2>1 DEF WaitInv, Waits, DeclLabels
      <3>3. CASE Ahead(a, f)
        BY <3>3, <2>1, <2>4, <2>5 DEF Ahead, Accounted
      <3>4. CASE Accounted(a, f)
        BY <1>0, <3>1, <3>4, <2>1, <2>2, <2>3, AccountedKept
      <3> QED BY <3>2, <3>3, <3>4
    <2> QED BY <1>0, <2>1, <2>2, <2>3, <2>6, QuietWait
  <1>3. ASSUME EnqueueWait(a)
        PROVE  WaitInv'
    <2>0. pc[a] = "wait" /\ todo[a] # <<>>
      BY <1>0, <1>3 DEF EnqueueWait, LoopInv, LoopLabels
    <2>1. Cur(a) \in Files /\ todo[a] \in Seq(Files)
      BY <1>0, <2>0, CurFacts
    <2>2. StepOf(a)
      BY <1>0, <1>3 DEF EnqueueWait, Goto, StepOf, TypeOK
    <2>3. UNCHANGED <<lock, stripped, declared, popped>>
      BY <1>3 DEF EnqueueWait
    <2>4. /\ a \in Elems(queue'[Cur(a)])
          /\ \A f \in Files : Elems(queue[f]) \subseteq Elems(queue'[f])
      <3>1. queue[Cur(a)] \in Seq(Agents)
        BY <1>0, <2>1 DEF TypeOK
      <3>2. queue'[Cur(a)] = Enqueue(queue[Cur(a)], a)
            /\ \A f \in Files \ {Cur(a)} : queue'[f] = queue[f]
        BY <1>0, <1>3, <2>1 DEF EnqueueWait, TypeOK
      <3> QED BY <3>1, <3>2, EnqueueFacts
    <2>5. pc'[a] = "try" /\ todo'[a] = Tail(todo[a])
      BY <1>0, <1>3 DEF EnqueueWait, Goto, TypeOK
    <2>6. Elems(todo[a]) = {Cur(a)} \cup Elems(Tail(todo[a]))
      BY <2>0, <2>1, ElemsSplit DEF Cur
    <2>7. Waits(a)'
      <3> SUFFICES ASSUME NEW f \in Elems(declared[a])
                   PROVE  Ahead(a, f)' \/ Accounted(a, f)'
        BY <2>3, <2>5 DEF Waits
      <3>1. f \in Files
        BY <1>0, DeclaredFiles
      <3>2. Ahead(a, f) \/ Accounted(a, f)
        BY <2>0 DEF WaitInv, Waits, DeclLabels
      <3>3. CASE Ahead(a, f)
        <4>1. f = Cur(a) \/ f \in Elems(todo'[a])
          BY <3>3, <2>0, <2>5, <2>6 DEF Ahead
        <4>2. f = Cur(a) => a \in Elems(queue'[f])
          BY <2>4
        <4> QED BY <4>1, <4>2, <2>5 DEF Ahead, Accounted
      <3>4. CASE Accounted(a, f)
        BY <1>0, <3>1, <3>4, <2>0, <2>2, <2>3, <2>4, AccountedKept
      <3> QED BY <3>2, <3>3, <3>4
    <2> QED BY <1>0, <2>0, <2>2, <2>3, <2>4, <2>7, QuietWait
  <1> QED BY <1>1, <1>2, <1>3

\* Settling: what was got is given back only to be queued for again.
LEMMA SettleWaits ==
  ASSUME IndInv, WaitInv, NEW a \in Agents,
         Settle(a) \/ UndoLock(a) \/ Requeue(a) \/ Register(a) \/ Proceed(a)
  PROVE  WaitInv'
  <1>0. TypeOK /\ LoopInv /\ a \in Procs
    BY DEF IndInv, Procs
  <1>1. CASE Settle(a)
    <2>1. StepOf(a) /\ pc[a] = "try" /\ todo[a] = <<>>
      BY <1>0, <1>1 DEF Settle, Goto, StepOf, TypeOK
    <2>2. UNCHANGED <<lock, queue, declared, stripped, got>>
      BY <1>1 DEF Settle
    <2>3. /\ pc'[a] \in {"undo", "register"}
          /\ pc'[a] = "undo" => todo'[a] = got[a]
      BY <1>0, <1>1 DEF Settle, Goto, TypeOK
    <2>4. ASSUME NEW f \in Elems(declared[a]) PROVE Accounted(a, f)'
      <3>1. f \in Files
        BY <1>0, DeclaredFiles
      <3>2. Elems(todo[a]) = {}
        BY <2>1 DEF Elems
      <3>3. Accounted(a, f)
        BY <2>1, <3>2 DEF WaitInv, Waits, DeclLabels, Ahead
      <3> QED BY <1>0, <2>1, <2>2, <3>1, <3>3, AccountedKept
    <2>5. Waits(a)'
      BY <2>2, <2>3, <2>4 DEF Waits
    <2> QED BY <1>0, <2>1, <2>2, <2>5, QuietWait
  <1>2. CASE UndoLock(a)
    <2>0. pc[a] = "undo" /\ todo[a] # <<>>
      BY <1>0, <1>2 DEF UndoLock, LoopInv, LoopLabels
    <2>1. /\ Cur(a) \in Files /\ Cur(a) \in Elems(todo[a])
          /\ Elems(Tail(todo[a])) \subseteq Elems(todo[a])
      BY <1>0, <2>0, CurFacts
    <2>2. StepOf(a)
      BY <1>0, <1>2 DEF UndoLock, Goto, StepOf, TypeOK
    <2>3. UNCHANGED <<queue, declared, stripped, got>>
      BY <1>2 DEF UndoLock
    <2>4. \A f \in Files : f # Cur(a) \/ lock[f] # a => lock'[f] = lock[f]
      BY <1>0, <1>2, <2>1 DEF UndoLock, DeleteLock, TypeOK
    <2>5. \/ pc'[a] = "requeue" /\ todo'[a] = got[a]
          \/ pc'[a] = "undo" /\ todo'[a] = Tail(todo[a])
      BY <1>0, <1>2 DEF UndoLock, Goto, TypeOK
    <2>6. Elems(todo[a]) \subseteq Elems(got[a])
      BY <2>0 DEF WaitInv, Waits
    <2>7. ASSUME NEW f \in Elems(declared[a]) PROVE Ahead(a, f)' \/ Accounted(a, f)'
      <3>1. f \in Files
        BY <1>0, DeclaredFiles
      <3>2. CASE f \in Elems(got[a])
        BY <3>2, <2>3, <2>5 DEF Ahead
      <3>3. CASE f \notin Elems(got[a])
        <4>1. f # Cur(a)
          BY <3>3, <2>1, <2>6
        <4>2. Accounted(a, f)
          BY <2>0, <3>3 DEF WaitInv, Waits, DeclLabels, Ahead
        <4> QED BY <1>0, <2>0, <2>2, <2>3, <2>4, <3>1, <4>1, <4>2, AccountedKept
      <3> QED BY <3>2, <3>3
    <2>8. Waits(a)'
      BY <2>1, <2>3, <2>5, <2>6, <2>7 DEF Waits
    <2> QED BY <1>0, <2>0, <2>2, <2>3, <2>4, <2>8, QuietWait
  <1>3. CASE Requeue(a)
    <2>0. pc[a] = "requeue" /\ todo[a] # <<>>
      BY <1>0, <1>3 DEF Requeue, LoopInv, LoopLabels
    <2>1. Cur(a) \in Files /\ todo[a] \in Seq(Files) /\ Tail(todo[a]) \in Seq(Files)
      BY <1>0, <2>0, CurFacts
    <2>2. UNCHANGED <<lock, declared, stripped, got, popped>> /\ NextFile(a, "requeue", "register")
      BY <1>3 DEF Requeue
    <2>3. StepOf(a)
      BY <1>0, <2>2 DEF NextFile, Goto, StepOf, TypeOK
    <2>4. /\ a \in Elems(queue'[Cur(a)])
          /\ \A f \in Files : Elems(queue[f]) \subseteq Elems(queue'[f])
      <3>1. queue[Cur(a)] \in Seq(Agents)
        BY <1>0, <2>1 DEF TypeOK
      <3>2. queue'[Cur(a)] = Enqueue(queue[Cur(a)], a)
            /\ \A f \in Files \ {Cur(a)} : queue'[f] = queue[f]
        BY <1>0, <1>3, <2>1 DEF Requeue, TypeOK
      <3> QED BY <3>1, <3>2, EnqueueFacts
    <2>5. /\ todo'[a] = Tail(todo[a])
          /\ pc'[a] = IF Tail(todo[a]) = <<>> THEN "register" ELSE "requeue"
      BY <1>0, <2>2 DEF NextFile, Goto, TypeOK
    <2>6. Elems(todo[a]) = {Cur(a)} \cup Elems(Tail(todo[a]))
      BY <2>0, <2>1, ElemsSplit DEF Cur
    <2>7. Tail(todo[a]) = <<>> => Elems(Tail(todo[a])) = {}
      <3>1. Elems(<<>>) = {}
        BY DEF Elems
      <3> QED BY <3>1
    <2>8. ASSUME NEW f \in Elems(declared[a]) PROVE Ahead(a, f)' \/ Accounted(a, f)'
      <3>1. f \in Files
        BY <1>0, DeclaredFiles
      <3>2. CASE f = Cur(a)
        <4>1. a \in Elems(queue'[f])
          BY <3>2, <2>4
        <4> QED BY <4>1 DEF Accounted
      <3>3. CASE f \in Elems(Tail(todo[a]))
        BY <3>3, <2>5, <2>7 DEF Ahead
      <3>4. CASE f \notin Elems(todo[a])
        <4>1. Accounted(a, f)
          BY <3>4, <2>0 DEF WaitInv, Waits, DeclLabels, Ahead
        <4> QED BY <1>0, <2>0, <2>2, <2>3, <2>4, <3>1, <4>1, AccountedKept
      <3> QED BY <3>2, <3>3, <3>4, <2>6
    <2>9. Waits(a)'
      BY <2>2, <2>5, <2>8 DEF Waits
    <2> QED BY <1>0, <2>0, <2>2, <2>3, <2>4, <2>9, QuietWait
  <1>4. CASE Register(a) \/ Proceed(a)
    <2>1. StepOf(a) /\ pc[a] \in {"register", "queued"}
      BY <1>0, <1>4 DEF Register, Proceed, Goto, StepOf, TypeOK
    <2>2. UNCHANGED <<lock, queue, declared, stripped>>
      BY <1>4 DEF Register, Proceed
    <2>3. pc'[a] \in {"held", "queued"}
      BY <1>0, <1>4 DEF Register, Proceed, Goto, TypeOK
    <2>4. ASSUME NEW f \in Elems(declared[a]) PROVE Accounted(a, f)'
      <3>1. f \in Files
        BY <1>0, DeclaredFiles
      <3>2. Accounted(a, f)
        BY <2>1 DEF WaitInv, Waits, DeclLabels, Ahead
      <3> QED BY <1>0, <2>1, <2>2, <3>1, <3>2, AccountedKept
    <2>5. Waits(a)'
      BY <2>2, <2>3, <2>4 DEF Waits
    <2> QED BY <1>0, <2>1, <2>2, <2>5, QuietWait
  <1> QED BY <1>1, <1>2, <1>3, <1>4

\* Ending a declaration, releasing and leaving queues concerns the agent alone.
LEMMA LeaveWaits ==
  ASSUME IndInv, WaitInv, NEW a \in Agents,
         \/ RegisterFails(a) \/ Abandon(a) \/ StartRelease(a) \/ StartDrop(a)
         \/ Unqueue(a) \/ ReleaseLock(a) \/ DropGuard(a) \/ ReleaseAll(a) \/ Purge(a)
  PROVE  WaitInv'
  <1>0. TypeOK /\ LoopInv /\ a \in Procs
    BY DEF IndInv, Procs
  <1>1. CASE RegisterFails(a) \/ Abandon(a) \/ StartRelease(a) \/ StartDrop(a)
    <2>1. StepOf(a) /\ pc[a] \notin {"give", "putback"}
      BY <1>0, <1>1 DEF RegisterFails, Abandon, StartRelease, StartDrop, EndDeclaration,
                        Goto, StepOf, TypeOK
    <2>2. lock' = lock /\ queue' = queue /\ stripped' = {s \in stripped : s[1] # a}
      BY <1>1 DEF RegisterFails, Abandon, StartRelease, StartDrop, EndDeclaration
    <2>3. pc'[a] \in {"release", "unqueue", "drop"}
      BY <1>0, <1>1 DEF RegisterFails, Abandon, StartRelease, StartDrop, Goto, TypeOK
    <2>4. Waits(a)'
      BY <2>3 DEF Waits, DeclLabels
    <2> QED BY <1>0, <2>1, <2>2, <2>4, QuietWait
  <1>2. CASE Unqueue(a)
    <2>0. pc[a] = "unqueue" /\ todo[a] # <<>>
      BY <1>0, <1>2 DEF Unqueue, LoopInv, LoopLabels
    <2>1. Cur(a) \in Files
      BY <1>0, <2>0, CurFacts
    <2>2. PICK l \in {"release", "unqueue"} : NextFile(a, l, "idle")
      BY <1>2 DEF Unqueue
    <2>3. UNCHANGED <<lock, declared, got, popped, stripped>>
      BY <1>2 DEF Unqueue
    <2>4. StepOf(a) /\ pc'[a] \in {"release", "unqueue", "idle"}
      BY <1>0, <2>2, <2>3 DEF NextFile, Goto, StepOf, TypeOK
    <2>5. \A f \in Files : Elems(queue[f]) \ {a} \subseteq Elems(queue'[f])
      <3>1. queue[Cur(a)] \in Seq(Agents)
        BY <1>0, <2>1 DEF TypeOK
      <3>2. queue'[Cur(a)] = Retain(queue[Cur(a)], a)
            /\ \A f \in Files \ {Cur(a)} : queue'[f] = queue[f]
        BY <1>0, <1>2, <2>1 DEF Unqueue, TypeOK
      <3> QED BY <3>1, <3>2, RetainFacts
    <2>6. Waits(a)'
      BY <2>4 DEF Waits, DeclLabels
    <2> QED BY <1>0, <2>0, <2>3, <2>4, <2>5, <2>6, QuietWait
  <1>3. CASE ReleaseLock(a) \/ DropGuard(a)
    <2>0. pc[a] \in {"release", "drop"} /\ todo[a] # <<>>
      BY <1>0, <1>3 DEF ReleaseLock, DropGuard, LoopInv, LoopLabels
    <2>1. Cur(a) \in Files
      BY <1>0, <2>0, CurFacts
    <2>2. UNCHANGED <<queue, declared, got, popped, stripped>>
      BY <1>3 DEF ReleaseLock, DropGuard
    <2>3. StepOf(a) /\ pc'[a] \in {"pop", "unqueue", "release", "drop", "idle"}
      BY <1>0, <1>3, <2>2 DEF ReleaseLock, DropGuard, NextFile, Goto, StepOf, TypeOK
    <2>4. \A f \in Files : lock[f] # a => lock'[f] = lock[f]
      BY <1>0, <1>3, <2>1 DEF ReleaseLock, DropGuard, DeleteLock, TypeOK
    <2>5. Waits(a)'
      BY <2>3 DEF Waits, DeclLabels
    <2> QED BY <1>0, <2>0, <2>2, <2>3, <2>4, <2>5, QuietWait
  <1>4. CASE ReleaseAll(a)
    <2>1. pc[a] \in {"held", "queued"} /\ pc'[a] \in {"purge", "pop"}
          /\ \A q \in Procs \ {a} : pc'[q] = pc[q]
      BY <1>0, <1>4 DEF ReleaseAll, Goto, TypeOK
    <2>2. PICK t : todo' = [todo EXCEPT ![a] = t]
      BY <1>4 DEF ReleaseAll
    <2>3. popped' = popped /\ queue' = queue /\ stripped' = {s \in stripped : s[1] # a}
          /\ declared' = [declared EXCEPT ![a] = <<>>] /\ got' = [got EXCEPT ![a] = <<>>]
      BY <1>4 DEF ReleaseAll, EndDeclaration
    <2>4. StepOf(a)
      BY <1>0, <2>1, <2>2, <2>3 DEF StepOf, TypeOK
    <2>5. \A f \in Files : lock[f] # a => lock'[f] = lock[f]
      BY <1>4 DEF ReleaseAll
    <2>6. Waits(a)'
      BY <2>1 DEF Waits, DeclLabels
    <2> QED BY <1>0, <2>1, <2>3, <2>4, <2>5, <2>6, QuietWait
  <1>5. CASE Purge(a)
    <2>1. StepOf(a) /\ pc[a] = "purge" /\ pc'[a] = "idle"
      BY <1>0, <1>5 DEF Purge, Goto, StepOf, TypeOK
    <2>2. UNCHANGED <<lock, stripped>>
      BY <1>5 DEF Purge
    <2>3. \A f \in Files : Elems(queue[f]) \ {a} \subseteq Elems(queue'[f])
      <3>1. \A f \in Files : queue[f] \in Seq(Agents) /\ queue'[f] = Retain(queue[f], a)
        BY <1>0, <1>5 DEF Purge, TypeOK
      <3> QED BY <3>1, RetainFacts
    <2>4. Waits(a)'
      BY <2>1 DEF Waits, DeclLabels
    <2> QED BY <1>0, <2>1, <2>2, <2>3, <2>4, QuietWait
  <1> QED BY <1>1, <1>2, <1>3, <1>4, <1>5

\* The hand-off: a waiter taken off the queue is in hand until it has the lock
\* or is back in the queue.
LEMMA GrantWaits ==
  ASSUME IndInv, WaitInv, NEW p \in Procs, Grant(p)
  PROVE  WaitInv'
  <1>0. TypeOK /\ LoopInv
    BY DEF IndInv
  <1>1. pc[p] \in {"pop", "give", "putback"} /\ todo[p] # <<>>
    BY <1>0 DEF Grant, PopWaiter, GiveLock, PutBack, LoopInv, LoopLabels
  <1>2. PICK g \in Files : g = Cur(p)
    BY <1>0, <1>1, CurFacts
  <1>3. queue[g] \in Seq(Agents) /\ queue \in [Files -> Seq(Agents)]
    BY <1>0, <1>2 DEF TypeOK
  <1>4. stripped' = stripped /\ declared' = declared /\ got' = got
    BY DEF Grant, PopWaiter, GiveLock, PutBack
  <1>5. Granted(p) => /\ \A q \in Procs \ {p} : pc'[q] = pc[q] /\ todo'[q] = todo[q]
                      /\ pc'[p] \in {"unqueue", "pop", "purge", "force", "release", "idle"}
    BY <1>0, <1>1, GrantedFacts
  <1>6. ASSUME queue[g] = <<>>, Granted(p), UNCHANGED <<queue, popped, lock>>, pc[p] = "pop"
        PROVE  WaitInv'
    <2>1. StepOf(p)
      BY <1>4, <1>5, <1>6 DEF StepOf
    <2>2. p \in Agents => Waits(p)'
      BY <1>5, <1>6 DEF Waits, DeclLabels
    <2> QED BY <1>0, <1>4, <1>6, <2>1, <2>2, QuietWait
  <1>7. ASSUME queue[g] # <<>>, PopWaiter(p)
        PROVE  WaitInv'
    <2>1. /\ popped' = [popped EXCEPT ![p] = Head(queue[g])]
          /\ queue' = [queue EXCEPT ![g] = Tail(@)]
          /\ Goto(p, "give") /\ todo' = todo /\ lock' = lock /\ pc[p] = "pop"
      BY <1>2, <1>7 DEF PopWaiter
    <2>2. StepOf(p) /\ pc'[p] = "give" /\ popped'[p] = Head(queue[g]) /\ todo'[p] = todo[p]
      BY <1>0, <1>4, <2>1 DEF StepOf, Goto, TypeOK
    <2>3. Elems(queue[g]) = {Head(queue[g])} \cup Elems(queue'[g])
      BY <1>3, <1>7, <2>1, ElemsSplit
    <2>4. \A f \in Files \ {g} : queue'[f] = queue[f]
      BY <1>3, <2>1
    <2>5. ASSUME NEW b \in Agents \ {p}, NEW f \in Files, Accounted(b, f)
          PROVE  Accounted(b, f)'
      <3>1. CASE f = g /\ b = Head(queue[g])
        <4>1. Cur(p)' = f
          BY <3>1, <1>2, <2>2 DEF Cur
        <4>2. InHandOff(b, f)'
          BY <3>1, <4>1, <2>2 DEF InHandOff
        <4> QED BY <4>2 DEF Accounted
      <3>2. CASE ~ (f = g /\ b = Head(queue[g]))
        <4>1. b \in Elems(queue[f]) => b \in Elems(queue'[f])
          BY <3>2, <2>3, <2>4
        <4> QED BY <4>1, <2>1, <2>2, <2>5, <1>4, AccountedKept
      <3> QED BY <3>1, <3>2
    <2>6. p \in Agents => Waits(p)'
      BY <2>2 DEF Waits, DeclLabels
    <2> QED BY <1>0, <2>2, <2>5, <2>6, WaitStep
  <1>8. ASSUME NEW b \in Agents, NEW f \in Files, Accounted(b, f),
               pc[p] \in {"give", "putback"},
               \A q \in Procs \ {p} :
                 pc'[q] = pc[q] /\ todo'[q] = todo[q] /\ popped'[q] = popped[q],
               lock[f] = b => lock'[f] = b,
               b \in Elems(queue[f]) => b \in Elems(queue'[f]),
               b = popped[p] /\ f = g => Accounted(b, f)'
        PROVE  Accounted(b, f)'
    <2>1. CASE InHandOff(b, f)
      <3>1. PICK q \in Procs : pc[q] \in {"give", "putback"} /\ popped[q] = b /\ Cur(q) = f
        BY <2>1 DEF InHandOff
      <3>2. CASE q = p
        BY <3>1, <3>2, <1>2, <1>8
      <3>3. CASE q # p
        <4>1. pc'[q] = pc[q] /\ popped'[q] = popped[q] /\ todo'[q] = todo[q]
          BY <3>3, <1>8
        <4> QED BY <3>1, <4>1 DEF Accounted, InHandOff, Cur
      <3> QED BY <3>2, <3>3
    <2>2. CASE ~ InHandOff(b, f)
      BY <2>2, <1>4, <1>8 DEF Accounted
    <2> QED BY <2>1, <2>2
  <1>9. ASSUME CanLock(g, popped[p]), PutLock(g, popped[p]), Granted(p), pc[p] = "give",
               popped' = [popped EXCEPT ![p] = NoAgent], queue' = queue
        PROVE  WaitInv'
    <2>1. StepOf(p) /\ pc'[p] \in {"unqueue", "pop", "purge", "force", "release", "idle"}
      BY <1>0, <1>4, <1>5, <1>9 DEF StepOf, TypeOK
    <2>2. lock'[g] = popped[p] /\ \A b \in Agents, f \in Files : lock[f] = b => lock'[f] = b
      BY <1>0, <1>2, <1>9, FileLocksAssumption DEF CanLock, PutLock, TypeOK
    <2>3. ASSUME NEW b \in Agents \ {p}, NEW f \in Files, Accounted(b, f)
          PROVE  Accounted(b, f)'
      <3>1. b = popped[p] /\ f = g => Accounted(b, f)'
        BY <2>2 DEF Accounted
      <3> QED BY <3>1, <1>8, <1>9, <2>1, <2>2, <2>3 DEF StepOf
    <2>4. p \in Agents => Waits(p)'
      BY <2>1 DEF Waits, DeclLabels
    <2> QED BY <1>0, <2>1, <2>3, <2>4, WaitStep
  <1>10. ASSUME Goto(p, "putback"), UNCHANGED <<lock, popped, todo, queue>>, pc[p] = "give"
         PROVE  WaitInv'
    <2>1. StepOf(p) /\ pc'[p] = "putback"
      BY <1>0, <1>4, <1>10 DEF StepOf, Goto, TypeOK
    <2>2. ASSUME NEW b \in Agents \ {p}, NEW f \in Files, Accounted(b, f)
          PROVE  Accounted(b, f)'
      <3>1. b = popped[p] /\ f = g => InHandOff(b, f)'
        BY <1>2, <1>10, <2>1 DEF InHandOff, Cur
      <3> QED BY <3>1, <1>8, <1>10, <2>1, <2>2 DEF StepOf, Accounted
    <2>3. p \in Agents => Waits(p)'
      BY <2>1 DEF Waits, DeclLabels
    <2> QED BY <1>0, <2>1, <2>2, <2>3, WaitStep
  <1>11. ASSUME PutBack(p)
         PROVE  WaitInv'
    <2>1. /\ pc[p] = "putback" /\ Granted(p) /\ lock' = lock
          /\ queue' = [queue EXCEPT ![g] = <<popped[p]>> \o @]
          /\ popped' = [popped EXCEPT ![p] = NoAgent]
      BY <1>2, <1>11 DEF PutBack
    <2>2. StepOf(p) /\ pc'[p] \in {"unqueue", "pop", "purge", "force", "release", "idle"}
      BY <1>0, <1>4, <1>5, <2>1 DEF StepOf, TypeOK
    <2>3. popped[p] \in Agents
      BY <1>0, <2>1 DEF LoopInv
    <2>4. Elems(queue'[g]) = {popped[p]} \cup Elems(queue[g])
      BY <1>3, <2>1, <2>3, ElemsSplit
    <2>5. \A f \in Files \ {g} : queue'[f] = queue[f]
      BY <1>3, <2>1
    <2>6. ASSUME NEW b \in Agents \ {p}, NEW f \in Files, Accounted(b, f)
          PROVE  Accounted(b, f)'
      <3>1. b = popped[p] /\ f = g => Accounted(b, f)'
        BY <2>4 DEF Accounted
      <3>2. b \in Elems(queue[f]) => b \in Elems(queue'[f])
        BY <2>4, <2>5
      <3> QED BY <3>1, <3>2, <1>8, <2>1, <2>2, <2>6 DEF StepOf
    <2>7. p \in Agents => Waits(p)'
      BY <2>2 DEF Waits, DeclLabels
    <2> QED BY <1>0, <2>2, <2>6, <2>7, WaitStep
  <1>12. CASE PopWaiter(p)
    BY <1>2, <1>6, <1>7, <1>12 DEF PopWaiter
  <1>13. CASE GiveLock(p)
    BY <1>2, <1>9, <1>10, <1>13 DEF GiveLock
  <1> QED BY <1>11, <1>12, <1>13 DEF Grant

\* The sweep records from whom it takes a declared file.
LEMMA SweepWaits ==
  ASSUME IndInv, WaitInv, Sweep
  PROVE  WaitInv'
  <1>0. TypeOK /\ LoopInv /\ Sweeper \in Procs /\ Sweeper \notin Agents
    BY FileLocksAssumption DEF IndInv, Procs
  <1>1. CASE SweepSnapshot
    <2>1. PICK t : todo' = [todo EXCEPT ![Sweeper] = t]
      BY <1>1 DEF SweepSnapshot
    <2>2. /\ pc[Sweeper] = "idle" /\ Goto(Sweeper, "force")
          /\ UNCHANGED <<lock, queue, declared, got, popped, stripped>>
      BY <1>1 DEF SweepSnapshot
    <2>3. StepOf(Sweeper)
      BY <1>0, <2>1, <2>2 DEF StepOf, Goto, TypeOK
    <2> QED BY <1>0, <2>2, <2>3, QuietWait
  <1>2. CASE ForceRelease
    <2>0. pc[Sweeper] = "force" /\ todo[Sweeper] # <<>>
      BY <1>0, <1>2 DEF ForceRelease, LoopInv, LoopLabels
    <2>1. PICK g \in Files : g = Cur(Sweeper)
      BY <1>0, <2>0, CurFacts
    <2>2. /\ UNCHANGED <<queue, declared, todo, got, popped>> /\ Goto(Sweeper, "pop")
          /\ lock' = [lock EXCEPT ![g] = NoAgent]
          /\ stripped' = stripped \cup
               {<<a, g>> : a \in {b \in Agents : lock[g] = b /\ g \in Elems(declared[b])}}
      BY <1>2, <2>1 DEF ForceRelease, DeleteLock
    <2>3. StepOf(Sweeper)
      BY <1>0, <2>2 DEF StepOf, Goto, TypeOK
    <2>4. ASSUME NEW b \in Agents, NEW f \in Files, f \in Elems(declared[b]), lock[f] = b
          PROVE  lock'[f] = b \/ <<b, f>> \in stripped'
      <3>1. CASE f = g
        BY <3>1, <2>2, <2>4
      <3>2. CASE f # g
        BY <3>2, <2>2, <2>4, <1>0 DEF TypeOK
      <3> QED BY <3>1, <3>2
    <2> QED BY <1>0, <2>0, <2>2, <2>3, <2>4, QuietWait
  <1> QED BY <1>1, <1>2 DEF Sweep

\* Every step keeps WaitInv while store calls do not fail.
LEMMA WaitInvStep ==
  ASSUME ~ StoreFails
  PROVE  IndInv /\ WaitInv /\ [Next]_vars => WaitInv'
  <1> SUFFICES ASSUME IndInv, WaitInv, [Next]_vars PROVE WaitInv'
    OBVIOUS
  <1>1. ASSUME NEW a \in Agents, CallStep(a) \/ AgentChoice(a)
        PROVE  WaitInv'
    BY <1>1, DeclareWaits, SettleWaits, LeaveWaits DEF CallStep, AgentChoice
  <1>2. CASE \E p \in Procs : Grant(p)
    BY <1>2, GrantWaits
  <1>3. CASE Sweep
    BY <1>3, SweepWaits
  <1>4. CASE StoreError
    BY <1>4 DEF StoreError, AcquireFails, ReleaseFails, GrantFails, ForceFails
  <1>5. CASE Crash
    <2>1. \A a \in Agents : pc'[a] = "idle"
      BY <1>5 DEF Crash, Procs
    <2> QED BY <2>1 DEF WaitInv, Waits, DeclLabels
  <1>6. CASE RecoverFromCrash
    <2>1. \A a \in Agents : pc'[a] = "idle"
      BY <1>6 DEF RecoverFromCrash, Procs
    <2> QED BY <2>1 DEF WaitInv, Waits, DeclLabels
  <1>7. CASE (\E f \in Files : Age(f)) \/ UNCHANGED vars
    <2>1. UNCHANGED <<lock, queue, pc, declared, todo, got, popped, stripped>>
      BY <1>7 DEF Age, vars
    <2> QED BY <2>1 DEF WaitInv, Waits, Ahead, Accounted, InHandOff, Cur
  <1> QED BY <1>1, <1>2, <1>3, <1>4, <1>5, <1>6, <1>7 DEF Next

LEMMA WaitInvInit == Init => WaitInv
  <1> SUFFICES ASSUME Init PROVE WaitInv
    OBVIOUS
  <1>1. \A a \in Agents : pc[a] = "idle"
    BY DEF Init, Procs
  <1> QED BY <1>1 DEF WaitInv, Waits, DeclLabels

\* No interleaving of enqueue_wait, the all-or-nothing rollback,
\* grant_to_next_in_queue, remove_from_queue, the sweep, crashes and recovery
\* forgets an agent that was told Queued, as long as no store call fails.
THEOREM NoWaiterForgotten ==
  ASSUME ~ StoreFails
  PROVE  Spec => []WaiterAccounted
  <1>1. WaitInv => WaiterAccounted
    BY DEF WaitInv, Waits, WaiterAccounted, Accounted, Ahead, DeclLabels
  <1> QED BY <1>1, IndInvInit, IndInvStep, WaitInvInit, WaitInvStep, PTL DEF Spec

=============================================================================
