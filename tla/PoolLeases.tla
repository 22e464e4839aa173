----------------------------- MODULE PoolLeases -----------------------------
(***************************************************************************)
(* The pool implements Leases, and the action properties of Pool: who may  *)
(* lose an address, when a packet may be rejected, when the state is dirty. *)
(***************************************************************************)
EXTENDS PoolProofs

\* The steps at which an address changes hands, in terms of Owner and Active.

LEMMA OwnerType == IInv => /\ Owner \in [Offsets -> Hosts \cup {NoHost}]
                           /\ Active \subseteq by4 /\ by4 \subseteq Offsets
                           /\ \A o \in Offsets : Owner[o] # NoHost <=> o \in by4
                           /\ \A o \in by4 : Owner[o] = host[o].v6
BY ConstantFacts DEF IInv, TypeOK, Consistent, Owner, Active

\* A host with no entry in mapped or dormant holds nothing.
LEMMA UnlistedHoldsNone ==
  ASSUME IInv, NEW a \in Hosts, mapped[a] = Nil, dormant[a] = Nil
  PROVE  L!HasNone(a)
BY ConstantFacts DEF IInv, TypeOK, Consistent, Owner, L!HasNone, Nil

\* A step that keeps by4 and every lent host's v6 and flag changes no lease.
LEMMA SameLeases ==
  ASSUME IInv, by4' = by4,
         \A o \in by4 : host'[o].v6 = host[o].v6 /\ host'[o].dormant = host[o].dormant
  PROVE  Owner' = Owner /\ Active' = Active
<1>1. Owner' = Owner
  BY DEF Owner
<1>2. Active' = Active
  BY DEF Active
<1> QED
  BY <1>1, <1>2

LEMMA FreeLends ==
  ASSUME IInv, NEW a \in Hosts, NEW t \in Int, NEW k \in Offsets, AssignFree(a, t, k)
  PROVE  \E off \in Offsets :
           /\ off \notin used /\ off \notin reserved \cap reserved' /\ off \notin by4
           /\ by4' = by4 \cup {off}
           /\ Owner' = [Owner EXCEPT ![off] = a]
           /\ Active' = Active \cup {off}
           /\ L!HasNone(a)
<1> USE ConstantFacts DEF IInv, TypeOK
<1>1. PICK i \in 0 .. PoolMax :
        /\ Free(Probe(a, i), Asked(i, k))
        /\ by4' = by4 \cup {Probe(a, i)}
        /\ host' = [host EXCEPT ![Probe(a, i)] =
                      [v6 |-> a, lastUse |-> t, dormant |-> FALSE]]
  BY Zenon DEF AssignFree, Stops
<1> DEFINE off == Probe(a, i)
<1>2. off \in Offsets /\ off \notin used /\ off \notin reserved \cap reserved' /\ off \notin by4
  <2>1. Asked(i, k) = reserved \/ Asked(i, k) = reserved'
    BY DEF Asked
  <2>2. off \in 0 .. PoolMax /\ off # 0 /\ off \notin used /\ off \notin Asked(i, k)
    BY <1>1, ProbeType DEF Free
  <2>3. off \in Offsets /\ off \notin by4
    BY <2>2 DEF Offsets, Consistent
  <2> HIDE DEF off
  <2> QED
    BY <2>1, <2>2, <2>3
<1>3. by4' = by4 \cup {off}
      /\ host' = [host EXCEPT ![off] = [v6 |-> a, lastUse |-> t, dormant |-> FALSE]]
  BY <1>1
<1> HIDE DEF off
<1>4. Owner' = [Owner EXCEPT ![off] = a]
  BY <1>2, <1>3, Zenon DEF Owner
<1>5. Active' = Active \cup {off}
  BY <1>2, <1>3 DEF Active
<1>6. L!HasNone(a)
  BY UnlistedHoldsNone DEF AssignFree
<1> QED
  BY <1>2, <1>3, <1>4, <1>5, <1>6, Zenon

LEMMA OldestLends ==
  ASSUME IInv, NEW a \in Hosts, NEW t \in Int, NEW k \in Offsets, AssignOldest(a, t, k)
  PROVE  \E o \in by4 :
           /\ host[o].dormant /\ o \in Oldest
           /\ by4' = by4
           /\ Owner' = [Owner EXCEPT ![o] = a]
           /\ Active' = Active \cup {o}
           /\ L!HasNone(a)
<1> USE ConstantFacts DEF IInv, TypeOK
<1>1. PICK o \in Oldest :
        host' = [host EXCEPT ![o] = [v6 |-> a, lastUse |-> t, dormant |-> FALSE]]
  BY Zenon DEF AssignOldest
<1>2. o \in by4 /\ o \in Offsets /\ host[o].dormant
  BY DEF Oldest, DormantOffsets, Consistent, Nil
<1>3. by4' = by4
  BY DEF AssignOldest
<1>4. Owner' = [Owner EXCEPT ![o] = a]
  BY <1>1, <1>2, <1>3, Zenon DEF Owner
<1>5. Active' = Active \cup {o}
  BY <1>1, <1>2, <1>3 DEF Active
<1>6. L!HasNone(a)
  BY UnlistedHoldsNone DEF AssignOldest
<1> QED
  BY <1>1, <1>2, <1>3, <1>4, <1>5, <1>6, Zenon

LEMMA ReleaseReclaims ==
  ASSUME IInv, MaintainRelease
  PROVE  \E S \in SUBSET by4 :
           /\ \A o \in S : host[o].dormant /\ host[o].lastUse + ticker.max < ticker.t
           /\ Owner' = [o \in Offsets |-> IF o \in S THEN NoHost ELSE Owner[o]]
           /\ Active' = Active
           /\ dirty' = (dirty \/ S # {})
<1> USE ConstantFacts DEF IInv, TypeOK
<1> DEFINE offs == {dormant[h] : h \in Expired}
<1>1. /\ by4' = by4 \ offs
      /\ host' = [o \in Offsets |-> IF o \in offs THEN NoLease ELSE host[o]]
      /\ dirty' = (dirty \/ Expired # {})
  BY DEF MaintainRelease
<1>2. \A o \in offs : /\ o \in by4 /\ host[o].dormant
                      /\ host[o].lastUse + ticker.max < ticker.t
  BY DEF Expired, Consistent, Nil
<1>3. offs # {} <=> Expired # {}
  OBVIOUS
<1> HIDE DEF offs
<1>4. Owner' = [o \in Offsets |-> IF o \in offs THEN NoHost ELSE Owner[o]]
  BY <1>1, <1>2 DEF Owner
<1>5. Active' = Active
  BY <1>1, <1>2, Zenon DEF Active
<1> QED
  BY <1>1, <1>2, <1>3, <1>4, <1>5, SMTT(30)

LEMMA LoadLineRestores ==
  ASSUME IInv, NEW off \in Offsets, NEW v6 \in Hosts, NEW last \in Int,
         LoadLine(off, v6, last)
  PROVE  /\ off \notin by4 /\ off \notin reserved /\ L!HasNone(v6)
         /\ by4' = by4 \cup {off}
         /\ Owner' = [Owner EXCEPT ![off] = v6]
         /\ Active' = Active
<1> USE ConstantFacts DEF IInv, TypeOK
<1>1. /\ off \notin by4 /\ off \notin reserved
      /\ by4' = by4 \cup {off}
      /\ host' = [host EXCEPT ![off] = [v6 |-> v6, lastUse |-> last, dormant |-> TRUE]]
  BY DEF LoadLine, Consistent
<1>2. Owner' = [Owner EXCEPT ![off] = v6]
  BY <1>1, Zenon DEF Owner
<1>3. Active' = Active
  BY <1>1 DEF Active
<1>4. L!HasNone(v6)
  BY UnlistedHoldsNone DEF LoadLine
<1> QED
  BY <1>1, <1>2, <1>3, <1>4

\* What a step can do to the leases; the last two cases are FreeLends,
\* OldestLends and ReleaseReclaims.
Stays == Owner' = Owner /\ by4' = by4 /\ Active' = Active
Wakes == \E S \in SUBSET by4 : Owner' = Owner /\ by4' = by4 /\ Active' = Active \cup S
Rests == \E S \in SUBSET Active : Owner' = Owner /\ by4' = by4 /\ Active' = Active \ S
Restores ==
  \E off \in Offsets, v6 \in Hosts, last \in 1 .. MaxTime : LoadLine(off, v6, last)
Lends(w) ==
  \E t \in Int, k \in Offsets :
    /\ worker[w].a \in Hosts
    /\ AssignFree(worker[w].a, t, k) \/ AssignOldest(worker[w].a, t, k)

LEMMA KeepsHosts ==
  ASSUME IInv, by4' = by4, host' = host
  PROVE  Stays
BY SameLeases DEF Stays

LEMMA StepKinds ==
  ASSUME IInv, [Next]_vars
  PROVE  \/ Stays \/ Wakes \/ Rests \/ Restores
         \/ \E w \in Workers : Assign(w) /\ Lends(w)
         \/ MaintainRelease
<1> USE ConstantFacts, RecordFacts DEF IInv, TypeOK
<1>1. CASE LoadEnd
  <2>1. CASE host' = [o \in Offsets |->
                        IF o \in by4 THEN [host[o] EXCEPT !.lastUse = now - minLease]
                                     ELSE host[o]]
    <3>1. now - minLease \in Int
      OBVIOUS
    <3>2. Owner' = Owner /\ Active' = Active
      BY <1>1, <2>1, <3>1, SameLeases DEF LoadEnd
    <3> QED
      BY <1>1, <3>2 DEF Stays, LoadEnd
  <2>2. ASSUME NEW S \in SUBSET by4, Activate(S) PROVE Wakes
    <3>1. \A o \in Offsets :
            /\ host'[o].v6 = host[o].v6
            /\ host'[o].dormant = IF o \in S THEN FALSE ELSE host[o].dormant
      BY <2>2 DEF Activate
    <3>2. by4' = by4
      BY <1>1 DEF LoadEnd
    <3>3. Owner' = Owner
      <4>1. \A o \in Offsets : host'[o].v6 = host[o].v6
        BY <3>1, Zenon
      <4> HIDE DEF IInv, TypeOK
      <4> QED
        BY <3>2, <4>1 DEF Owner
    <3>4. Active' = Active \cup S
      BY <3>1, <3>2, Zenon DEF Active
    <3> QED
      BY <3>2, <3>3, <3>4, Zenon DEF Wakes
  <2> QED
    BY <1>1, <2>1, <2>2 DEF LoadEnd
<1>2. CASE LoadError
  BY <1>2, KeepsHosts DEF LoadError, table
<1>3. ASSUME NEW w \in Workers, \/ \E a \in Hosts : Lookup6(w, a)
                                \/ \E off \in Offsets : Lookup4(w, off)
                                \/ Check4(w)
      PROVE  Stays
  BY <1>3, KeepsHosts DEF Lookup6, Lookup4, Check4, table
<1>4. ASSUME NEW w \in Workers, Store6(w) \/ Store4(w) PROVE Stays
  <2>1. PICK t \in worker[w].since .. now : Touch(w, t)
    BY <1>4 DEF Store6, Store4
  <2>2. t \in Int /\ worker[w].d \in Offsets
    BY <1>4, WorkerFacts DEF Store6, Store4, Working, Locals
  <2>3. \A o \in Offsets : host'[o].v6 = host[o].v6 /\ host'[o].dormant = host[o].dormant
    BY <2>1, <2>2 DEF Touch
  <2>4. by4' = by4
    BY <1>4 DEF Store6, Store4
  <2>5. Owner' = Owner /\ Active' = Active
    BY <2>3, <2>4, SameLeases
  <2> QED
    BY <2>4, <2>5 DEF Stays
<1>5. ASSUME NEW w \in Workers, Assign(w) PROVE Stays \/ Wakes \/ Lends(w)
  <2>1. PICK t \in worker[w].since .. now, k \in Offsets :
          \/ AssignMapped(worker[w].a, t)
          \/ AssignDormant(worker[w].a, t)
          \/ AssignFree(worker[w].a, t, k)
          \/ AssignOldest(worker[w].a, t, k)
          \/ AssignNone(worker[w].a, k)
    BY <1>5 DEF Assign
  <2> DEFINE a == worker[w].a
  <2>2. a \in Hosts /\ t \in Int
    BY <1>5, WorkerFacts DEF Assign, Working, Locals
  <2>3. CASE AssignFree(a, t, k) \/ AssignOldest(a, t, k)
    BY <2>2, <2>3 DEF Lends
  <2>4. CASE AssignMapped(a, t)
    <3>1. mapped[a] \in by4 /\ by4' = by4
      BY <2>2, <2>4 DEF AssignMapped, Consistent
    <3>2. \A o \in Offsets : host'[o].v6 = host[o].v6 /\ host'[o].dormant = host[o].dormant
      BY <2>2, <2>4, <3>1 DEF AssignMapped
    <3>3. Owner' = Owner /\ Active' = Active
      BY <3>1, <3>2, SameLeases
    <3> QED
      BY <3>1, <3>3 DEF Stays
  <2>5. CASE AssignDormant(a, t)
    <3>1. dormant[a] \in by4 /\ by4' = by4 /\ host[dormant[a]].v6 = a
      BY <2>2, <2>5 DEF AssignDormant, Consistent
    <3>2. host' = [host EXCEPT ![dormant[a]] =
                     [v6 |-> a, lastUse |-> t, dormant |-> FALSE]]
      BY <2>5, <3>1 DEF AssignDormant
    <3>3. Owner' = Owner
      BY <3>1, <3>2 DEF Owner
    <3>4. Active' = Active \cup {dormant[a]}
      BY <3>1, <3>2 DEF Active
    <3>5. {dormant[a]} \in SUBSET by4
      BY <3>1
    <3> QED
      BY <3>1, <3>3, <3>4, <3>5, Zenon DEF Wakes
  <2>6. CASE AssignNone(a, k)
    BY <2>6, KeepsHosts DEF AssignNone, table
  <2> QED
    BY <2>1, <2>3, <2>4, <2>5, <2>6
<1>6. CASE MaintainDemote
  <2> DEFINE offs == {mapped[h] : h \in Idle}
  <2>1. /\ by4' = by4
        /\ host' = [o \in Offsets |-> IF \E h \in Idle : mapped[h] = o
                                        THEN [host[o] EXCEPT !.dormant = TRUE] ELSE host[o]]
    BY <1>6 DEF MaintainDemote
  <2>2. offs \subseteq Active
    BY DEF Idle, Consistent, Active, Nil
  <2>3. \A o \in Offsets : (\E h \in Idle : mapped[h] = o) <=> o \in offs
    OBVIOUS
  <2> HIDE DEF offs
  <2>4. \A o \in Offsets : /\ host'[o].v6 = host[o].v6
                           /\ host'[o].dormant = IF o \in offs THEN TRUE ELSE host[o].dormant
    <3>1. ASSUME NEW o \in offs, o \in Offsets
          PROVE  host'[o].v6 = host[o].v6 /\ host'[o].dormant = TRUE
      BY <2>1, <2>3, <3>1
    <3>2. ASSUME NEW o \in Offsets, o \notin offs PROVE host'[o] = host[o]
      BY <2>1, <2>3, <3>2
    <3> QED
      BY <3>1, <3>2, Zenon
  <2>5. Owner' = Owner
    BY <2>1, <2>4 DEF Owner
  <2>6. Active' = Active \ offs
    BY <2>1, <2>4, Zenon DEF Active
  <2> QED
    BY <2>1, <2>2, <2>5, <2>6, Zenon DEF Rests
<1>7. CASE MaintainNow \/ MaintainMax \/ SaveState
  BY <1>7, KeepsHosts, Zenon DEF MaintainNow, MaintainMax, SaveState, table
<1>8. CASE Reload \/ Tick
  BY <1>8, KeepsHosts DEF Reload, SetLeases, Build, Tick, table
<1>9. CASE UNCHANGED vars
  BY <1>9, KeepsHosts DEF vars, table
<1> QED
  BY <1>1, <1>2, <1>3, <1>4, <1>5, <1>6, <1>7, <1>8, <1>9
     DEF Next, Load, Packet, Maintain, Restores

-----------------------------------------------------------------------------

LEMMA RefinesInit == Init => L!Init
<1> SUFFICES ASSUME Init PROVE L!Init
  OBVIOUS
<1>1. Owner = [o \in Offsets |-> NoHost]
  BY DEF Init, Owner
<1>2. Active = {}
  BY DEF Init, Active
<1> QED
  BY <1>1, <1>2 DEF L!Init

LEMMA RefinesStep == IInv /\ [Next]_vars => [L!Next]_(L!lease)
<1> SUFFICES ASSUME IInv, [Next]_vars PROVE [L!Next]_(L!lease)
  OBVIOUS
<1> USE OwnerType
<1>1. CASE Stays
  BY <1>1 DEF Stays, L!lease
<1>2. CASE Wakes
  BY <1>2 DEF Wakes, L!Next, L!Wake, L!Held
<1>3. CASE Rests
  BY <1>3 DEF Rests, L!Next, L!Rest
<1>4. CASE Restores
  <2>1. PICK off \in Offsets, v6 \in Hosts, last \in 1 .. MaxTime : LoadLine(off, v6, last)
    BY <1>4 DEF Restores
  <2>2. L!Restore(off, v6)
    BY <2>1, LoadLineRestores, ConstantFacts DEF L!Restore, L!Held
  <2> QED
    BY <2>2 DEF L!Next
<1>5. ASSUME NEW w \in Workers, Lends(w) PROVE L!Next
  <2> DEFINE a == worker[w].a
  <2>1. PICK t \in Int, k \in Offsets :
          a \in Hosts /\ (AssignFree(a, t, k) \/ AssignOldest(a, t, k))
    BY <1>5 DEF Lends
  <2>2. CASE AssignFree(a, t, k)
    <3>1. \E off \in Offsets : L!Lend(off, a)
      BY <2>1, <2>2, FreeLends DEF L!Lend
    <3> QED
      BY <2>1, <3>1 DEF L!Next
  <2>3. CASE AssignOldest(a, t, k)
    <3>1. \E off \in Offsets : L!Lend(off, a)
      BY <2>1, <2>3, OldestLends DEF L!Lend, Active
    <3> QED
      BY <2>1, <3>1 DEF L!Next
  <2> QED
    BY <2>1, <2>2, <2>3
<1>6. CASE MaintainRelease
  <2>1. PICK S \in SUBSET by4 :
          /\ \A o \in S : host[o].dormant
          /\ Owner' = [o \in Offsets |-> IF o \in S THEN NoHost ELSE Owner[o]]
          /\ Active' = Active
    BY <1>6, ReleaseReclaims
  <2>2. S \in SUBSET Offsets /\ L!Reclaim(S)
    BY <2>1 DEF L!Reclaim, L!Held, Active
  <2> QED
    BY <2>2 DEF L!Next
<1> QED
  BY <1>1, <1>2, <1>3, <1>4, <1>5, <1>6, StepKinds

\* The pool implements Leases: hosts hold at most one address each, and an
\* address changes hands or is freed only while its holder is dormant.
THEOREM PoolKeepsLeases == Spec => KeepsLeases
<1>1. Spec => L!Spec
  BY Invariance, RefinesInit, RefinesStep, PTL DEF Spec, L!Spec
<1> QED
  BY <1>1 DEF KeepsLeases

\* When the probe of a finds nothing, every address is lent or reserved by one
\* of the two tables the probe has asked.
LEMMA NoStopMeansFull ==
  ASSUME IInv, NEW a \in Hosts, NEW k \in Offsets, Stops(a, k) = {}
  PROVE  \A p \in Offsets : p \in by4 \/ p \in reserved \cup reserved'
<1> SUFFICES ASSUME NEW p \in Offsets PROVE p \in by4 \/ p \in reserved \cup reserved'
  OBVIOUS
<1>1. PICK i \in 0 .. PoolMax : Probe(a, i) = p
  BY ProbeCovers
<1>2. ~Free(p, Asked(i, k))
  BY <1>1 DEF Stops
<1>3. Asked(i, k) \subseteq reserved \cup reserved'
  BY DEF Asked
<1> QED
  BY <1>2, <1>3, ConstantFacts DEF Free, IInv, Consistent

\* A lent dynHost marked dormant is in the dormant index.
LEMMA DormantListed ==
  ASSUME IInv, NEW p \in by4, host[p].dormant
  PROVE  p \in DormantOffsets
<1>1. host[p].v6 \in Hosts /\ dormant[host[p].v6] = p /\ p # Nil
  BY ConstantFacts DEF IInv, TypeOK, Consistent, Nil
<1> QED
  BY <1>1 DEF DormantOffsets

LEMMA DirtyStep ==
  IInv /\ [Next]_vars => (phase = "running" /\ Owner' # Owner => dirty')
<1> SUFFICES ASSUME IInv, [Next]_vars, phase = "running", Owner' # Owner PROVE dirty'
  OBVIOUS
<1>1. ~Stays /\ ~Wakes /\ ~Rests /\ ~Restores
  BY DEF Stays, Wakes, Rests, Restores, LoadLine
<1>2. ASSUME NEW w \in Workers, Lends(w) PROVE dirty'
  BY <1>2 DEF Lends, AssignFree, AssignOldest
<1>3. CASE MaintainRelease
  <2>1. PICK S \in SUBSET by4 :
          /\ Owner' = [o \in Offsets |-> IF o \in S THEN NoHost ELSE Owner[o]]
          /\ dirty' = (dirty \/ S # {})
    BY <1>3, ReleaseReclaims
  <2>2. S # {}
    BY <2>1, OwnerType
  <2> QED
    BY <2>1, <2>2, Zenon
<1> QED
  BY <1>1, <1>2, <1>3, StepKinds

\* Every step of a running pool that changes a holder leaves it dirty, so the
\* next Save is not skipped.
THEOREM OwnerChangesAreDirty == Spec => DirtyTracksOwner
BY Invariance, DirtyStep, PTL DEF Spec, DirtyTracksOwner

LEMMA LeavesStep ==
  ASSUME IInv, [Next]_vars, NEW o \in by4, Owner'[o] # Owner[o]
  PROVE  /\ host[o].dormant
         /\ \/ /\ Owner'[o] = NoHost
               /\ host[o].lastUse + ticker.max < ticker.t
            \/ /\ Owner'[o] # NoHost
               /\ \A p \in Offsets : p \in by4 \/ p \in reserved \cup reserved'
               /\ \A p \in by4 : host[p].dormant => host[o].lastUse <= host[p].lastUse
<1> USE OwnerType
<1>1. ~Stays /\ ~Wakes /\ ~Rests
  BY DEF Stays, Wakes, Rests
<1>2. ~Restores
  BY LoadLineRestores, ConstantFacts DEF Restores
<1>3. CASE \E w \in Workers : Lends(w)
  <2>1. PICK w \in Workers, t \in Int, k \in Offsets :
          /\ worker[w].a \in Hosts
          /\ AssignFree(worker[w].a, t, k) \/ AssignOldest(worker[w].a, t, k)
    BY <1>3 DEF Lends
  <2>2. ~AssignFree(worker[w].a, t, k)
    BY <2>1, FreeLends
  <2>3. AssignOldest(worker[w].a, t, k)
    BY <2>1, <2>2
  <2>4. o \in Oldest /\ host[o].dormant /\ Owner'[o] = worker[w].a
    BY <2>1, <2>3, OldestLends, SMTT(30)
  <2>5. \A p \in Offsets : p \in by4 \/ p \in reserved \cup reserved'
    BY <2>1, <2>3, NoStopMeansFull DEF AssignOldest
  <2>6. \A p \in by4 : host[p].dormant => host[o].lastUse <= host[p].lastUse
    BY <2>4, DormantListed DEF Oldest
  <2> QED
    BY <2>1, <2>4, <2>5, <2>6, ConstantFacts
<1>4. CASE MaintainRelease
  BY <1>4, ReleaseReclaims
<1> QED
  BY <1>1, <1>2, <1>3, <1>4, StepKinds

\* An address leaves its holder only when the maximum lease has run out or
\* the pool is full and the holder is the least recently used dormant one.
THEOREM HoldersKeepAddresses == Spec => LeavesHolderOnlyWhenDue
<1>1. IInv /\ [Next]_vars =>
        \A o \in by4 : Owner'[o] # Owner[o] =>
          /\ host[o].dormant
          /\ \/ /\ Owner'[o] = NoHost
                /\ host[o].lastUse + ticker.max < ticker.t
             \/ /\ Owner'[o] # NoHost
                /\ \A p \in Offsets : p \in by4 \/ p \in reserved \cup reserved'
                /\ \A p \in by4 : host[p].dormant => host[o].lastUse <= host[p].lastUse
  BY LeavesStep
<1> QED
  BY <1>1, Invariance, PTL DEF Spec, LeavesHolderOnlyWhenDue

\* Only assign itself takes a worker out of assign.
LEMMA LeavesAssign ==
  ASSUME IInv, [Next]_vars, NEW w \in Workers,
         worker[w].at = "assign", worker'[w].at = "idle"
  PROVE  Assign(w)
<1> USE WorkerFacts DEF IInv, TypeOK
<1>1. ASSUME NEW v \in Workers, Packet(v) PROVE Assign(w)
  <2>1. CASE v = w
    BY <1>1, <2>1 DEF Packet, Lookup6, Store6, Lookup4, Check4, Store4, Working
  <2>2. CASE v # w
    BY <1>1, <2>2 DEF Packet, Lookup6, Store6, Lookup4, Check4, Store4, Assign, Goto, Done
  <2> QED
    BY <2>1, <2>2
<1>2. CASE MaintainRelease
  BY <1>2 DEF MaintainRelease, WorkerState
<1>3. CASE Load
  BY <1>3 DEF Load, LoadLine, LoadEnd, LoadError
<1>4. CASE MaintainNow \/ MaintainMax \/ MaintainDemote \/ SaveState
  BY <1>4, Zenon DEF MaintainNow, MaintainMax, MaintainDemote, SaveState
<1>5. CASE Reload \/ Tick \/ UNCHANGED vars
  BY <1>5 DEF Reload, SetLeases, Build, Tick, vars
<1> QED
  BY <1>1, <1>2, <1>3, <1>4, <1>5 DEF Next, Maintain

LEMMA RejectStep ==
  ASSUME IInv, [Next]_vars, NEW w \in Workers,
         worker[w].at = "assign", worker'[w].at = "idle"
  PROVE  \/ mapped'[worker[w].a] # Nil
         \/ \A o \in Offsets : o \in reserved \cup reserved' \/ (o \in by4 /\ ~host[o].dormant)
<1> DEFINE a == worker[w].a
<1>1. PICK t \in worker[w].since .. now, k \in Offsets :
        \/ AssignMapped(a, t) \/ AssignDormant(a, t) \/ AssignFree(a, t, k)
        \/ AssignOldest(a, t, k) \/ AssignNone(a, k)
  BY LeavesAssign DEF Assign
<1>2. a \in Hosts
  BY DEF IInv, Locals
<1>3. CASE AssignMapped(a, t)
  BY <1>3, SMTT(30) DEF AssignMapped
<1>4. CASE AssignDormant(a, t)
  BY <1>2, <1>4 DEF AssignDormant, IInv, TypeOK, Consistent
<1>5. CASE AssignFree(a, t, k)
  <2>1. PICK i \in 0 .. PoolMax : /\ Free(Probe(a, i), Asked(i, k))
                                 /\ mapped' = [mapped EXCEPT ![a] = Probe(a, i)]
    BY <1>5, Zenon DEF AssignFree, Stops
  <2> QED
    BY <1>2, <2>1 DEF Free, Nil, IInv, TypeOK
<1>6. CASE AssignOldest(a, t, k)
  <2>1. PICK o \in Oldest : mapped' = [mapped EXCEPT ![a] = o]
    BY <1>6, Zenon DEF AssignOldest
  <2> QED
    BY <1>2, <2>1 DEF Oldest, DormantOffsets, IInv, TypeOK
<1>7. CASE AssignNone(a, k)
  <2>1. \A p \in Offsets : p \in by4 \/ p \in reserved \cup reserved'
    BY <1>2, <1>7, NoStopMeansFull DEF AssignNone
  <2>2. \A p \in by4 : ~host[p].dormant
    BY <1>7, DormantListed DEF AssignNone
  <2> QED
    BY <2>1, <2>2
<1> QED
  BY <1>1, <1>3, <1>4, <1>5, <1>6, <1>7, SMTT(30)

\* A packet of an unlisted host is rejected only when every address is in
\* active use or reserved, by the table its probe began under or by one that
\* replaced it during the probe.
THEOREM RejectsOnlyWhenFull == Spec => RejectedOnlyWhenFull
<1>1. IInv /\ [Next]_vars =>
        \A w \in Workers :
          worker[w].at = "assign" /\ worker'[w].at = "idle" =>
            \/ mapped'[worker[w].a] # Nil
            \/ \A o \in Offsets : o \in reserved \cup reserved' \/ (o \in by4 /\ ~host[o].dormant)
  BY RejectStep
<1> QED
  BY <1>1, Invariance, PTL DEF Spec, RejectedOnlyWhenFull

-----------------------------------------------------------------------------
(* Two invariants that need a hypothesis on the configuration.             *)

\* While every table reserves the same addresses none of them is lent.
THEOREM ReservedStayFree ==
  ASSUME \A S, T \in ReservedSets : S = T
  PROVE  Spec => []NoReservedLent
<1>1. Init => NoReservedLent
  BY DEF Init, NoReservedLent
<1>2. IInv /\ IInv' /\ NoReservedLent /\ [Next]_vars => NoReservedLent'
  <2> SUFFICES ASSUME IInv, IInv', NoReservedLent, [Next]_vars PROVE NoReservedLent'
    OBVIOUS
  <2>1. reserved' = reserved
    BY DEF IInv, TypeOK
  <2>2. CASE Stays
    BY <2>1, <2>2 DEF Stays, NoReservedLent
  <2>3. CASE MaintainRelease
    BY <2>1, <2>3 DEF MaintainRelease, NoReservedLent
  <2>4. CASE Restores
    BY <2>1, <2>4, SMTT(30) DEF Restores, LoadLine, NoReservedLent
  <2>5. ASSUME NEW w \in Workers, Lends(w) PROVE NoReservedLent'
    BY <2>1, <2>5 DEF Lends, AssignFree, AssignOldest, Stops, Free, Asked, NoReservedLent
  <2>6. CASE Wakes \/ Rests
    BY <2>1, <2>6 DEF Wakes, Rests, NoReservedLent
  <2> QED
    BY <2>2, <2>3, <2>4, <2>5, <2>6, StepKinds
<1> QED
  BY <1>1, <1>2, Invariance, PTL DEF Spec

\* With one packet goroutine no step but Maintain's can take the address that
\* lookup6 has found away from the host that asked for it.
THEOREM AnswersGoToAsker ==
  ASSUME NEW w, Workers = {w}
  PROVE  Spec => []AnswerHeldByAsker
<1>1. Init => AnswerHeldByAsker
  BY DEF Init, AnswerHeldByAsker, NoWork
<1>2. IInv /\ AnswerHeldByAsker /\ [Next]_vars => AnswerHeldByAsker'
  <2> SUFFICES ASSUME IInv, AnswerHeldByAsker, [Next]_vars,
                      worker'[w].at = "hit6", ~worker'[w].orphan
               PROVE  Owner'[worker'[w].d] = worker'[w].a
    BY DEF AnswerHeldByAsker
  <2> USE WorkerFacts DEF IInv, TypeOK
  <2>1. CASE \E a \in Hosts : Lookup6(w, a)
    <3>1. PICK a \in Hosts : Lookup6(w, a)
      BY <2>1
    <3>2. mapped[a] # Nil /\ worker'[w].d = mapped[a] /\ worker'[w].a = a
      BY <3>1 DEF Lookup6, Goto
    <3>3. Owner[mapped[a]] = a
      BY <3>2 DEF Owner, Consistent
    <3>4. Owner' = Owner
      BY <3>1 DEF Lookup6, table, Owner
    <3> QED
      BY <3>2, <3>3, <3>4
  <2>2. CASE \/ \E off \in Offsets : Lookup4(w, off)
             \/ Store6(w) \/ Check4(w) \/ Store4(w) \/ Assign(w)
    BY <2>2 DEF Lookup4, Store6, Check4, Store4, Assign, Goto, Done, NoWork
  <2>3. CASE MaintainRelease
    <3>1. /\ worker'[w].d = worker[w].d /\ worker'[w].a = worker[w].a
          /\ worker[w].at = "hit6" /\ ~worker[w].orphan
          /\ worker[w].d \notin {dormant[h] : h \in Expired}
      BY <2>3 DEF MaintainRelease, WorkerState
    <3>2. worker[w].d \in Offsets
      BY <3>1 DEF Locals
    <3>3. Owner'[worker[w].d] = Owner[worker[w].d]
      BY <2>3, <3>1, <3>2 DEF MaintainRelease, Owner
    <3> QED
      BY <3>1, <3>3 DEF AnswerHeldByAsker
  <2>4. CASE worker' = worker /\ ~MaintainRelease
    <3>1. Owner[worker[w].d] = worker[w].a /\ worker[w].a \in Hosts /\ worker[w].d \in Offsets
      BY <2>4 DEF AnswerHeldByAsker, Locals
    <3>2. CASE Stays \/ Wakes \/ Rests
      BY <2>4, <3>1, <3>2 DEF Stays, Wakes, Rests
    <3>3. CASE Restores
      <4>1. worker[w].d \in by4
        BY <3>1, ConstantFacts DEF Owner
      <4> QED
        BY <2>4, <3>1, <3>3, <4>1, LoadLineRestores, OwnerType DEF Restores
    <3>4. CASE Assign(w)
      BY <2>4, <3>4 DEF Assign, Working
    <3> QED
      BY <2>4, <3>2, <3>3, <3>4, StepKinds
  <2>5. \/ worker' = worker
        \/ Packet(w)
        \/ MaintainRelease
    BY Zenon DEF Next, Load, LoadLine, LoadEnd, LoadError, Maintain, MaintainNow, MaintainMax,
           MaintainDemote, SaveState, Reload, SetLeases, Build, Tick, vars
  <2> QED
    BY <2>1, <2>2, <2>3, <2>4, <2>5 DEF Packet
<1> QED
  BY <1>1, <1>2, Invariance, PTL DEF Spec

=============================================================================
