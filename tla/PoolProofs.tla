----------------------------- MODULE PoolProofs -----------------------------
(***************************************************************************)
(* Proofs about Pool, for any number of hosts, workers and addresses, any  *)
(* hash, any leases and any reloads.                                       *)
(***************************************************************************)
EXTENDS Pool, TLAPS

\* What a worker's locals say while it is inside a lookup.
Locals ==
  \A w \in Workers :
    /\ worker[w].at \in {"hit6", "assign"} => worker[w].a \in Hosts
    /\ worker[w].at \in {"hit6", "hit4", "live4"} => worker[w].d \in Offsets
    /\ worker[w].d # Nil /\ ~worker[w].orphan => worker[w].d \in by4

IInv == TypeOK /\ Consistent /\ Locals

LEMMA ConstantFacts ==
  /\ 0 \notin Offsets /\ Offsets \subseteq 0 .. PoolMax
  /\ PoolMax \in Nat /\ PoolMax + 1 \in Nat /\ MaxTime \in Nat
  /\ \A a \in Hosts : Hash[a] \in 0 .. PoolMax
  /\ NoHost \notin Hosts
  /\ \A l \in LeaseChoices : l[1] \in Nat /\ l[2] \in Nat
BY PoolAssumption DEF Offsets

LEMMA RecordFacts ==
  /\ NoLease \in DynHost
  /\ \A h \in Hosts, t \in Int, b \in BOOLEAN :
       [v6 |-> h, lastUse |-> t, dormant |-> b] \in DynHost
  /\ \A r \in DynHost : /\ r.v6 \in Hosts \cup {NoHost}
                        /\ r.lastUse \in Int
                        /\ r.dormant \in BOOLEAN
  /\ \A r \in DynHost, t \in Int :
       /\ [r EXCEPT !.lastUse = t] \in DynHost
       /\ [r EXCEPT !.lastUse = t].v6 = r.v6
       /\ [r EXCEPT !.lastUse = t].dormant = r.dormant
  /\ \A r \in DynHost, b \in BOOLEAN :
       /\ [r EXCEPT !.dormant = b] \in DynHost
       /\ [r EXCEPT !.dormant = b].v6 = r.v6
       /\ [r EXCEPT !.dormant = b].dormant = b
BY ConstantFacts DEF NoLease, DynHost

LEMMA WorkerFacts ==
  /\ NoWork \in WorkerState
  /\ \A s \in WorkerState : /\ s.since \in 0 .. MaxTime
                            /\ s.d \in 0 .. PoolMax
                            /\ s.a \in Hosts \cup {NoHost}
                            /\ s.orphan \in BOOLEAN
  /\ \A at \in {"hit6", "assign", "hit4", "live4"}, a \in Hosts \cup {NoHost},
        d \in 0 .. PoolMax, t \in 1 .. MaxTime :
        [at |-> at, a |-> a, d |-> d, since |-> t, orphan |-> FALSE] \in WorkerState
  /\ \A s \in WorkerState : [s EXCEPT !.orphan = TRUE] \in WorkerState
<1> USE ConstantFacts DEF WorkerState
<1>1. NoWork \in WorkerState
  BY DEF NoWork, Nil
<1>2. \A s \in WorkerState : /\ s.since \in 0 .. MaxTime
                             /\ s.d \in 0 .. PoolMax
                             /\ s.a \in Hosts \cup {NoHost}
                             /\ s.orphan \in BOOLEAN
  OBVIOUS
<1>3. \A at \in {"hit6", "assign", "hit4", "live4"}, a \in Hosts \cup {NoHost},
         d \in 0 .. PoolMax, t \in 1 .. MaxTime :
         [at |-> at, a |-> a, d |-> d, since |-> t, orphan |-> FALSE] \in WorkerState
  OBVIOUS
<1>4. \A s \in WorkerState : [s EXCEPT !.orphan = TRUE] \in WorkerState
  BY Zenon
<1> QED
  BY <1>1, <1>2, <1>3, <1>4

LEMMA InitIInv == Init => IInv
<1> SUFFICES ASSUME Init PROVE IInv
  OBVIOUS
<1>1. TypeOK
  <2>1. ticker \in TickerState
    BY ConstantFacts DEF Init, Resting, TickerState
  <2>2. /\ host \in [Offsets -> DynHost]
        /\ worker \in [Workers -> WorkerState]
    BY RecordFacts, WorkerFacts DEF Init
  <2>3. /\ mapped \in [Hosts -> 0 .. PoolMax]
        /\ dormant \in [Hosts -> 0 .. PoolMax]
        /\ used \subseteq 0 .. PoolMax
    BY ConstantFacts DEF Init, Nil
  <2>4. minLease \in Nat /\ maxLease \in Nat
    BY ConstantFacts DEF Init
  <2> QED
    BY <2>1, <2>2, <2>3, <2>4, Zenon DEF Init, TypeOK
<1>2. Consistent
  BY DEF Init, Consistent, Nil
<1>3. Locals
  BY DEF Init, Locals, NoWork, Nil
<1> QED
  BY <1>1, <1>2, <1>3 DEF IInv

\* The probe stays inside the pool and, over PoolMax + 1 steps, visits every
\* offset.
LEMMA ProbeRange ==
  ASSUME NEW a \in Hosts, NEW i \in 0 .. PoolMax
  PROVE  Probe(a, i) = IF Hash[a] + i <= PoolMax THEN Hash[a] + i
                                                ELSE Hash[a] + i - PoolMax - 1
<1>1. PICK h \in Nat, m \in Nat : h = Hash[a] /\ m = PoolMax + 1 /\ h < m /\ i < m /\ i \in Nat
  BY ConstantFacts
<1>2. ASSUME h + i < m PROVE (h + i) % m = h + i
  BY <1>1, <1>2
<1>3. ASSUME h + i >= m PROVE (h + i) % m = h + i - m
  BY <1>1, <1>3
<1> QED
  BY <1>1, <1>2, <1>3, ConstantFacts DEF Probe

LEMMA ProbeType ==
  ASSUME NEW a \in Hosts, NEW i \in 0 .. PoolMax
  PROVE  Probe(a, i) \in 0 .. PoolMax
BY ProbeRange, ConstantFacts

LEMMA ProbeCovers ==
  ASSUME NEW a \in Hosts, NEW o \in Offsets
  PROVE  \E i \in 0 .. PoolMax : Probe(a, i) = o
<1>1. CASE o >= Hash[a]
  <2>1. o - Hash[a] \in 0 .. PoolMax /\ Probe(a, o - Hash[a]) = o
    BY <1>1, ProbeRange, ConstantFacts DEF Offsets
  <2> QED
    BY <2>1
<1>2. CASE o < Hash[a]
  <2>1. /\ o + PoolMax + 1 - Hash[a] \in 0 .. PoolMax
        /\ Probe(a, o + PoolMax + 1 - Hash[a]) = o
    BY <1>2, ProbeRange, ConstantFacts DEF Offsets
  <2> QED
    BY <2>1
<1> QED
  BY <1>1, <1>2, ConstantFacts DEF Offsets

\* The types of what assign, Load and Maintain change.
TableOK ==
  /\ used \subseteq 0 .. PoolMax
  /\ by4 \subseteq Offsets
  /\ host \in [Offsets -> DynHost]
  /\ mapped \in [Hosts -> 0 .. PoolMax]
  /\ dormant \in [Hosts -> 0 .. PoolMax]
  /\ dirty \in BOOLEAN

LEMMA AssignType ==
  ASSUME TableOK, Consistent, NEW a \in Hosts, NEW t \in Int, NEW k \in Offsets,
         \/ AssignMapped(a, t) \/ AssignDormant(a, t) \/ AssignFree(a, t, k)
         \/ AssignOldest(a, t, k) \/ AssignNone(a, k)
  PROVE  TableOK' /\ Consistent'
<1> USE ConstantFacts, RecordFacts DEF TableOK
<1>1. CASE AssignMapped(a, t)
  <2>1. mapped[a] \in by4
    BY <1>1 DEF AssignMapped, Consistent
  <2>2. TableOK'
    BY <1>1, <2>1 DEF AssignMapped
  <2>3. \A o \in Offsets : host'[o].v6 = host[o].v6 /\ host'[o].dormant = host[o].dormant
    BY <1>1, <2>1 DEF AssignMapped
  <2>4. Consistent'
    BY <1>1, <2>3 DEF AssignMapped, Consistent
  <2> QED
    BY <2>2, <2>4
<1>2. CASE AssignDormant(a, t)
  <2> DEFINE d == dormant[a]
  <2>1. d \in by4 /\ d \in Offsets /\ host[d].v6 = a /\ host[d].dormant
    BY <1>2 DEF AssignDormant, Consistent, Nil
  <2>2. host' = [host EXCEPT ![d] = [v6 |-> a, lastUse |-> t, dormant |-> FALSE]]
    BY <1>2, <2>1 DEF AssignDormant
  <2>3. TableOK'
    <3>1. host' \in [Offsets -> DynHost]
      BY <2>1, <2>2, Zenon
    <3> QED
      BY <1>2, <2>1, <3>1 DEF AssignDormant, Nil
  <2>4. Consistent'
    BY <1>2, <2>1, <2>2 DEF AssignDormant, Consistent, Nil
  <2> QED
    BY <2>3, <2>4
<1>3. CASE AssignFree(a, t, k)
  <2>1. PICK i \in 0 .. PoolMax :
          /\ Free(Probe(a, i), Asked(i, k))
          /\ used' = used \cup {Probe(a, i)}
          /\ by4' = by4 \cup {Probe(a, i)}
          /\ host' = [host EXCEPT ![Probe(a, i)] =
                        [v6 |-> a, lastUse |-> t, dormant |-> FALSE]]
          /\ mapped' = [mapped EXCEPT ![a] = Probe(a, i)]
    BY <1>3, Zenon DEF AssignFree, Stops
  <2> DEFINE off == Probe(a, i)
  <2>2. off \in Offsets /\ off \notin used
    BY <2>1, ProbeType DEF Free, Offsets
  <2>3. dormant' = dormant /\ dirty' = TRUE /\ mapped[a] = Nil /\ dormant[a] = Nil
    BY <1>3 DEF AssignFree
  <2> HIDE DEF off
  <2>4. TableOK'
    <3>1. host' = [host EXCEPT ![off] = [v6 |-> a, lastUse |-> t, dormant |-> FALSE]]
      BY <2>1 DEF off
    <3>2. host' \in [Offsets -> DynHost]
      BY <3>1, <2>2, Zenon
    <3>3. mapped' \in [Hosts -> 0 .. PoolMax]
      BY <2>1, <2>2 DEF off
    <3> QED
      BY <2>1, <2>2, <2>3, <3>2, <3>3 DEF off
  <2>5. off \notin by4 /\ \A o \in by4 : host[o].v6 # a
    BY <2>2, <2>3 DEF Consistent, Nil
  <2>6. Consistent'
    BY <2>1, <2>2, <2>3, <2>5 DEF Consistent, Nil, off
  <2> QED
    BY <2>4, <2>6
<1>4. CASE AssignOldest(a, t, k)
  <2>1. PICK o \in DormantOffsets :
          /\ host' = [host EXCEPT ![o] = [v6 |-> a, lastUse |-> t, dormant |-> FALSE]]
          /\ mapped' = [mapped EXCEPT ![a] = o]
          /\ dormant' = [dormant EXCEPT ![host[o].v6] = Nil]
    BY <1>4, Zenon DEF AssignOldest, Oldest
  <2>2. used' = used /\ by4' = by4 /\ dirty' = TRUE /\ mapped[a] = Nil /\ dormant[a] = Nil
    BY <1>4 DEF AssignOldest
  <2>3. o \in by4 /\ o \in Offsets /\ dormant[host[o].v6] = o /\ host[o].v6 \in Hosts
    BY <2>1 DEF DormantOffsets, Consistent, Nil
  <2>4. TableOK'
    <3>1. host' \in [Offsets -> DynHost]
      BY <2>1, <2>3, Zenon
    <3>2. o \in 0 .. PoolMax /\ mapped' \in [Hosts -> 0 .. PoolMax]
      BY <2>1, <2>3
    <3>3. dormant' \in [Hosts -> 0 .. PoolMax]
      BY <2>1, <2>3 DEF Nil
    <3> QED
      BY <2>2, <3>1, <3>2, <3>3
  <2>5. \A p \in by4 : host[p].v6 # a
    BY <2>2 DEF Consistent, Nil
  <2>6. Consistent'
    BY <2>1, <2>2, <2>3, <2>5 DEF Consistent, Nil
  <2> QED
    BY <2>4, <2>6
<1>5. CASE AssignNone(a, k)
  BY <1>5 DEF AssignNone, table, Consistent
<1> QED
  BY <1>1, <1>2, <1>3, <1>4, <1>5

LEMMA LoadLineTable ==
  ASSUME TableOK, Consistent, NEW off \in Offsets, NEW v6 \in Hosts, NEW last \in Int,
         LoadLine(off, v6, last)
  PROVE  TableOK' /\ Consistent'
<1> USE ConstantFacts, RecordFacts DEF TableOK
<1>1. /\ used' = used \cup {off} /\ by4' = by4 \cup {off} /\ off \notin used
      /\ host' = [host EXCEPT ![off] = [v6 |-> v6, lastUse |-> last, dormant |-> TRUE]]
      /\ dormant' = [dormant EXCEPT ![v6] = off]
      /\ mapped' = mapped /\ dirty' = dirty
      /\ mapped[v6] = Nil /\ dormant[v6] = Nil
  BY DEF LoadLine
<1>2. host' \in [Offsets -> DynHost]
  BY <1>1, Zenon
<1>3. TableOK'
  BY <1>1, <1>2
<1>4. off \notin by4 /\ \A o \in by4 : host[o].v6 # v6
  BY <1>1 DEF Consistent, Nil
<1>5. Consistent'
  BY <1>1, <1>4 DEF Consistent, Nil
<1> QED
  BY <1>3, <1>5

LEMMA ActivateTable ==
  ASSUME TableOK, Consistent, NEW S \in SUBSET by4, Activate(S),
         UNCHANGED <<used, by4, dirty>>
  PROVE  TableOK' /\ Consistent'
<1> USE ConstantFacts, RecordFacts DEF TableOK
<1>1. \A o \in S, p \in S : host[o].v6 = host[p].v6 => o = p
  BY DEF Consistent, Nil
<1>2. host' \in [Offsets -> DynHost]
  BY Zenon DEF Activate
<1>3. \A h \in Hosts :
        /\ (\A o \in S : host[o].v6 # h) => mapped'[h] = mapped[h] /\ dormant'[h] = dormant[h]
        /\ \A o \in S : host[o].v6 = h => mapped'[h] = o /\ dormant'[h] = Nil
  BY <1>1 DEF Activate
<1>4. TableOK'
  <2>1. mapped' \in [Hosts -> 0 .. PoolMax] /\ dormant' \in [Hosts -> 0 .. PoolMax]
    <3>1. \A h \in Hosts : mapped'[h] \in 0 .. PoolMax /\ dormant'[h] \in 0 .. PoolMax
      BY <1>3 DEF Nil
    <3> QED
      BY <3>1 DEF Activate
  <2> QED
    BY <1>2, <2>1
<1>5. \A o \in Offsets : /\ host'[o].v6 = host[o].v6
                         /\ host'[o].dormant = IF o \in S THEN FALSE ELSE host[o].dormant
  BY DEF Activate
<1>6. Consistent'
  <2>1. used' = by4' \cup {0}
    BY DEF Consistent
  <2>2. ASSUME NEW o \in by4
        PROVE  /\ host'[o].v6 \in Hosts
               /\ mapped'[host'[o].v6] = IF host'[o].dormant THEN Nil ELSE o
               /\ dormant'[host'[o].v6] = IF host'[o].dormant THEN o ELSE Nil
    <3>0. o \in Offsets /\ host[o].v6 \in Hosts
      BY DEF Consistent
    <3>1. CASE o \in S
      <4>1. host'[o].v6 = host[o].v6 /\ host'[o].dormant = FALSE
        BY <3>0, <3>1, <1>5, Zenon
      <4>2. mapped'[host[o].v6] = o /\ dormant'[host[o].v6] = Nil
        BY <3>0, <3>1, <1>3
      <4> QED
        BY <3>0, <4>1, <4>2
    <3>2. CASE o \notin S
      <4>1. \A p \in S : host[p].v6 # host[o].v6
        BY <3>2 DEF Consistent, Nil
      <4>2. host'[o].v6 = host[o].v6 /\ host'[o].dormant = host[o].dormant
        BY <3>0, <3>2, <1>5, Zenon
      <4>3. /\ mapped'[host[o].v6] = mapped[host[o].v6]
            /\ dormant'[host[o].v6] = dormant[host[o].v6]
        BY <3>0, <4>1, <1>3
      <4> QED
        BY <3>0, <4>2, <4>3 DEF Consistent
    <3> QED
      BY <3>1, <3>2
  <2>3. ASSUME NEW h \in Hosts
        PROVE  /\ mapped'[h] # Nil => mapped'[h] \in by4 /\ host'[mapped'[h]].v6 = h
               /\ dormant'[h] # Nil => dormant'[h] \in by4 /\ host'[dormant'[h]].v6 = h
    <3>1. CASE \E o \in S : host[o].v6 = h
      <4>1. PICK o \in S : host[o].v6 = h
        BY <3>1
      <4>2. mapped'[h] = o /\ dormant'[h] = Nil
        BY <4>1, <1>3
      <4>3. host'[o].v6 = h
        BY <4>1, <1>5, Zenon
      <4> QED
        BY <4>2, <4>3
    <3>2. CASE \A o \in S : host[o].v6 # h
      <4>1. mapped'[h] = mapped[h] /\ dormant'[h] = dormant[h]
        BY <3>2, <1>3
      <4>2. /\ mapped[h] # Nil => mapped[h] \in by4 /\ host[mapped[h]].v6 = h
            /\ dormant[h] # Nil => dormant[h] \in by4 /\ host[dormant[h]].v6 = h
        BY DEF Consistent
      <4>3. \A o \in by4 : host'[o].v6 = host[o].v6
        BY <1>5, Zenon
      <4> QED
        BY <4>1, <4>2, <4>3
    <3> QED
      BY <3>1, <3>2
  <2> QED
    BY <2>1, <2>2, <2>3 DEF Consistent
<1> QED
  BY <1>4, <1>6

LEMMA LoadEndTable ==
  ASSUME TypeOK, TableOK, Consistent, LoadEnd
  PROVE  TableOK' /\ Consistent'
<1> USE ConstantFacts, RecordFacts DEF TableOK
<1>1. ASSUME host' = [o \in Offsets |->
                        IF o \in by4 THEN [host[o] EXCEPT !.lastUse = now - minLease]
                                     ELSE host[o]],
             UNCHANGED <<used, by4, mapped, dormant, dirty>>
      PROVE  TableOK' /\ Consistent'
  <2>0. now - minLease \in Int
    BY DEF TypeOK
  <2>1. host' \in [Offsets -> DynHost]
    BY <1>1, <2>0
  <2>2. \A o \in Offsets : host'[o].v6 = host[o].v6 /\ host'[o].dormant = host[o].dormant
    BY <1>1, <2>0
  <2> QED
    BY <1>1, <2>1, <2>2 DEF Consistent
<1>2. ASSUME Activate({o \in by4 : host[o].lastUse + minLease >= now}),
             UNCHANGED <<used, by4, dirty>>
      PROVE  TableOK' /\ Consistent'
  BY <1>2, ActivateTable
<1> QED
  BY <1>1, <1>2 DEF LoadEnd

LEMMA TouchTable ==
  ASSUME TableOK, Consistent, NEW w \in Workers, worker[w].d \in Offsets, NEW t \in Int,
         Touch(w, t), UNCHANGED <<used, by4, mapped, dormant, dirty>>
  PROVE  TableOK' /\ Consistent'
<1> USE ConstantFacts, RecordFacts DEF TableOK
<1>1. host' \in [Offsets -> DynHost]
  BY DEF Touch
<1>2. \A o \in Offsets : host'[o].v6 = host[o].v6 /\ host'[o].dormant = host[o].dormant
  BY DEF Touch
<1> QED
  BY <1>1, <1>2, SMTT(30) DEF Consistent

LEMMA DemoteTable ==
  ASSUME TableOK, Consistent, MaintainDemote
  PROVE  TableOK' /\ Consistent'
<1> USE ConstantFacts, RecordFacts DEF TableOK
<1>1. /\ mapped' = [h \in Hosts |-> IF h \in Idle THEN Nil ELSE mapped[h]]
      /\ dormant' = [h \in Hosts |-> IF h \in Idle THEN mapped[h] ELSE dormant[h]]
      /\ host' = [o \in Offsets |-> IF \E h \in Idle : mapped[h] = o
                                      THEN [host[o] EXCEPT !.dormant = TRUE] ELSE host[o]]
      /\ UNCHANGED <<used, by4, dirty>>
  BY DEF MaintainDemote
<1>2. Idle \subseteq Hosts /\ \A h \in Idle : mapped[h] # Nil
  BY DEF Idle
<1>3. host' \in [Offsets -> DynHost]
  BY <1>1, Zenon
<1>4. \A o \in Offsets :
        /\ host'[o].v6 = host[o].v6
        /\ host'[o].dormant = IF \E h \in Idle : mapped[h] = o THEN TRUE ELSE host[o].dormant
  BY <1>1
<1>5. TableOK'
  BY <1>1, <1>3 DEF Nil
<1>6. \A o \in by4 : (\E h \in Idle : mapped[h] = o) <=> host[o].v6 \in Idle
  BY <1>2 DEF Consistent, Nil
<1>7. Consistent'
  BY <1>1, <1>2, <1>4, <1>6, SMTT(30) DEF Consistent, Nil
<1> QED
  BY <1>5, <1>7

LEMMA ReleaseTable ==
  ASSUME TableOK, Consistent, Locals, worker \in [Workers -> WorkerState], MaintainRelease
  PROVE  TableOK' /\ Consistent' /\ Locals' /\ worker' \in [Workers -> WorkerState]
<1> USE ConstantFacts, RecordFacts DEF TableOK
<1> DEFINE offs == {dormant[h] : h \in Expired}
<1>1. /\ dormant' = [h \in Hosts |-> IF h \in Expired THEN Nil ELSE dormant[h]]
      /\ by4' = by4 \ offs
      /\ used' = used \ offs
      /\ host' = [o \in Offsets |-> IF o \in offs THEN NoLease ELSE host[o]]
      /\ dirty' = (dirty \/ Expired # {})
      /\ mapped' = mapped
  BY DEF MaintainRelease
<1>2. worker' = [w \in Workers |-> IF worker[w].d \in offs
                   THEN [worker[w] EXCEPT !.orphan = TRUE] ELSE worker[w]]
  BY DEF MaintainRelease
<1>3. Expired \subseteq Hosts /\ (\A h \in Expired : dormant[h] # Nil) /\ Nil \notin offs
  BY DEF Expired
<1>4. \A o \in by4 : o \in offs <=> host[o].v6 \in Expired /\ host[o].dormant
  BY DEF Expired, Consistent, Nil
<1>5. dirty' \in BOOLEAN
  BY <1>1
<1> HIDE DEF offs
<1>6. host' \in [Offsets -> DynHost]
  BY <1>1
<1>7. TableOK'
  BY <1>1, <1>5, <1>6 DEF Nil
<1>8. Consistent'
  BY <1>1, <1>3, <1>4, SMTT(30) DEF Consistent, Nil
<1>9. worker' \in [Workers -> WorkerState]
  BY <1>2, WorkerFacts
<1>10. Locals'
  BY <1>1, <1>2 DEF Locals, WorkerState
<1> QED
  BY <1>7, <1>8, <1>9, <1>10

\* IInv is inductive: one step per action.
LEMMA InductiveStep == IInv /\ [Next]_vars => IInv'
<1> SUFFICES ASSUME TypeOK, Consistent, Locals, [Next]_vars PROVE IInv'
  BY DEF IInv
<1> USE ConstantFacts, WorkerFacts
<1>0. TableOK
  BY DEF TypeOK, TableOK
<1>1. ASSUME NEW off \in Offsets, NEW v6 \in Hosts, NEW last \in 1 .. MaxTime,
             LoadLine(off, v6, last)
      PROVE  IInv'
  <2>1. TableOK' /\ Consistent'
    BY <1>0, <1>1, LoadLineTable
  <2> QED
    BY <1>1, <2>1 DEF LoadLine, IInv, TypeOK, TableOK, Locals, config
<1>2. CASE LoadEnd
  BY <1>0, <1>2, LoadEndTable DEF LoadEnd, IInv, TypeOK, TableOK, Locals, config
<1>3. CASE LoadError
  BY <1>3 DEF LoadError, IInv, TypeOK, Consistent, Locals, config, table
<1>4. ASSUME NEW w \in Workers, NEW a \in Hosts, Lookup6(w, a) PROVE IInv'
  <2>1. worker' \in [Workers -> WorkerState]
    BY <1>4 DEF Lookup6, Goto, TypeOK, Nil
  <2>2. Locals'
    <3>1. by4' = by4 /\ by4 \subseteq Offsets /\ (mapped[a] # Nil => mapped[a] \in by4)
      BY <1>4 DEF Lookup6, Consistent, TypeOK, table
    <3>2. /\ \A v \in Workers \ {w} : worker'[v] = worker[v]
          /\ worker'[w].a = a /\ worker'[w].d = mapped[a]
          /\ worker'[w].at = IF mapped[a] # Nil THEN "hit6" ELSE "assign"
      BY <1>4 DEF Lookup6, Goto, TypeOK
    <3> QED
      BY <3>1, <3>2 DEF Locals
  <2> QED
    BY <1>4, <2>1, <2>2 DEF Lookup6, IInv, TypeOK, Consistent, config, table
<1>5. ASSUME NEW w \in Workers, Store6(w) \/ Store4(w) PROVE IInv'
  <2>1. worker[w].d \in Offsets /\ worker[w].since \in Int /\ now \in Int
    BY <1>5 DEF Store6, Store4, Working, Locals, TypeOK
  <2>2. TableOK' /\ Consistent'
    BY <1>0, <1>5, <2>1, TouchTable DEF Store6, Store4
  <2>3. worker' \in [Workers -> WorkerState]
    BY <1>5 DEF Store6, Store4, Done, TypeOK
  <2>4. Locals'
    BY <1>5 DEF Store6, Store4, Done, Locals, NoWork, TypeOK
  <2> QED
    BY <1>5, <2>2, <2>3, <2>4 DEF Store6, Store4, IInv, TypeOK, TableOK, config
<1>6. ASSUME NEW w \in Workers, NEW off \in Offsets, Lookup4(w, off) PROVE IInv'
  <2>1. worker' \in [Workers -> WorkerState]
    BY <1>6 DEF Lookup4, Goto, TypeOK
  <2>2. Locals'
    BY <1>6 DEF Lookup4, Goto, Locals, TypeOK, table, Nil
  <2> QED
    BY <1>6, <2>1, <2>2 DEF Lookup4, IInv, TypeOK, Consistent, config, table
<1>7. ASSUME NEW w \in Workers, Check4(w) PROVE IInv'
  <2>1. worker' \in [Workers -> WorkerState]
    <3>1. worker[w].d \in 0 .. PoolMax /\ now \in 1 .. MaxTime
      BY DEF TypeOK
    <3>2. [at |-> "live4", a |-> NoHost, d |-> worker[w].d, since |-> now, orphan |-> FALSE] \in WorkerState
      BY <3>1, WorkerFacts, Zenon
    <3> QED
      BY <1>7, <3>2, SMTT(30) DEF Check4, Done, Goto, TypeOK
  <2>2. Locals'
    <3>1. by4' = by4 /\ worker[w].at = "hit4"
      BY <1>7 DEF Check4, Working, table
    <3>2. CASE Done(w)
      BY <3>1, <3>2 DEF Done, NoWork, Locals, TypeOK
    <3>3. CASE ~worker[w].orphan /\ Goto(w, "live4", NoHost, worker[w].d)
      BY <3>1, <3>3 DEF Goto, Locals, TypeOK
    <3> QED
      BY <1>7, <3>2, <3>3 DEF Check4
  <2> QED
    BY <1>7, <2>1, <2>2 DEF Check4, IInv, TypeOK, Consistent, config, table
<1>8. ASSUME NEW w \in Workers, Assign(w) PROVE IInv'
  <2>1. PICK t \in worker[w].since .. now, k \in Offsets :
          \/ AssignMapped(worker[w].a, t)
          \/ AssignDormant(worker[w].a, t)
          \/ AssignFree(worker[w].a, t, k)
          \/ AssignOldest(worker[w].a, t, k)
          \/ AssignNone(worker[w].a, k)
    BY <1>8 DEF Assign
  <2>2. worker[w].a \in Hosts /\ t \in Int
    BY <1>8 DEF Assign, Working, Locals, TypeOK
  <2>3. TableOK' /\ Consistent'
    BY <1>0, <2>1, <2>2, AssignType, SMTT(30)
  <2>4. by4 \subseteq by4'
    BY <2>1, Zenon DEF AssignMapped, AssignDormant, AssignFree, AssignOldest, AssignNone, table
  <2>5. worker' \in [Workers -> WorkerState]
    BY <1>8 DEF Assign, Done, TypeOK
  <2>6. Locals'
    BY <1>8, <2>4 DEF Assign, Done, NoWork, Locals, TypeOK
  <2> QED
    BY <1>8, <2>3, <2>5, <2>6 DEF Assign, IInv, TypeOK, TableOK, config
<1>9. CASE MaintainNow \/ MaintainMax \/ SaveState
  <2>1. ticker' \in TickerState
    <3>1. CASE MaintainNow
      BY <3>1 DEF MaintainNow, TypeOK, TickerState
    <3>2. CASE MaintainMax
      BY <3>2, Zenon DEF MaintainMax, TypeOK, TickerState
    <3>3. CASE SaveState
      BY <3>3 DEF SaveState, Resting, TickerState
    <3> QED
      BY <1>9, <3>1, <3>2, <3>3
  <2>2. dirty' \in BOOLEAN
    BY <1>9, Zenon DEF MaintainNow, MaintainMax, SaveState, TypeOK
  <2>3. UNCHANGED <<phase, now, config, table, worker>>
    BY <1>9, Zenon DEF MaintainNow, MaintainMax, SaveState
  <2> QED
    BY <2>1, <2>2, <2>3, SMTT(30) DEF IInv, TypeOK, Consistent, Locals, config, table
<1>10. CASE MaintainDemote
  <2>1. ticker' \in TickerState
    BY <1>10, Zenon DEF MaintainDemote, TypeOK, TickerState
  <2> QED
    BY <1>0, <1>10, <2>1, DemoteTable DEF MaintainDemote, IInv, TypeOK, TableOK, Locals, config
<1>11. CASE MaintainRelease
  <2>1. ticker' \in TickerState
    BY <1>11, SMTT(30) DEF MaintainRelease, TypeOK, TickerState
  <2> QED
    BY <1>0, <1>11, <2>1, ReleaseTable DEF MaintainRelease, IInv, TypeOK, TableOK, config
<1>12. ASSUME NEW l \in LeaseChoices, SetLeases(l) PROVE IInv'
  BY <1>12 DEF SetLeases, IInv, TypeOK, Consistent, Locals, table
<1>13. ASSUME NEW S \in ReservedSets, Build(S) PROVE IInv'
  BY <1>13 DEF Build, IInv, TypeOK, Consistent, Locals, table
<1>14. CASE Tick
  BY <1>14 DEF Tick, IInv, TypeOK, Consistent, Locals, config, table
<1>15. CASE UNCHANGED vars
  BY <1>15 DEF vars, IInv, TypeOK, Consistent, Locals, config, table
<1> QED
  BY <1>1, <1>2, <1>3, <1>4, <1>5, <1>6, <1>7, <1>8, <1>9, <1>10, <1>11, <1>12, <1>13,
     <1>14, <1>15 DEF Next, Load, Packet, Maintain, Reload

\* IInv holds in every reachable state.
LEMMA Invariance == Spec => []IInv
BY InitIInv, InductiveStep, PTL DEF Spec

\* Every variable keeps its type, for pools of any size.
THEOREM TypeCorrect == Spec => []TypeOK
BY Invariance, PTL DEF IInv

\* The bitmap, the address index, the host indexes and the dynHosts agree in
\* every reachable state, whatever the packets, maintenance passes and reloads.
THEOREM IndexesAgree == Spec => []Consistent
BY Invariance, PTL DEF IInv

=============================================================================
