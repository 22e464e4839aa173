-------------------------- MODULE StateFileProofs ---------------------------
(* Proofs about StateFile: what is written is up to date for any savers;   *)
(* with one saver at a time Save is atomic, and the disk goes back only    *)
(* after a Load that took in part of the file.                             *)
EXTENDS StateFile, TLAPS

LEMMA SaverFacts ==
  /\ Quiet \in SaverState /\ Quiet.at = "idle"
  /\ \A r \in SaverState : /\ r.at \in Places /\ r.ino \in Inodes \cup {None}
                           /\ r.snap \in Versions /\ r.over \in BOOLEAN
  /\ \A r \in SaverState, at \in Places :
       /\ [r EXCEPT !.at = at] \in SaverState
       /\ [r EXCEPT !.at = at].at = at /\ [r EXCEPT !.at = at].ino = r.ino
       /\ [r EXCEPT !.at = at].snap = r.snap /\ [r EXCEPT !.at = at].over = r.over
  /\ \A at \in Places, i \in Inodes, v \in Versions, b \in BOOLEAN :
       [at |-> at, ino |-> i, snap |-> v, over |-> b] \in SaverState
BY StateFileAssumption DEF SaverState, Places, Quiet, Versions, Inodes, None

LEMMA DataFacts ==
  /\ None \notin Inodes
  /\ Versions \subseteq Nat /\ 0 \in Versions
  /\ Blank \notin Versions /\ Torn \notin Versions /\ Blank # Torn
  /\ "run" \in Savers
BY StateFileAssumption DEF None, Inodes, Versions

\* There is always a file to open: path and the savers hold three at most.
LEMMA OpenedFacts ==
  ASSUME TypeOK
  PROVE  /\ Opened \in Inodes /\ Opened # path
         /\ tmp # None => Opened = tmp
<1>1. CASE tmp # None
  BY <1>1 DEF TypeOK, Opened
<1>2. CASE tmp = None
  <2> DEFINE Fresh(i) == i # path /\ \A s \in Savers : saver[s].ino # i
  <2>1. \A s \in Savers : s = "run" \/ s = "apply"
    BY StateFileAssumption
  <2>2. \E i \in Inodes : i # path /\ i # saver["run"].ino /\ i # saver["apply"].ino
    <3>1. 1 \in Inodes /\ 2 \in Inodes /\ 3 \in Inodes /\ 4 \in Inodes
      BY DEF Inodes
    <3> QED
      BY <3>1
  <2>3. \E i \in Inodes : Fresh(i)
    BY <2>1, <2>2
  <2>4. Opened = CHOOSE i \in Inodes : Fresh(i)
    BY <1>2 DEF Opened
  <2> HIDE DEF Fresh
  <2>5. Opened \in Inodes /\ Fresh(Opened)
    BY <2>3, <2>4
  <2> QED
    BY <1>2, <2>5 DEF Fresh
<1> QED
  BY <1>1, <1>2

-----------------------------------------------------------------------------
(* Any savers.                                                             *)

Present == TypeOK /\ WritesPresent

\* Present is inductive: one step per action.
LEMMA PresentStep == Present /\ [Next]_vars => Present'
<1> SUFFICES ASSUME TypeOK, WritesPresent, [Next]_vars PROVE Present'
  BY DEF Present
<1> USE SaverFacts, DataFacts
<1>1. ASSUME NEW s \in Savers, NEW at \in Places \ {"writing"}, Goes(s, at), version' = version
      PROVE  saver' \in [Savers -> SaverState] /\ WritesPresent'
  BY <1>1 DEF Goes, TypeOK, WritesPresent
<1>2. ASSUME NEW s \in Savers, saver' = [saver EXCEPT ![s] = Quiet], version' = version
      PROVE  saver' \in [Savers -> SaverState] /\ WritesPresent'
  BY <1>2 DEF TypeOK, WritesPresent
<1>3. CASE Change
  <2>1. version' \in Versions
    BY <1>3, StateFileAssumption DEF Change, TypeOK, Versions
  <2> QED
    BY <1>3, <2>1 DEF Change, Unlocked, Present, TypeOK, WritesPresent
<1>4. CASE SaveTick \/ SaveStop
  <2>1. saver' \in [Savers -> SaverState] /\ WritesPresent'
    BY <1>1, <1>4 DEF SaveTick, SaveStop, Places
  <2> QED
    BY <1>4, <2>1 DEF SaveTick, SaveStop, Present, TypeOK
<1>5. ASSUME NEW s \in Savers, SaveApply(s) \/ Close(s) PROVE Present'
  <2>1. saver' \in [Savers -> SaverState] /\ WritesPresent'
    BY <1>1, <1>5 DEF SaveApply, Close, Places
  <2> QED
    BY <1>5, <2>1 DEF SaveApply, Close, Present, TypeOK
<1>6. ASSUME NEW s \in Savers, Open(s) PROVE Present'
  <2>1. saver' \in [Savers -> SaverState] /\ WritesPresent'
    <3>1. CASE saver' = [saver EXCEPT ![s] = Quiet]
      BY <1>2, <1>6, <3>1 DEF Open
    <3>2. CASE saver' = [saver EXCEPT ![s] = [at |-> "write", ino |-> Opened,
                                              snap |-> 0, over |-> FALSE]]
      <4>1. [at |-> "write", ino |-> Opened, snap |-> 0, over |-> FALSE] \in SaverState
        BY OpenedFacts DEF Places
      <4> QED
        BY <1>6, <3>2, <4>1 DEF Open, TypeOK, WritesPresent
    <3> QED
      BY <1>6, <3>1, <3>2 DEF Open
  <2> QED
    BY <1>6, <2>1, OpenedFacts DEF Open, Present, TypeOK
<1>7. ASSUME NEW s \in Savers, WriteBegin(s) PROVE Present'
  <2> DEFINE i == saver[s].ino
             b == data[i] # Blank
  <2>1. saver' = [saver EXCEPT ![s] = [at |-> "writing", ino |-> i, snap |-> version, over |-> b]]
    BY <1>7 DEF WriteBegin
  <2>2. [at |-> "writing", ino |-> i, snap |-> version, over |-> b] \in SaverState
    BY DEF TypeOK, SaverState, Places
  <2>3. saver' \in [Savers -> SaverState] /\ WritesPresent'
    BY <1>7, <2>1, <2>2 DEF WriteBegin, TypeOK, WritesPresent, Unlocked
  <2> QED
    BY <1>7, <2>3 DEF WriteBegin, Present, TypeOK
<1>8. ASSUME NEW s \in Savers, WriteEnd(s) PROVE Present'
  <2>1. saver' \in [Savers -> SaverState] /\ WritesPresent'
    BY <1>1, <1>8 DEF WriteEnd, Places
  <2>2. Written(s) \subseteq Versions \cup {Blank, Torn}
    BY DEF Written, TypeOK
  <2>3. data' \in [Inodes -> Versions \cup {Blank, Torn}]
    BY <1>8, <2>2 DEF WriteEnd, TypeOK
  <2> QED
    BY <1>8, <2>1, <2>3 DEF WriteEnd, Present, TypeOK
<1>9. ASSUME NEW s \in Savers, Rename(s) \/ Remove(s) PROVE Present'
  <2>1. saver' \in [Savers -> SaverState] /\ WritesPresent'
    BY <1>1, <1>2, <1>9 DEF Rename, Remove, Places
  <2>2. loaded' \in BOOLEAN
    BY <1>9 DEF Rename, Remove, TypeOK
  <2> QED
    BY <1>9, <2>1, <2>2 DEF Rename, Remove, Present, TypeOK
<1>10. CASE Restart
  <2>0. Parts \subseteq Versions
    <3>1. CASE path = None \/ data[path] = Torn
      BY <3>1 DEF Parts
    <3>2. CASE path # None /\ data[path] # Torn
      <4>1. Parts = 0 .. OnDisk /\ OnDisk \in Versions
        BY <3>2 DEF Parts, OnDisk
      <4> QED
        BY <4>1, StateFileAssumption DEF Versions
    <3> QED
      BY <3>1, <3>2
  <2>1. version' \in Versions /\ loaded' \in BOOLEAN
    BY <1>10, <2>0 DEF Restart, OnDisk
  <2> QED
    BY <1>10, <2>1 DEF Restart, Present, TypeOK, WritesPresent
<1>11. CASE UNCHANGED vars
  BY <1>11 DEF vars, Present, TypeOK, WritesPresent
<1> QED
  BY <1>3, <1>4, <1>5, <1>6, <1>7, <1>8, <1>9, <1>10, <1>11 DEF Next, Save

LEMMA PresentInvariance == Spec => []Present
<1>1. Init => Present
  <2> SUFFICES ASSUME Init PROVE Present
    OBVIOUS
  <2>1. saver \in [Savers -> SaverState] /\ WritesPresent
    BY SaverFacts DEF Init, WritesPresent
  <2> QED
    BY <2>1, DataFacts DEF Init, Present, TypeOK
<1> QED
  BY <1>1, PresentStep, PTL DEF Spec

\* However many goroutines save, and whatever failed before, the assignments
\* being written are the present ones until the last block is out.
THEOREM WritesArePresent == Spec => [](TypeOK /\ WritesPresent)
<1>1. Present => TypeOK /\ WritesPresent
  BY DEF Present
<1> QED
  BY <1>1, PresentInvariance, PTL

-----------------------------------------------------------------------------
(* One saver: the goroutine of Run, and no Apply meanwhile.                *)

\* What holds of the file at path, of the file being written, and between
\* them, at each place in Save.
Whole ==
  LET s == saver["run"] IN
  /\ path # None => data[path] \in Versions
  /\ loaded => OnDisk <= version
  /\ s.at \in {"write", "writing", "close", "rename"} => s.ino = tmp /\ tmp # None
  /\ s.at = "write" => data[tmp] = Blank
  /\ s.at = "writing" => data[tmp] = Torn /\ ~s.over
  /\ s.at \in {"close", "rename"} =>
       /\ data[tmp] \in Versions /\ data[tmp] <= version
       /\ loaded => OnDisk <= data[tmp]
       /\ ~dirty => data[tmp] = version
  /\ ~RenameFails /\ loaded /\ ~dirty /\ s.at \notin {"close", "rename"} => OnDisk = version

\* A step preserves Whole, and takes the disk back only if Load took in a part.
LEMMA WholeStep ==
  ASSUME Savers = {"run"}, Present, Present', Whole, [Next]_vars
  PROVE  Whole' /\ (loaded => OnDisk' >= OnDisk)
<1> USE SaverFacts, DataFacts
<1> USE DEF Present
<1> DEFINE s == saver["run"]
<1>1. s \in SaverState /\ OnDisk \in Versions /\ Savers = {"run"}
  BY DEF TypeOK, OnDisk
<1>0. ASSUME NEW at \in Places, Goes("run", at)
       PROVE  s'.at = at /\ s'.ino = s.ino
  BY <1>1, <1>0 DEF Goes, TypeOK
<1>2. CASE Change
  <2>1. OnDisk' = OnDisk /\ version' = version + 1 /\ s' = s /\ dirty'
    BY <1>2 DEF Change, OnDisk
  <2>2. s.at # "writing"
    BY <1>2 DEF Change, Unlocked
  <2> QED
    BY <1>1, <1>2, <2>1, <2>2 DEF Change, Whole, TypeOK
<1>3. CASE SaveTick \/ SaveStop
  <2>1. OnDisk' = OnDisk
    BY <1>3 DEF SaveTick, SaveStop, OnDisk
  <2>2. s'.at = "open" /\ s.at = "idle"
    BY <1>1, <1>3, <1>0 DEF SaveTick, SaveStop, Places
  <2> QED
    BY <1>1, <1>3, <2>1, <2>2 DEF SaveTick, SaveStop, Whole
<1>4. CASE Open("run")
  <2>1. OnDisk' = OnDisk
    BY <1>4, OpenedFacts DEF Open, OnDisk, TypeOK
  <2>2. CASE tmp' = Opened /\ data' = [data EXCEPT ![Opened] = Blank] /\
             saver' = [saver EXCEPT !["run"] = [at |-> "write", ino |-> Opened,
                                                snap |-> 0, over |-> FALSE]]
    <3>1. s'.at = "write" /\ s'.ino = tmp' /\ tmp' # None /\ data'[tmp'] = Blank
      BY <2>2, OpenedFacts DEF TypeOK
    <3>2. path' # None => data'[path'] = data[path]
      BY <1>4, <2>2, OpenedFacts DEF Open, TypeOK
    <3> QED
      BY <1>1, <1>4, <2>1, <3>1, <3>2 DEF Open, Whole
  <2>3. CASE saver' = [saver EXCEPT !["run"] = Quiet] /\ UNCHANGED <<tmp, data>>
    <3>1. s'.at = "idle" /\ s.at = "open"
      BY <1>4, <2>3 DEF TypeOK, Open
    <3> QED
      BY <1>1, <1>4, <2>1, <2>3, <3>1 DEF Open, Whole
  <2> QED
    BY <1>4, <2>2, <2>3 DEF Open
<1>5. CASE WriteBegin("run")
  <2>1. s.ino = tmp /\ tmp \in Inodes /\ tmp # path /\ data[tmp] = Blank
    BY <1>5 DEF WriteBegin, Whole, TypeOK
  <2>2. data' = [data EXCEPT ![tmp] = Torn] /\ tmp' = tmp /\ path' = path
    BY <1>5, <2>1 DEF WriteBegin
  <2>3. s' = [at |-> "writing", ino |-> tmp, snap |-> version, over |-> FALSE]
    BY <1>5, <2>1 DEF WriteBegin, TypeOK
  <2>4. OnDisk' = OnDisk /\ (path # None => data'[path] = data[path]) /\ data'[tmp] = Torn
    BY <2>1, <2>2 DEF OnDisk, TypeOK
  <2>5. s.at = "write" /\ version' = version /\ dirty' = dirty /\ loaded' = loaded
    BY <1>5 DEF WriteBegin
  <2>6. s'.at = "writing" /\ s'.ino = tmp /\ ~s'.over
    BY <2>3
  <2> QED
    BY <1>1, <2>1, <2>2, <2>4, <2>5, <2>6 DEF Whole
<1>6. CASE WriteEnd("run")
  <2>1. s.ino = tmp /\ tmp \in Inodes /\ tmp # path /\ data[tmp] = Torn /\ ~s.over
        /\ s.snap = version /\ s.at = "writing"
    BY <1>1, <1>6 DEF WriteEnd, Whole, TypeOK, WritesPresent
  <2>2. Written("run") = {version}
    BY <2>1 DEF Written
  <2>3. version' = version /\ path' = path /\ tmp' = tmp /\ loaded' = loaded
    BY <1>6 DEF WriteEnd
  <2>4. CASE data' = [data EXCEPT ![tmp] = version] /\ ~dirty' /\ Goes("run", "close")
    <3>1. OnDisk' = OnDisk /\ (path # None => data'[path] = data[path]) /\ data'[tmp] = version
      BY <2>1, <2>3, <2>4 DEF OnDisk, TypeOK
    <3>2. s'.at = "close" /\ s'.ino = tmp
      BY <1>1, <2>1, <2>4 DEF Goes, TypeOK, Places
    <3>3. version \in Versions /\ version <= version
      BY DEF TypeOK
    <3> QED
      BY <1>1, <2>1, <2>3, <3>1, <3>2, <3>3 DEF Whole
  <2>5. CASE Goes("run", "remove") /\ UNCHANGED <<data, dirty>>
    <3>1. OnDisk' = OnDisk /\ s'.at = "remove"
      BY <1>1, <2>3, <2>5 DEF OnDisk, Goes, TypeOK, Places
    <3> QED
      BY <1>1, <2>1, <2>3, <2>5, <3>1 DEF Whole
  <2> QED
    BY <1>6, <2>1, <2>2, <2>4, <2>5 DEF WriteEnd
<1>7. CASE Close("run")
  <2>1. OnDisk' = OnDisk
    BY <1>7 DEF Close, OnDisk
  <2>2. s'.ino = s.ino /\ s.at = "close"
        /\ (s'.at = "rename" \/ (RenameFails /\ s'.at = "remove"))
    BY <1>1, <1>7, <1>0 DEF Close, Places
  <2> QED
    BY <1>1, <1>7, <2>1, <2>2 DEF Close, Whole
<1>8. CASE Rename("run")
  <2>1. s.at = "rename" /\ tmp # None /\ tmp \in Inodes /\ data[tmp] \in Versions
        /\ (loaded => OnDisk <= data[tmp])
        /\ data[tmp] <= version /\ (~dirty => data[tmp] = version)
    BY <1>8 DEF Rename, Whole, TypeOK
  <2>2. version' = version /\ dirty' = dirty /\ data' = data
    BY <1>8 DEF Rename
  <2>3. CASE path' = tmp /\ saver' = [saver EXCEPT !["run"] = Quiet]
    <3>1. OnDisk' = data[tmp] /\ s'.at = "idle"
      BY <2>1, <2>2, <2>3 DEF OnDisk, TypeOK
    <3> QED
      BY <1>1, <2>1, <2>2, <2>3, <3>1 DEF Whole, TypeOK
  <2>4. CASE RenameFails /\ Goes("run", "remove") /\ UNCHANGED <<path, tmp, loaded>>
    <3>1. OnDisk' = OnDisk /\ s'.at = "remove"
      BY <1>1, <2>2, <2>4 DEF OnDisk, Goes, TypeOK, Places
    <3> QED
      BY <1>1, <2>2, <2>4, <3>1 DEF Whole
  <2> QED
    BY <1>8, <2>1, <2>3, <2>4 DEF Rename
<1>9. CASE Remove("run")
  <2>1. OnDisk' = OnDisk /\ s.at = "remove" /\ s'.at = "idle"
    BY <1>9 DEF Remove, OnDisk, TypeOK
  <2> QED
    BY <1>1, <1>9, <2>1 DEF Remove, Whole
<1>10. CASE Restart
  <2>1. OnDisk' = OnDisk /\ (loaded' => version' = OnDisk) /\ s'.at = "idle"
    BY <1>10 DEF Restart, OnDisk
  <2> QED
    BY <1>1, <1>10, <2>1 DEF Restart, Whole
<1>11. CASE UNCHANGED vars
  <2>1. OnDisk' = OnDisk
    BY <1>11 DEF vars, OnDisk
  <2> QED
    BY <1>1, <1>11, <2>1 DEF vars, Whole
<1>12. ~SaveApply("run")
  BY DEF SaveApply
<1> QED
  BY <1>1, <1>2, <1>3, <1>4, <1>5, <1>6, <1>7, <1>8, <1>9, <1>10, <1>11, <1>12 DEF Next, Save

LEMMA WholeInvariance ==
  ASSUME Savers = {"run"} PROVE Spec => [](Whole /\ Present)
<1>1. Init => Whole
  <2> SUFFICES ASSUME Init PROVE Whole
    OBVIOUS
  <2>1. saver["run"].at = "idle" /\ OnDisk = 0 /\ version = 0 /\ path = None
    BY SaverFacts, DataFacts DEF Init, OnDisk
  <2> QED
    BY <2>1 DEF Whole
<1>2. Whole /\ Present /\ Present' /\ [Next]_vars => Whole'
  BY WholeStep
<1> QED
  BY <1>1, <1>2, PresentInvariance, PTL DEF Spec

\* Save is atomic as long as no two run at once: a crash anywhere in it leaves
\* the whole of some version at path, even if Close or Rename fails.
THEOREM OneSaverIsAtomic ==
  ASSUME Savers = {"run"} PROVE Spec => []WholeAtPath
<1>1. Whole => WholeAtPath
  BY DEF Whole, WholeAtPath
<1> QED
  BY <1>1, WholeInvariance, PTL

\* Through saves, failures, crashes and restarts, the file never goes back to
\* an older version while the pool stems from all of the file it was loaded
\* from; after a Load of a part, only the first Save can take it back.
THEOREM DiskGoesForward ==
  ASSUME Savers = {"run"} PROVE Spec => DiskNeverOlder
<1>1. Whole /\ Present /\ Present' /\ [Next]_vars => [loaded => OnDisk' >= OnDisk]_vars
  BY WholeStep
<1> QED
  BY <1>1, WholeInvariance, PTL DEF Spec, DiskNeverOlder

\* If moreover Close and Rename never fail, a pool that is not dirty is what the
\* file holds, unless Load took in a part of it and no Save has succeeded since.
THEOREM CleanIsSaved ==
  ASSUME Savers = {"run"}, ~RenameFails PROVE Spec => []CleanMeansSaved
<1>1. Whole => CleanMeansSaved
  BY DEF Whole, CleanMeansSaved
<1> QED
  BY <1>1, WholeInvariance, PTL

=============================================================================
