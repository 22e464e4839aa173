-------------------------- MODULE LifecycleProofs ---------------------------
(* Proofs about Lifecycle: an orderly exit, for every error limit and      *)
(* whether or not the link may vanish.                                     *)
EXTENDS Lifecycle, TLAPS

\* Who waits for whom.  A stopped engine has closed the device; a result in
\* engineErr, or Run past its drain, means a stopped engine; a result in
\* daemonErr, or main returned, means that Run has returned.
Order ==
  /\ run.at = "start" => engine.at = "off"
  /\ engine.at = "off" => run.at \in {"start", "returned"}
  /\ engine.at = "returned" => dev = "closed"
  /\ engineErr # Empty => engine.at = "returned"
  /\ run.at = "save" => engine.at = "returned"
  /\ run.at = "returned" /\ engine.at # "off" => engine.at = "returned" /\ save # "due"
  /\ daemonErr # Empty => run.at = "returned"
  /\ main = "exited" => run.at = "returned"

OInv == TypeOK /\ Order

LEMMA RunFacts ==
  /\ \A at \in {"start", "started", "loop", "drain", "save", "returned"}, err \in Results :
       [at |-> at, err |-> err] \in RunState
  /\ \A r \in RunState : /\ r.err \in Results
                         /\ [r EXCEPT !.at = "returned"] \in RunState
                         /\ [r EXCEPT !.at = "returned"].at = "returned"
                         /\ [r EXCEPT !.at = "returned"].err = r.err
BY DEF RunState

LEMMA ChannelFacts ==
  /\ Empty \in Channel /\ Empty \notin Results /\ Results \subseteq Channel
  /\ \A c \in Channel : c # Empty => c \in Results
  /\ CtxErr \in Results /\ "nil" \in Results /\ "canceled" \in Results /\ "failed" \in Results
BY DEF Channel, Results, Empty, CtxErr

LEMMA OrderInit == Init => OInv
<1> SUFFICES ASSUME Init PROVE TypeOK /\ Order
  BY DEF OInv
<1>1. TypeOK
  <2>1. engine \in EngineState /\ run \in RunState
    BY LifecycleAssumption, RunFacts, ChannelFacts DEF Init, EngineState
  <2> QED
    BY <2>1, ChannelFacts DEF Init, TypeOK, MainState
<1>2. Order
  BY DEF Init, Order
<1> QED
  BY <1>1, <1>2

\* RunReturn keeps the types, and nothing but Run's own position changes
\* unless main was parked.
LEMMA ReturnOK ==
  ASSUME TypeOK, NEW v \in Results, RunReturn(v)
  PROVE  /\ run' \in RunState /\ run'.at = "returned" /\ run'.err = run.err
         /\ ctx' \in BOOLEAN /\ daemonErr' \in Channel
         /\ main' \in MainState /\ exit' \in {0, 1}
<1>1. run' \in RunState /\ run'.at = "returned" /\ run'.err = run.err
  BY RunFacts DEF TypeOK, RunReturn
<1>2. ctx' \in BOOLEAN
  BY DEF TypeOK, RunReturn
<1>3. daemonErr' \in Channel /\ main' \in MainState /\ exit' \in {0, 1}
  BY ChannelFacts DEF TypeOK, RunReturn, MainState
<1> QED
  BY <1>1, <1>2, <1>3

\* OInv is inductive: one step per action.
LEMMA OrderStep == OInv /\ [Next]_vars => OInv'
<1> SUFFICES ASSUME TypeOK, Order, [Next]_vars PROVE OInv'
  BY DEF OInv
<1> USE LifecycleAssumption, RunFacts, ChannelFacts
<1>1. ASSUME NEW v \in Results, engine.at \in {"read", "write"}, EngineReturn(v) PROVE OInv'
  <2>1. engine' \in EngineState /\ engine'.at = "returned"
    BY <1>1 DEF EngineReturn, EngineState, TypeOK
  <2>2. TypeOK'
    BY <1>1, <2>1 DEF EngineReturn, TypeOK
  <2>3. Order'
    BY <1>1, <2>1 DEF EngineReturn, Order
  <2> QED
    BY <2>2, <2>3 DEF OInv
<1>2. ASSUME NEW at \in {"read", "write"}, NEW n \in 0 .. ReadErrorLimit,
             engine.at \in {"read", "write"}, EngineGoes(at, n)
      PROVE  OInv'
  <2>1. engine' \in EngineState /\ engine'.at \in {"read", "write"}
    BY <1>2 DEF EngineGoes, EngineState
  <2>2. TypeOK'
    BY <1>2, <2>1 DEF EngineGoes, TypeOK
  <2>3. Order'
    BY <1>2, <2>1 DEF EngineGoes, Order
  <2> QED
    BY <2>2, <2>3 DEF OInv
<1>3. CASE EngineRead \/ EngineWrite
  BY <1>2, <1>3 DEF EngineRead, EngineWrite
<1>4. CASE EngineReadError
  <2>1. CASE EngineReturn(CtxErr) \/ EngineReturn("failed")
    BY <1>1, <1>4, <2>1 DEF EngineReadError
  <2>2. CASE engine.errors < ReadErrorLimit /\ EngineGoes("read", engine.errors + 1)
    <3>1. engine.errors + 1 \in 0 .. ReadErrorLimit
      BY <2>2 DEF TypeOK, EngineState
    <3> QED
      BY <1>2, <1>4, <2>2, <3>1 DEF EngineReadError
  <2> QED
    BY <1>4, <2>1, <2>2 DEF EngineReadError
<1>5. CASE EngineClosed
  BY <1>1, <1>5 DEF EngineClosed
<1>6. CASE CloseDevice \/ LinkVanishes
  BY <1>6 DEF CloseDevice, LinkVanishes, OInv, TypeOK, Order
<1>7. CASE RunStart
  <2>1. CASE RunReturn("failed") /\ dev' \in {"none", "closed"} /\ UNCHANGED <<engine, closer>>
    <3>1. TypeOK'
      BY <1>7, <2>1, ReturnOK DEF RunStart, TypeOK
    <3>2. Order'
      BY <1>7, <2>1, ReturnOK DEF RunStart, Order
    <3> QED
      BY <3>1, <3>2 DEF OInv
  <2>2. CASE /\ run' = [run EXCEPT !.at = "started"]
             /\ dev' = "open"
             /\ engine' = [at |-> "read", errors |-> 0]
             /\ closer' = "waiting"
             /\ UNCHANGED <<ctx, daemonErr, main, exit>>
    <3>1. run' \in RunState /\ run'.at = "started"
      BY <2>2 DEF TypeOK, RunState
    <3>2. engine' \in EngineState /\ engine'.at = "read"
      BY <2>2 DEF EngineState
    <3>3. TypeOK'
      BY <1>7, <2>2, <3>1, <3>2 DEF RunStart, TypeOK
    <3>4. Order'
      BY <1>7, <2>2, <3>1, <3>2 DEF RunStart, Order
    <3> QED
      BY <3>3, <3>4 DEF OInv
  <2> QED
    BY <1>7, <2>1, <2>2 DEF RunStart
<1>8. ASSUME NEW at \in {"loop", "drain", "save"}, NEW err \in Results, NEW b \in BOOLEAN,
             RunGoes(at, err, b), engineErr' \in {engineErr, Empty},
             engine.at # "off", run.at # "returned", at = "save" => engine.at = "returned"
      PROVE  OInv'
  <2>1. run' \in RunState /\ run'.at = at
    BY <1>8 DEF RunGoes
  <2>2. TypeOK'
    BY <1>8, <2>1 DEF RunGoes, TypeOK
  <2>3. Order'
    BY <1>8, <2>1 DEF RunGoes, Order
  <2> QED
    BY <2>2, <2>3 DEF OInv
<1>9. CASE RunReady \/ RunCancelled
  BY <1>8, <1>9 DEF RunReady, RunCancelled, Order
<1>10. CASE RunEngineEnded \/ RunDrain
  <2>1. engineErr \in Results /\ engine.at = "returned" /\ ready \in BOOLEAN
    BY <1>10 DEF RunEngineEnded, RunDrain, TypeOK, Order
  <2> QED
    BY <1>8, <1>10, <2>1 DEF RunEngineEnded, RunDrain
<1>11. CASE RunSave
  <2>1. PICK v \in Results : RunReturn(v)
    BY <1>11 DEF RunSave, TypeOK
  <2>2. TypeOK'
    BY <1>11, <2>1, ReturnOK DEF RunSave, Saves, TypeOK
  <2>3. Order'
    BY <1>11, <2>1, ReturnOK DEF RunSave, Saves, Order
  <2> QED
    BY <2>2, <2>3 DEF OInv
<1>12. ASSUME NEW v \in Results, AdminReturn(v) PROVE OInv'
  <2>1. ctx' \in BOOLEAN
    BY <1>12 DEF AdminReturn, TypeOK
  <2>2. TypeOK'
    BY <1>12, <2>1 DEF AdminReturn, TypeOK, MainState
  <2>3. Order'
    BY <1>12 DEF AdminReturn, Order
  <2> QED
    BY <2>2, <2>3 DEF OInv
<1>13. CASE AdminFails \/ AdminShutdown
  BY <1>12, <1>13 DEF AdminFails, AdminShutdown
<1>14. CASE Signal
  BY <1>14 DEF Signal, OInv, TypeOK, MainState, Order
<1>15. CASE MainSelect
  <2>1. ctx' \in BOOLEAN
    BY <1>15 DEF MainSelect, TypeOK
  <2>2. TypeOK'
    BY <1>15, <2>1 DEF MainSelect, TypeOK, MainState
  <2>3. Order'
    BY <1>15 DEF MainSelect, Order
  <2> QED
    BY <2>2, <2>3 DEF OInv
<1>16. CASE MainJoin
  BY <1>16 DEF MainJoin, OInv, TypeOK, MainState, Order
<1>17. CASE Exited \/ UNCHANGED vars
  BY <1>17 DEF Exited, vars, OInv, TypeOK, Order
<1> QED
  BY <1>3, <1>4, <1>5, <1>6, <1>7, <1>9, <1>10, <1>11, <1>13, <1>14, <1>15, <1>16, <1>17
     DEF Next, Engine, Run, Main, Environment

LEMMA OrderInvariance == Spec => []OInv
BY OrderInit, OrderStep, PTL DEF Spec

\* Every variable keeps its type.
THEOREM LifecycleTypes == Spec => []TypeOK
<1>1. OInv => TypeOK
  BY DEF OInv
<1> QED
  BY <1>1, OrderInvariance, PTL

\* The process never exits before Run has returned, the engine stopped, the
\* device been closed and a save of the pool been tried.
THEOREM OrderlyExit == Spec => []NothingLeftBehind
<1>1. OInv => NothingLeftBehind
  BY DEF OInv, Order, NothingLeftBehind
<1> QED
  BY <1>1, OrderInvariance, PTL

-----------------------------------------------------------------------------

\* While the link stays, an engine that runs on a closed device has been
\* cancelled, so it never reports nil, and Run returns nil only for "canceled".
Honest ==
  /\ dev # "gone"
  /\ engine.at \in {"read", "write"} /\ dev = "closed" => ctx
  /\ engineErr # "nil"
  /\ run.at = "save" => run.err # "nil"
  /\ daemonErr = "nil" => engine.at = "returned" /\ run.err = "canceled"
  /\ ExitZeroMeansServed

HInv == OInv /\ Honest

LEMMA HonestStep ==
  ASSUME ~LinkMayVanish, OInv, Honest, [Next]_vars
  PROVE  Honest'
<1> USE DEF OInv, TypeOK, RunState, EngineState, Channel, Order, Honest,
            ExitZeroMeansServed, Empty, Results
<1>1. CASE EngineRead \/ EngineWrite
  BY <1>1 DEF EngineRead, EngineWrite, EngineGoes
<1>2. CASE EngineReadError
  BY <1>2 DEF EngineReadError, EngineReturn, EngineGoes, CtxErr
<1>3. CASE EngineClosed
  BY <1>3 DEF EngineClosed, EngineReturn, CtxErr
<1>4. CASE CloseDevice \/ LinkVanishes
  BY <1>4 DEF CloseDevice, LinkVanishes
<1>5. CASE RunStart
  BY <1>5 DEF RunStart, RunReturn
<1>6. CASE RunReady \/ RunCancelled
  BY <1>6 DEF RunReady, RunCancelled, RunGoes
<1>7. CASE RunEngineEnded \/ RunDrain
  BY <1>7 DEF RunEngineEnded, RunDrain, RunGoes
<1>8. CASE RunSave
  BY <1>8 DEF RunSave, RunReturn
<1>9. CASE AdminFails \/ AdminShutdown
  BY <1>9 DEF AdminFails, AdminShutdown, AdminReturn
<1>10. CASE Signal
  BY <1>10 DEF Signal
<1>11. CASE MainSelect
  BY <1>11 DEF MainSelect
<1>12. CASE MainJoin
  BY <1>12 DEF MainJoin
<1>13. CASE Exited \/ UNCHANGED vars
  BY <1>13 DEF Exited, vars
<1> QED
  BY <1>1, <1>2, <1>3, <1>4, <1>5, <1>6, <1>7, <1>8, <1>9, <1>10, <1>11, <1>12, <1>13
     DEF Next, Engine, Run, Main, Environment

\* While nobody deletes the link, exit status 0 means that the translator was
\* started and ended by a cancelled context.
THEOREM ZeroIsEarned == ASSUME ~LinkMayVanish PROVE Spec => []ExitZeroMeansServed
<1>1. Init => HInv
  BY OrderInit DEF Init, HInv, Honest, ExitZeroMeansServed, Empty
<1>2. HInv /\ [Next]_vars => HInv'
  BY OrderStep, HonestStep DEF HInv
<1>3. HInv => ExitZeroMeansServed
  BY DEF HInv, Honest
<1> QED
  BY <1>1, <1>2, <1>3, PTL DEF Spec

=============================================================================
