--------------------------- MODULE RosNode_proofs ---------------------------
(***************************************************************************)
(* Proofs about RosNode, for any number of resets: no target crosses a     *)
(* reset, no hand is left without a session, and the node implements what  *)
(* ResetContract promises to its clients. The last part is about JoyMapper,*)
(* which runs that node together with the mapper and the messages between. *)
(***************************************************************************)
EXTENDS JoyMapper, TLAPS

\* TypeOK in two parts.
FlagTypes ==
    /\ resetBusy \in BOOLEAN
    /\ acceptTargets \in BOOLEAN
    /\ pendingReset \in BOOLEAN
    /\ stopRequested \in BOOLEAN
    /\ exiting \in BOOLEAN
    /\ contextOk \in BOOLEAN
    /\ success \in BOOLEAN

PositionTypes ==
    /\ target \in Nat
    /\ manager \in ManagerStates
    /\ session \in SessionStates
    /\ step \in 1..LastCall
    /\ held \in Nat
    /\ hand \in {"none", "created", "connected", "ready"}
    /\ epoch \in Nat
    /\ served \in Nat

\* The session is still initialising, on behalf of a reset.
Initialising == session \in {"create", "call", "finish", "fail", "report"}

\* Manager and session: a reset stays busy from its acceptance to its report, and
\* the manager goes on only without a session.
ManagerInv ==
    /\ pendingReset => resetBusy
    /\ manager \in {"join", "restart"} => exiting \/ pendingReset
    /\ manager \in {"restart", "start", "done"} => session = "none"
    /\ manager = "start" => resetBusy /\ ~pendingReset
    /\ Initialising => resetBusy /\ ~pendingReset /\ served = epoch

\* Targets are accepted only by the session of the newest reset, which is over.
TargetInv ==
    /\ acceptTargets => ~resetBusy /\ served = epoch
    /\ acceptTargets /\ session \in {"loop", "send"} => hand = "ready"
    /\ target # 0 => acceptTargets /\ target = epoch /\ ~exiting
    /\ NoTargetCrossesReset

\* What each position of the session says about its hand.
HandInv ==
    /\ session \in {"none", "ended", "create"} => hand = "none"
    /\ success /\ session = "report" => hand = "ready"
    /\ session = "finish" => hand = "ready"
    /\ session = "report" /\ ~success => hand = "none"
    /\ success => session \notin {"create", "call", "finish", "fail"}

NodeInv == TypeOK /\ ManagerInv /\ TargetInv /\ HandInv

-----------------------------------------------------------------------------
(* Each part of the invariant is kept by every step                         *)

\* Every step keeps the types of the flags.
LEMMA FlagStep ==
    ASSUME FlagTypes, [Next]_vars
    PROVE  FlagTypes'
<1> USE DEF FlagTypes
<1>1. CASE ReceiveTarget
    BY <1>1 DEF ReceiveTarget, flagVars, endVars, sessionVars
<1>2. CASE Reset
    BY <1>2 DEF Reset, endVars, sessionVars
<1>3. CASE ShutDownContext
    BY <1>3 DEF ShutDownContext, flagVars, sessionVars
<1>4. CASE Destroy
    BY <1>4 DEF Destroy, sessionVars
<1>5. CASE WakeManager
    BY <1>5 DEF WakeManager, flagVars, endVars, sessionVars
<1>6. CASE JoinSession
    BY <1>6 DEF JoinSession, flagVars, endVars
<1>7. CASE Restart
    BY <1>7 DEF Restart, endVars, sessionVars
<1>8. CASE StartSession
    BY <1>8 DEF StartSession, flagVars, endVars
<1>9. CASE StartFails
    BY <1>9 DEF StartFails, endVars, sessionVars
<1>10. CASE CreateHand
    BY <1>10 DEF CreateHand, sharedVars, flagVars, endVars, Leaving
<1>11. CASE CallSdk
    BY <1>11 DEF CallSdk, sharedVars, flagVars, endVars, Leaving, AtLastCall, LastCall
<1>12. CASE FinishReset
    BY <1>12 DEF FinishReset, sharedVars, flagVars, endVars, Leaving
<1>13. CASE FailReset
    BY <1>13 DEF FailReset, sharedVars, flagVars, endVars
<1>14. CASE Report
    BY <1>14 DEF Report, endVars
<1>15. CASE Loop
    BY <1>15 DEF Loop, sharedVars, flagVars, endVars, Leaving
<1>16. CASE SendPosition
    BY <1>16 DEF SendPosition, sharedVars, flagVars, endVars
<1>17. CASE EndSession
    BY <1>17 DEF EndSession, sharedVars, flagVars, endVars
<1>18. CASE UNCHANGED vars
    BY <1>18 DEF vars, flagVars, endVars, sessionVars
<1> QED
    BY <1>1, <1>2, <1>3, <1>4, <1>5, <1>6, <1>7, <1>8, <1>9, <1>10, <1>11, <1>12,
       <1>13, <1>14, <1>15, <1>16, <1>17, <1>18
       DEF Next, Callbacks, Manager, Session

\* Every step keeps the threads at their positions, and the rest of the types.
LEMMA PositionStep ==
    ASSUME PositionTypes, [Next]_vars
    PROVE  PositionTypes'
<1> USE DEF PositionTypes, ManagerStates, SessionStates, LastCall
<1>1. CASE ReceiveTarget
    BY <1>1 DEF ReceiveTarget, flagVars, endVars, sessionVars
<1>2. CASE Reset
    BY <1>2 DEF Reset, endVars, sessionVars
<1>3. CASE ShutDownContext
    BY <1>3 DEF ShutDownContext, flagVars, sessionVars
<1>4. CASE Destroy
    BY <1>4 DEF Destroy, sessionVars
<1>5. CASE WakeManager
    BY <1>5 DEF WakeManager, flagVars, endVars, sessionVars
<1>6. CASE JoinSession
    BY <1>6 DEF JoinSession, flagVars, endVars
<1>7. CASE Restart
    BY <1>7 DEF Restart, endVars, sessionVars
<1>8. CASE StartSession
    BY <1>8 DEF StartSession, flagVars, endVars
<1>9. CASE StartFails
    BY <1>9 DEF StartFails, endVars, sessionVars
<1>10. CASE CreateHand
    BY <1>10 DEF CreateHand, sharedVars, flagVars, endVars, Leaving
<1>11. CASE CallSdk
    BY <1>11 DEF CallSdk, sharedVars, flagVars, endVars, Leaving, AtLastCall, LastCall
<1>12. CASE FinishReset
    BY <1>12 DEF FinishReset, sharedVars, flagVars, endVars, Leaving
<1>13. CASE FailReset
    BY <1>13 DEF FailReset, sharedVars, flagVars, endVars
<1>14. CASE Report
    BY <1>14 DEF Report, endVars
<1>15. CASE Loop
    BY <1>15 DEF Loop, sharedVars, flagVars, endVars, Leaving
<1>16. CASE SendPosition
    BY <1>16 DEF SendPosition, sharedVars, flagVars, endVars
<1>17. CASE EndSession
    BY <1>17 DEF EndSession, sharedVars, flagVars, endVars
<1>18. CASE UNCHANGED vars
    BY <1>18 DEF vars, flagVars, endVars, sessionVars
<1> QED
    BY <1>1, <1>2, <1>3, <1>4, <1>5, <1>6, <1>7, <1>8, <1>9, <1>10, <1>11, <1>12,
       <1>13, <1>14, <1>15, <1>16, <1>17, <1>18
       DEF Next, Callbacks, Manager, Session

\* A reset stays busy until its session reports, and manager and session alternate.
LEMMA ManagerStep ==
    ASSUME TypeOK, ManagerInv, [Next]_vars
    PROVE  ManagerInv'
<1> USE DEF TypeOK, ManagerInv, Initialising, ManagerStates, SessionStates
<1>1. CASE ReceiveTarget
    BY <1>1 DEF ReceiveTarget, flagVars, endVars, sessionVars
<1>2. CASE Reset
    BY <1>2 DEF Reset, endVars, sessionVars
<1>3. CASE ShutDownContext
    BY <1>3 DEF ShutDownContext, flagVars, sessionVars
<1>4. CASE Destroy
    BY <1>4 DEF Destroy, sessionVars
<1>5. CASE WakeManager
    BY <1>5 DEF WakeManager, flagVars, endVars, sessionVars
<1>6. CASE JoinSession
    BY <1>6 DEF JoinSession, flagVars, endVars
<1>7. CASE Restart
    BY <1>7 DEF Restart, endVars, sessionVars
<1>8. CASE StartSession
    BY <1>8 DEF StartSession, flagVars, endVars
<1>9. CASE StartFails
    BY <1>9 DEF StartFails, endVars, sessionVars
<1>10. CASE CreateHand
    BY <1>10 DEF CreateHand, sharedVars, flagVars, endVars, Leaving
<1>11. CASE CallSdk
    BY <1>11 DEF CallSdk, sharedVars, flagVars, endVars, Leaving, AtLastCall, LastCall
<1>12. CASE FinishReset
    BY <1>12 DEF FinishReset, sharedVars, flagVars, endVars, Leaving
<1>13. CASE FailReset
    BY <1>13 DEF FailReset, sharedVars, flagVars, endVars
<1>14. CASE Report
    BY <1>14 DEF Report, endVars
<1>15. CASE Loop
    BY <1>15 DEF Loop, sharedVars, flagVars, endVars, Leaving
<1>16. CASE SendPosition
    BY <1>16 DEF SendPosition, sharedVars, flagVars, endVars
<1>17. CASE EndSession
    BY <1>17 DEF EndSession, sharedVars, flagVars, endVars
<1>18. CASE UNCHANGED vars
    BY <1>18 DEF vars, flagVars, endVars, sessionVars
<1> QED
    BY <1>1, <1>2, <1>3, <1>4, <1>5, <1>6, <1>7, <1>8, <1>9, <1>10, <1>11, <1>12,
       <1>13, <1>14, <1>15, <1>16, <1>17, <1>18
       DEF Next, Callbacks, Manager, Session

\* The session's position keeps telling what its hand is.
LEMMA HandStep ==
    ASSUME TypeOK, ManagerInv, HandInv, [Next]_vars
    PROVE  HandInv'
<1> USE DEF TypeOK, ManagerInv, Initialising, HandInv, ManagerStates, SessionStates
<1>1. CASE ReceiveTarget
    BY <1>1 DEF ReceiveTarget, flagVars, endVars, sessionVars
<1>2. CASE Reset
    BY <1>2 DEF Reset, endVars, sessionVars
<1>3. CASE ShutDownContext
    BY <1>3 DEF ShutDownContext, flagVars, sessionVars
<1>4. CASE Destroy
    BY <1>4 DEF Destroy, sessionVars
<1>5. CASE WakeManager
    BY <1>5 DEF WakeManager, flagVars, endVars, sessionVars
<1>6. CASE JoinSession
    BY <1>6 DEF JoinSession, flagVars, endVars
<1>7. CASE Restart
    BY <1>7 DEF Restart, endVars, sessionVars
<1>8. CASE StartSession
    BY <1>8 DEF StartSession, flagVars, endVars
<1>9. CASE StartFails
    BY <1>9 DEF StartFails, endVars, sessionVars
<1>10. CASE CreateHand
    BY <1>10 DEF CreateHand, sharedVars, flagVars, endVars, Leaving
<1>11. CASE CallSdk
    BY <1>11 DEF CallSdk, sharedVars, flagVars, endVars, Leaving, AtLastCall, LastCall
<1>12. CASE FinishReset
    BY <1>12 DEF FinishReset, sharedVars, flagVars, endVars, Leaving
<1>13. CASE FailReset
    BY <1>13 DEF FailReset, sharedVars, flagVars, endVars
<1>14. CASE Report
    BY <1>14 DEF Report, endVars
<1>15. CASE Loop
    BY <1>15 DEF Loop, sharedVars, flagVars, endVars, Leaving
<1>16. CASE SendPosition
    BY <1>16 DEF SendPosition, sharedVars, flagVars, endVars
<1>17. CASE EndSession
    BY <1>17 DEF EndSession, sharedVars, flagVars, endVars
<1>18. CASE UNCHANGED vars
    BY <1>18 DEF vars, flagVars, endVars, sessionVars
<1> QED
    BY <1>1, <1>2, <1>3, <1>4, <1>5, <1>6, <1>7, <1>8, <1>9, <1>10, <1>11, <1>12,
       <1>13, <1>14, <1>15, <1>16, <1>17, <1>18
       DEF Next, Callbacks, Manager, Session

\* Targets, kept or sent, stay those of the newest initialised session.
LEMMA TargetStep ==
    ASSUME TypeOK, ManagerInv, HandInv, TargetInv, [Next]_vars
    PROVE  TargetInv'
<1> USE DEF TypeOK, ManagerInv, Initialising, HandInv, TargetInv, NoTargetCrossesReset,
           ManagerStates, SessionStates
<1>1. CASE ReceiveTarget
    BY <1>1 DEF ReceiveTarget, flagVars, endVars, sessionVars
<1>2. CASE Reset
    BY <1>2 DEF Reset, endVars, sessionVars
<1>3. CASE ShutDownContext
    BY <1>3 DEF ShutDownContext, flagVars, sessionVars
<1>4. CASE Destroy
    BY <1>4 DEF Destroy, sessionVars
<1>5. CASE WakeManager
    BY <1>5 DEF WakeManager, flagVars, endVars, sessionVars
<1>6. CASE JoinSession
    BY <1>6 DEF JoinSession, flagVars, endVars
<1>7. CASE Restart
    BY <1>7 DEF Restart, endVars, sessionVars
<1>8. CASE StartSession
    BY <1>8 DEF StartSession, flagVars, endVars
<1>9. CASE StartFails
    BY <1>9 DEF StartFails, endVars, sessionVars
<1>10. CASE CreateHand
    BY <1>10 DEF CreateHand, sharedVars, flagVars, endVars, Leaving
<1>11. CASE CallSdk
    BY <1>11 DEF CallSdk, sharedVars, flagVars, endVars, Leaving, AtLastCall, LastCall
<1>12. CASE FinishReset
    BY <1>12 DEF FinishReset, sharedVars, flagVars, endVars, Leaving
<1>13. CASE FailReset
    BY <1>13 DEF FailReset, sharedVars, flagVars, endVars
<1>14. CASE Report
    BY <1>14 DEF Report, endVars
<1>15. CASE Loop
    BY <1>15 DEF Loop, sharedVars, flagVars, endVars, Leaving
<1>16. CASE SendPosition
    BY <1>16 DEF SendPosition, sharedVars, flagVars, endVars
<1>17. CASE EndSession
    BY <1>17 DEF EndSession, sharedVars, flagVars, endVars
<1>18. CASE UNCHANGED vars
    BY <1>18 DEF vars, flagVars, endVars, sessionVars
<1> QED
    BY <1>1, <1>2, <1>3, <1>4, <1>5, <1>6, <1>7, <1>8, <1>9, <1>10, <1>11, <1>12,
       <1>13, <1>14, <1>15, <1>16, <1>17, <1>18
       DEF Next, Callbacks, Manager, Session

\* The node starts with an uninitialised session and no target.
LEMMA InitNode ==
    ASSUME Init
    PROVE  NodeInv
<1>1. FlagTypes
    BY DEF Init, FlagTypes
<1>2. PositionTypes
    BY DEF Init, PositionTypes, ManagerStates, SessionStates, LastCall
<1>3. ManagerInv
    BY DEF Init, ManagerInv, Initialising
<1>4. TargetInv
    BY DEF Init, TargetInv, NoTargetCrossesReset
<1>5. HandInv
    BY DEF Init, HandInv
<1> QED
    BY <1>1, <1>2, <1>3, <1>4, <1>5 DEF NodeInv, TypeOK, FlagTypes, PositionTypes

\* The invariant is inductive: its parts together carry each other.
LEMMA NodeInvStep ==
    ASSUME NodeInv, [Next]_vars
    PROVE  NodeInv'
<1>1. TypeOK <=> FlagTypes /\ PositionTypes
    BY DEF TypeOK, FlagTypes, PositionTypes
<1>2. TypeOK' <=> FlagTypes' /\ PositionTypes'
    BY DEF TypeOK, FlagTypes, PositionTypes
<1> QED
    BY <1>1, <1>2, FlagStep, PositionStep, ManagerStep, HandStep, TargetStep DEF NodeInv

-----------------------------------------------------------------------------
(* Safety                                                                   *)

\* The inductive invariant holds whatever the number of resets and however the
\* callbacks, the manager, the session and the end of the node interleave.
THEOREM NodeInvariance == Spec => []NodeInv
<1>1. Init => NodeInv
    BY InitNode
<1>2. NodeInv /\ [Next]_vars => NodeInv'
    BY NodeInvStep
<1> QED
    BY <1>1, <1>2, PTL DEF Spec

\* Flags, positions and counters of the node keep their types.
THEOREM NodeTypeCorrect == Spec => []TypeOK
<1>1. NodeInv => TypeOK
    BY DEF NodeInv
<1> QED
    BY <1>1, NodeInvariance, PTL

\* Every position a session sends was received after that session had homed its
\* hand (rphand_node.cpp:205-209).
THEOREM NoTargetCrossesResetCorrect == Spec => []NoTargetCrossesReset
<1>1. NodeInv => NoTargetCrossesReset
    BY DEF NodeInv, TargetInv
<1> QED
    BY <1>1, NodeInvariance, PTL

\* Neither an ended session nor the finished node keeps a hand (rphand_node.cpp:112-123).
THEOREM HandBelongsToSessionCorrect == Spec => []HandBelongsToSession
<1>1. NodeInv => HandBelongsToSession
    BY DEF NodeInv, ManagerInv, HandInv, HandBelongsToSession
<1> QED
    BY <1>1, NodeInvariance, PTL

-----------------------------------------------------------------------------
(* Refinement                                                               *)

\* Every step of the node is one its clients were promised, or none they can see.
LEMMA ContractStep ==
    ASSUME NodeInv, [Next]_vars
    PROVE  [Contract!Next]_(Contract!contractVars)
<1> USE DEF NodeInv, TypeOK, phase, Contract!contractVars
<1>1. CASE ReceiveTarget
    BY <1>1 DEF ReceiveTarget, flagVars, endVars, TargetInv, Contract!Next,
       Contract!AcceptTarget
<1>2. CASE Reset
    BY <1>2 DEF Reset, endVars, sessionVars, TargetInv, Contract!Next,
       Contract!AcceptReset
<1>3. CASE Destroy
    BY <1>3 DEF Destroy, sessionVars, Contract!Next, Contract!Close
<1>4. CASE StartFails
    BY <1>4 DEF StartFails, ManagerInv, TargetInv, endVars, sessionVars,
       Contract!Next, Contract!FinishReset
<1>5. CASE Report
    BY <1>5 DEF Report, ManagerInv, Initialising, TargetInv, endVars,
       Contract!Next, Contract!FinishReset
<1>6. CASE ShutDownContext
    BY <1>6 DEF ShutDownContext, flagVars, sessionVars
<1>7. CASE WakeManager
    BY <1>7 DEF WakeManager, flagVars, endVars, sessionVars
<1>8. CASE JoinSession
    BY <1>8 DEF JoinSession, flagVars, endVars
<1>9. CASE Restart
    BY <1>9 DEF Restart, endVars, sessionVars
<1>10. CASE StartSession
    BY <1>10 DEF StartSession, flagVars, endVars
<1>11. CASE CreateHand
    BY <1>11 DEF CreateHand, sharedVars, flagVars, endVars
<1>12. CASE CallSdk
    BY <1>12 DEF CallSdk, sharedVars, flagVars, endVars
<1>13. CASE FinishReset
    BY <1>13 DEF FinishReset, sharedVars, flagVars, endVars
<1>14. CASE FailReset
    BY <1>14 DEF FailReset, sharedVars, flagVars, endVars
<1>15. CASE Loop
    BY <1>15 DEF Loop, sharedVars, flagVars, endVars
<1>16. CASE SendPosition
    BY <1>16 DEF SendPosition, sharedVars, flagVars, endVars
<1>17. CASE EndSession
    BY <1>17 DEF EndSession, sharedVars, flagVars, endVars
<1>18. CASE UNCHANGED vars
    BY <1>18 DEF vars, flagVars, endVars
<1> QED
    BY <1>1, <1>2, <1>3, <1>4, <1>5, <1>6, <1>7, <1>8, <1>9, <1>10, <1>11, <1>12,
       <1>13, <1>14, <1>15, <1>16, <1>17, <1>18
       DEF Next, Callbacks, Manager, Session

\* To its clients the node behaves as ResetContract says: it forgets its target at every
\* reset, takes targets only after a successful one and is busy in between.
THEOREM ImplementsContractCorrect == Spec => ImplementsContract
<1>1. Init => Contract!Init
    BY DEF Init, Contract!Init, phase
<1>2. NodeInv /\ [Next]_vars => [Contract!Next]_(Contract!contractVars)
    BY ContractStep
<1> QED
    BY <1>1, <1>2, NodeInvariance, PTL DEF Spec, ImplementsContract, Contract!Spec

-----------------------------------------------------------------------------
(* The mapper and the node                                                  *)

JoyFlags ==
    /\ button \in BOOLEAN
    /\ robotEnabled \in BOOLEAN
    /\ pending \in BOOLEAN
    /\ wave \in BOOLEAN
    /\ open \in BOOLEAN

JoyTypeOK ==
    /\ JoyFlags
    /\ mapper \in {"running", "ended"}
    /\ direction \in Directions
    /\ requests \in Nat
    /\ answers \in Nat
    /\ command \in {"none", "pose", "zero"}

\* The mapper waits exactly when a request or an answer of its own is on its way.
OneRequest == mapper = "running" => requests + answers = IF pending THEN 1 ELSE 0

\* After a wave the command on its way, or the one that arrived last, opens the hand.
OpeningCommand ==
    mapper = "running" /\ ~wave =>
        /\ command # "pose"
        /\ command = "none" => target = 0 \/ open

JoyInv == JoyTypeOK /\ OneRequest /\ OpeningCommand

\* What the mapper and the messages do to the node, a callback of it may do.
LEMMA JoyStepIsNodeStep == [JoyNext]_allVars => [Next]_vars
<1> SUFFICES ASSUME [JoyNext]_allVars PROVE [Next]_vars
    OBVIOUS
<1>1. CASE Mapper
    BY <1>1 DEF Mapper, OnJoy, ResetDone, WaveTick, EndMapper
<1>2. CASE DeliverRequest
    BY <1>2 DEF DeliverRequest, Next, Callbacks
<1>3. CASE DeliverCommand
    BY <1>3 DEF DeliverCommand, Next, Callbacks
<1>4. CASE OtherReset
    BY <1>4 DEF OtherReset, Next, Callbacks
<1>5. CASE NodeStep
    BY <1>5 DEF NodeStep, Next
<1>6. CASE UNCHANGED allVars
    BY <1>6 DEF allVars
<1> QED
    BY <1>1, <1>2, <1>3, <1>4, <1>5, <1>6 DEF JoyNext

\* A target of the node is only ever forgotten, except by a command that is taken.
LEMMA TargetForgotten ==
    ASSUME Reset \/ NodeStep
    PROVE  target' \in {target, 0}
BY DEF Reset, NodeStep, ShutDownContext, Destroy, Manager, Session, WakeManager, JoinSession,
   Restart, StartSession, StartFails, CreateHand, CallSdk, FinishReset, FailReset, Report, Loop,
   SendPosition, EndSession, sharedVars

\* Every step of the mapper and of the messages keeps their flags Boolean.
LEMMA JoyFlagsStep ==
    ASSUME JoyFlags, [JoyNext]_allVars
    PROVE  JoyFlags'
<1> USE DEF JoyFlags
<1>1. ASSUME NEW b \in BOOLEAN, NEW ready \in BOOLEAN, NEW d \in Directions,
             OnJoy(b, d, ready)
      PROVE  JoyFlags'
    BY <1>1, Zenon DEF OnJoy
<1>2. CASE ResetDone
    BY <1>2, Zenon DEF ResetDone
<1>3. CASE WaveTick
    BY <1>3, Zenon DEF WaveTick
<1>4. CASE EndMapper
    BY <1>4, Zenon DEF EndMapper, linkVars
<1>5. CASE DeliverRequest
    BY <1>5, Zenon DEF DeliverRequest, joyVars
<1>6. CASE DeliverCommand
    BY <1>6, Zenon DEF DeliverCommand, joyVars
<1>7. CASE OtherReset \/ NodeStep
    BY <1>7, Zenon DEF OtherReset, NodeStep, joyVars, linkVars
<1>8. CASE UNCHANGED allVars
    BY <1>8, Zenon DEF allVars, joyVars, linkVars
<1> QED
    BY <1>1, <1>2, <1>3, <1>4, <1>5, <1>6, <1>7, <1>8, Zenon DEF JoyNext, Mapper

\* A command reaches a node that forgets it only when that node has no target.
LEMMA JoyStep ==
    ASSUME NodeInv, JoyInv, [JoyNext]_allVars
    PROVE  JoyInv'
<1> USE JoyFlagsStep DEF JoyInv, JoyTypeOK, OneRequest, OpeningCommand
<1>1. ASSUME NEW b \in BOOLEAN, NEW ready \in BOOLEAN, NEW d \in Directions,
             OnJoy(b, d, ready)
      PROVE  JoyInv'
    <2>1. target' = target
        BY <1>1 DEF OnJoy, vars
    <2>2. requests' = IF pending' /\ ~pending THEN requests + 1 ELSE requests
        BY <1>1 DEF OnJoy, JoyFlags
    <2>3. /\ mapper' = mapper /\ answers' = answers /\ command' = command /\ open' = open
          /\ direction' \in Directions
          /\ pending => pending'
          /\ wave => wave'
        BY <1>1 DEF OnJoy
    <2> QED
        BY <2>1, <2>2, <2>3, JoyFlagsStep
<1>2. CASE ResetDone
    BY <1>2 DEF ResetDone, vars
<1>3. CASE WaveTick
    BY <1>3 DEF WaveTick, LastCommand, vars
<1>4. CASE EndMapper
    BY <1>4 DEF EndMapper, vars, linkVars
<1>5. CASE DeliverRequest
    <2>1. target' \in {target, 0}
        BY <1>5, TargetForgotten DEF DeliverRequest, vars
    <2> QED
        BY <1>5, <2>1 DEF DeliverRequest, joyVars
<1>6. CASE DeliverCommand
    <2>1. ~acceptTargets \/ resetBusy \/ exiting => target = 0
        BY DEF NodeInv, TargetInv, TypeOK
    <2>2. CASE ReceiveTarget /\ open' = (command = "zero")
        BY <1>6, <2>2 DEF DeliverCommand, joyVars
    <2>3. CASE (~acceptTargets \/ resetBusy \/ exiting) /\ UNCHANGED <<vars, open>>
        BY <1>6, <2>1, <2>3 DEF DeliverCommand, joyVars, vars
    <2> QED
        BY <1>6, <2>2, <2>3 DEF DeliverCommand
<1>7. CASE OtherReset \/ NodeStep
    <2>1. target' \in {target, 0}
        BY <1>7, TargetForgotten DEF OtherReset
    <2> QED
        BY <1>7, <2>1 DEF OtherReset, NodeStep, joyVars, linkVars
<1>8. CASE UNCHANGED allVars
    BY <1>8 DEF allVars, joyVars, linkVars, vars
<1> QED
    BY <1>1, <1>2, <1>3, <1>4, <1>5, <1>6, <1>7, <1>8 DEF JoyNext, Mapper

\* Beside the mapper and its messages the node still is the node of RosNode, with
\* all its properties.
THEOREM JoyImplementsNode == JoySpec => Spec
<1>1. JoyInit => Init
    BY DEF JoyInit
<1> QED
    BY <1>1, JoyStepIsNodeStep, PTL DEF JoySpec, Spec

\* Mapper and node together keep the invariants of both, however joystick messages,
\* requests, answers, commands and resets of others interleave.
THEOREM JoyInvariance == JoySpec => [](NodeInv /\ JoyInv)
<1>1. JoyInit => JoyInv
    <2> SUFFICES ASSUME JoyInit PROVE JoyInv
        OBVIOUS
    <2>1. JoyFlags /\ ~pending /\ open
        BY Zenon DEF JoyInit, JoyFlags
    <2>2. /\ mapper = "running" /\ direction = "" /\ command = "none"
          /\ requests = 0 /\ answers = 0
        BY Zenon DEF JoyInit
    <2>3. JoyTypeOK
        BY <2>1, <2>2 DEF JoyTypeOK, Directions
    <2>4. requests + answers = 0
      <3>1. requests = 0 /\ answers = 0
        BY <2>2
      <3>2. 0 + 0 = 0
        OBVIOUS
      <3> QED
        BY <3>1, <3>2
    <2>5. OneRequest
        BY <2>1, <2>4, Zenon DEF OneRequest
    <2>6. OpeningCommand
        BY <2>1, <2>2, Zenon DEF OpeningCommand
    <2> QED
        BY <2>3, <2>5, <2>6 DEF JoyInv
<1>2. NodeInv /\ JoyInv /\ [JoyNext]_allVars => JoyInv'
    BY JoyStep
<1> QED
    BY <1>1, <1>2, JoyImplementsNode, NodeInvariance, PTL DEF JoySpec

\* The mapper never has two requests under way, and none is answered that it does not
\* wait for: an answer cannot end the wait for another one (_reset, _reset_done).
THEOREM OneRequestCorrect == JoySpec => []OneRequest
<1>1. JoyInv => OneRequest
    BY DEF JoyInv
<1> QED
    BY <1>1, JoyInvariance, PTL

\* A finished wave leaves the hand opened or without a target, also when its last
\* command arrived while the node ignored commands (_wave_tick).
THEOREM FinishedWaveOpensHandCorrect == JoySpec => []FinishedWaveOpensHand
<1>1. JoyInv => FinishedWaveOpensHand
    BY DEF JoyInv, OpeningCommand, FinishedWaveOpensHand
<1> QED
    BY <1>1, JoyInvariance, PTL

\* A joystick never sees more of the node than ResetContract, however it is asked.
THEOREM JoyImplementsContract == JoySpec => ImplementsContract
BY JoyImplementsNode, ImplementsContractCorrect, PTL

=============================================================================
