------------------------- MODULE HandControl_proofs -------------------------
(***************************************************************************)
(* Proofs about HandControl, for any set of callers and any bounds: jobs   *)
(* and their accounting first, then the connection side, the session, the  *)
(* ownership of the device and the clean-up of failed connects.            *)
(***************************************************************************)
EXTENDS HandControl, SequenceTheorems, FiniteSetTheorems, TLAPS

-----------------------------------------------------------------------------
(* The inductive invariant. BusyAccounting and AtMostOneLive alone are not   *)
(* inductive: whether a step adds or removes a pending job depends on where  *)
(* every caller and the worker stand, and a token is new only because no job *)
(* has a token beyond the generation.                                        *)

Running == {"start", "open", "configure", "publish", "confirm", "call", "check",
            "finish", "deliver"}

Leaving ==
    \/ worker \in {"none", "done"}
    \/ worker \in {"unpublish", "close", "release"} /\ current = NoCaller

QueueInv == IsInjective(queue) /\ current \notin Range(queue)

CallerInv ==
    \A c \in Callers :
        /\ pc[c] = "waiting" <=> c \in Range(queue) \/ c = current
        /\ job[c].token =< generation

WorkerInv ==
    /\ worker \in {"none", "wait", "done"} => current = NoCaller
    /\ worker \in Running => current # NoCaller
    /\ Leaving => queue = <<>>
    /\ worker \in {"none", "close", "release", "done"} => ~connected
    /\ Leaving => worker = "none" \/ workerExit

OneLiveInv ==
    \A c, d \in Pending :
        job[c].token = generation /\ job[d].token = generation => c = d

IssuedInv ==
    /\ issued =< generation
    /\ worker \in {"open", "call"} => issued =< job[current].token

ControlInv ==
    /\ TypeOK
    /\ QueueInv
    /\ CallerInv
    /\ WorkerInv
    /\ IsFiniteSet(PendingUrgent)
    /\ BusyAccounting
    /\ OneLiveInv
    /\ IssuedInv

-----------------------------------------------------------------------------
(* The queue of pairwise different callers                                  *)

\* Taking the first job out of the queue removes exactly its caller.
LEMMA RangeOfTail ==
    ASSUME NEW S, NEW q \in Seq(S), q # <<>>, IsInjective(q)
    PROVE  /\ Range(Tail(q)) = Range(q) \ {Head(q)}
           /\ Head(q) \in Range(q)
           /\ IsInjective(Tail(q))
<1>1. /\ DOMAIN q = 1 .. Len(q)
      /\ Len(q) \in Nat \ {0}
      /\ Head(q) = q[1]
  BY LenProperties, EmptySeq
<1>2. /\ Tail(q) \in Seq(S)
      /\ Len(Tail(q)) = Len(q) - 1
      /\ \A i \in 1 .. Len(Tail(q)) : Tail(q)[i] = q[i + 1]
  BY HeadTailProperties
<1>3. DOMAIN Tail(q) = 1 .. Len(q) - 1
  BY <1>2, LenProperties
<1>4. Head(q) \in Range(q)
  BY <1>1 DEF Range
<1>5. ASSUME NEW i \in 1 .. Len(q) - 1
      PROVE  /\ Tail(q)[i] = q[i + 1]
             /\ i + 1 \in 1 .. Len(q)
             /\ i + 1 # 1
  BY <1>1, <1>2
<1>6. Range(Tail(q)) \subseteq Range(q) \ {Head(q)}
  BY <1>1, <1>3, <1>5 DEF Range, IsInjective
<1>7. ASSUME NEW i \in 1 .. Len(q), q[i] # Head(q)
      PROVE  q[i] \in Range(Tail(q))
  <2>1. i - 1 \in 1 .. Len(q) - 1 /\ (i - 1) + 1 = i
    BY <1>1, <1>7
  <2>2. Tail(q)[i - 1] = q[i]
    BY <1>5, <2>1
  <2> QED BY <1>3, <2>1, <2>2 DEF Range
<1>8. Range(q) \ {Head(q)} \subseteq Range(Tail(q))
  BY <1>1, <1>7 DEF Range
<1>9. IsInjective(Tail(q))
  <2> SUFFICES ASSUME NEW i \in 1 .. Len(q) - 1, NEW j \in 1 .. Len(q) - 1,
                      Tail(q)[i] = Tail(q)[j]
               PROVE  i = j
    BY <1>3 DEF IsInjective
  <2>1. q[i + 1] = q[j + 1]
    BY <1>5
  <2> QED BY <1>1, <1>5, <2>1 DEF IsInjective
<1> QED BY <1>4, <1>6, <1>8, <1>9

\* A caller that is not in the queue can be added at its end.
LEMMA RangeOfAppend ==
    ASSUME NEW S, NEW q \in Seq(S), IsInjective(q), NEW c \in S, c \notin Range(q)
    PROVE  /\ Append(q, c) \in Seq(S)
           /\ Range(Append(q, c)) = Range(q) \cup {c}
           /\ IsInjective(Append(q, c))
<1>1. /\ Append(q, c) \in Seq(S)
      /\ Len(Append(q, c)) = Len(q) + 1
      /\ \A i \in 1 .. Len(q) : Append(q, c)[i] = q[i]
      /\ Append(q, c)[Len(q) + 1] = c
  BY AppendProperties
<1>2. DOMAIN q = 1 .. Len(q) /\ Len(q) \in Nat
  BY LenProperties
<1>3. DOMAIN Append(q, c) = 1 .. Len(q) + 1
  BY <1>1, LenProperties
<1>4. Range(Append(q, c)) = Range(q) \cup {c}
  BY <1>1, <1>2, <1>3 DEF Range
<1>5. IsInjective(Append(q, c))
  BY <1>1, <1>2, <1>3 DEF IsInjective, Range
<1> QED BY <1>1, <1>4, <1>5

\* ... and at its front.
LEMMA RangeOfPush ==
    ASSUME NEW S, NEW q \in Seq(S), IsInjective(q), NEW c \in S, c \notin Range(q)
    PROVE  /\ <<c>> \o q \in Seq(S)
           /\ Range(<<c>> \o q) = Range(q) \cup {c}
           /\ IsInjective(<<c>> \o q)
<1> DEFINE r == <<c>> \o q
<1>1. <<c>> \in Seq(S) /\ Len(<<c>>) = 1 /\ <<c>>[1] = c
  OBVIOUS
<1>2. DOMAIN q = 1 .. Len(q) /\ Len(q) \in Nat
  BY LenProperties
<1>3. /\ r \in Seq(S)
      /\ Len(r) = Len(q) + 1
      /\ \A i \in 1 .. Len(q) + 1 : r[i] = IF i =< 1 THEN c ELSE q[i - 1]
  BY <1>1, <1>2, ConcatProperties
<1>4. DOMAIN r = 1 .. Len(q) + 1
  BY <1>3, LenProperties
<1>5. Range(r) = Range(q) \cup {c}
  <2>1. Range(<<c>>) = {c}
    BY <1>1 DEF Range
  <2>2. Range(<<c>> \o q) = Range(<<c>>) \cup Range(q)
    BY <1>1, RangeConcatenation, ZenonT(60)
  <2> QED BY <2>1, <2>2
<1>6. IsInjective(r)
  <2> SUFFICES ASSUME NEW i \in 1 .. Len(q) + 1, NEW j \in 1 .. Len(q) + 1, r[i] = r[j]
               PROVE  i = j
    BY <1>4 DEF IsInjective
  <2> HIDE DEF r
  <2>1. ASSUME NEW k \in 1 .. Len(q) + 1
        PROVE  IF k = 1 THEN r[k] = c
               ELSE r[k] = q[k - 1] /\ k - 1 \in DOMAIN q /\ r[k] # c
    BY <1>2, <1>3 DEF Range
  <2> QED BY <1>2, <2>1 DEF IsInjective
<1> QED BY <1>3, <1>5, <1>6

-----------------------------------------------------------------------------
(* The steps preserve the invariant                                         *)

\* The step lemmas assume the invariant and one step of the system.
Step == ControlInv /\ [Next]_vars

LEMMA NextCases ==
    ASSUME Step
    PROVE  \/ \E c \in Callers :
                  \/ SubmitOrdinary(c) \/ SubmitUrgent(c) \/ Connect(c)
                  \/ ConnectWithoutThread(c) \/ Disconnect(c)
                  \/ LockLifecycle(c) \/ BeginClosing(c) \/ Join(c)
           \/ Pop \/ LeaveLoop \/ StartJob \/ IssueCommand \/ CheckCancelled
           \/ OpenDevice \/ ConfigureFeedback \/ Publish \/ ConfirmOpen
           \/ Unpublish \/ CloseSession \/ ReleaseOwner \/ FinishJob \/ Deliver
           \/ OtherAcquire \/ OtherRelease
           \/ UNCHANGED vars
BY DEF Step, Next, Caller, Returning, Worker

\* Pending jobs are jobs of callers, and the running one is among them until it
\* is settled.
LEMMA PendingFacts ==
    ASSUME ControlInv
    PROVE  /\ Range(queue) \subseteq Callers
           /\ Pending \subseteq Callers
           /\ PendingUrgent \subseteq Pending
           /\ \A c \in Callers : pc[c] # "waiting" => c \notin Pending
<1>1. Range(queue) \subseteq Callers
  BY RangeOfSeq DEF ControlInv, TypeOK
<1> QED BY <1>1 DEF ControlInv, TypeOK, CallerInv, Pending, Queued, PendingUrgent

\* A settled job was counted: the urgent counter is positive when it is decremented.
LEMMA UrgentCounted ==
    ASSUME ControlInv, worker = "finish", job[current].kind = "urgent"
    PROVE  /\ current \in PendingUrgent
           /\ urgentCount - 1 \in Nat
<1>1. current \in PendingUrgent
  BY DEF ControlInv, WorkerInv, Running, PendingUrgent, Pending
<1>2. PendingUrgent # {} /\ IsFiniteSet(PendingUrgent)
  BY <1>1 DEF ControlInv
<1>3. Cardinality(PendingUrgent) \in Nat /\ Cardinality(PendingUrgent) # 0
  BY <1>2, FS_EmptySet, FS_CardinalityType
<1>4. urgentCount = Cardinality(PendingUrgent)
  BY DEF ControlInv, BusyAccounting
<1> QED BY <1>1, <1>3, <1>4

LEMMA TypeStep ==
    ASSUME Step
    PROVE  TypeOK'
<1> DEFINE Jobs == [kind : Kinds, token : Nat]
<1>a. ControlInv /\ TypeOK /\ WorkerInv
  BY DEF Step, ControlInv
<1>b. \A c \in Callers, s \in CallerStates : [pc EXCEPT ![c] = s] \in [Callers -> CallerStates]
  BY <1>a DEF TypeOK
<1>c. \A c \in Callers, j \in Jobs : [job EXCEPT ![c] = j] \in [Callers -> Jobs]
  BY <1>a DEF TypeOK
<1>d. /\ NoJob \in Jobs
      /\ \A k \in Kinds, t \in Nat : [kind |-> k, token |-> t] \in Jobs
      /\ {"idle", "waiting", "lock", "update", "join"} \subseteq CallerStates
      /\ {"ordinary", "urgent", "connect", "disconnect"} \subseteq Kinds
  BY DEF NoJob, Kinds, CallerStates
<1>e. worker \in Running => current \in Callers /\ Token \in Nat
  BY <1>a DEF TypeOK, WorkerInv, Token
<1>f. generation + 1 \in Nat /\ << >> \in Seq(Callers)
  BY <1>a, EmptySeq DEF TypeOK
<1> HIDE DEF Jobs
<1> USE <1>a, <1>b, <1>c, <1>d, <1>f DEF TypeOK
<1>1. ASSUME NEW c \in Callers, SubmitOrdinary(c) PROVE TypeOK'
  <2>1. Append(queue, c) \in Seq(Callers)
    BY AppendProperties
  <2> QED BY <1>1, <2>1 DEF SubmitOrdinary, Push, flagVars, deviceVars, workerVars, Jobs
<1>2. ASSUME NEW c \in Callers, SubmitUrgent(c) PROVE TypeOK'
  <2>1. <<c>> \o queue \in Seq(Callers)
    BY ConcatProperties, <<c>> \in Seq(Callers)
  <2> QED BY <1>2, <2>1 DEF SubmitUrgent, Push, flagVars, deviceVars, workerVars, Jobs
<1>3. ASSUME NEW c \in Callers, Connect(c) PROVE TypeOK'
  <2>1. Append(queue, c) \in Seq(Callers)
    BY AppendProperties
  <2> QED BY <1>3, <2>1 DEF Connect, Push, Jobs, WorkerStates, Owners
<1>4. ASSUME NEW c \in Callers, ConnectWithoutThread(c) PROVE TypeOK'
  BY <1>4 DEF ConnectWithoutThread, workerVars, callerVars
<1>5. ASSUME NEW c \in Callers, Disconnect(c) PROVE TypeOK'
  BY <1>5 DEF Disconnect, flagVars, queueVars, deviceVars, workerVars, Jobs
<1>6. ASSUME NEW c \in Callers, LockLifecycle(c) PROVE TypeOK'
  <2>1. job' \in [Callers -> Jobs]
    BY <1>6 DEF LockLifecycle, Jobs
  <2>2. pc' \in [Callers -> CallerStates] /\ lifecycle' \in Callers \cup {NoCaller}
    BY <1>6 DEF LockLifecycle
  <2> QED BY <1>6, <2>1, <2>2 DEF LockLifecycle, flagVars, queueVars, deviceVars, workerVars, Jobs
<1>7. ASSUME NEW c \in Callers, BeginClosing(c) PROVE TypeOK'
  BY <1>7 DEF BeginClosing, queueVars, deviceVars, workerVars
<1>8. ASSUME NEW c \in Callers, Join(c) PROVE TypeOK'
  BY <1>8 DEF Join, flagVars, queueVars, deviceVars, Jobs, WorkerStates
<1>9. ASSUME Pop PROVE TypeOK'
  BY <1>9, HeadTailProperties DEF Pop, flagVars, deviceVars, callerVars, WorkerStates
<1>10. ASSUME LeaveLoop \/ StartJob \/ IssueCommand \/ CheckCancelled PROVE TypeOK'
  BY <1>10, <1>e DEF LeaveLoop, StartJob, IssueCommand, CheckCancelled, Running,
     workerOnly, flagVars, queueVars, deviceVars, callerVars, WorkerStates
<1>11. ASSUME OpenDevice PROVE TypeOK'
  BY <1>11, <1>e DEF OpenDevice, flagVars, queueVars, callerVars, WorkerStates, Running
<1>12. ASSUME ConfigureFeedback \/ Publish \/ ConfirmOpen \/ Unpublish PROVE TypeOK'
  BY <1>12 DEF ConfigureFeedback, Publish, ConfirmOpen, Unpublish,
     workerOnly, flagVars, queueVars, deviceVars, callerVars, WorkerStates
<1>13. ASSUME CloseSession \/ ReleaseOwner PROVE TypeOK'
  BY <1>13 DEF CloseSession, ReleaseOwner, flagVars, queueVars, callerVars,
     WorkerStates, Owners
<1>14. ASSUME FinishJob PROVE TypeOK'
  BY <1>14, UrgentCounted DEF FinishJob, flagVars, deviceVars, callerVars, WorkerStates
<1>15. ASSUME Deliver PROVE TypeOK'
  <2>1. current \in Callers
    BY <1>15, <1>e DEF Deliver, Running
  <2>2. job' \in [Callers -> Jobs] /\ pc' \in [Callers -> CallerStates]
    BY <1>15, <2>1 DEF Deliver, Jobs
  <2> QED BY <1>15, <2>2 DEF Deliver, flagVars, queueVars, deviceVars, WorkerStates, Jobs
<1>16. ASSUME OtherAcquire \/ OtherRelease PROVE TypeOK'
  BY <1>16 DEF OtherAcquire, OtherRelease, flagVars, queueVars, workerVars, callerVars, Owners
<1>17. ASSUME UNCHANGED vars PROVE TypeOK'
  BY <1>17 DEF vars, flagVars, queueVars, deviceVars, workerVars, callerVars
<1> HIDE DEF TypeOK
<1> QED BY <1>1, <1>2, <1>3, <1>4, <1>5, <1>6, <1>7, <1>8, <1>9, <1>10, <1>11,
        <1>12, <1>13, <1>14, <1>15, <1>16, <1>17, NextCases

\* The queue holds different callers, exactly those that wait for an answer.
LEMMA QueueStep ==
    ASSUME Step
    PROVE  QueueInv' /\ CallerInv'
<1> USE DEF QueueInv, CallerInv
<1>0. /\ ControlInv /\ TypeOK /\ QueueInv /\ CallerInv
      /\ queue \in Seq(Callers)
      /\ NoCaller \notin Callers
  BY CallersAssumption DEF Step, ControlInv, TypeOK
<1>a. /\ pc \in [Callers -> CallerStates] /\ job \in [Callers -> [kind : Kinds, token : Nat]]
      /\ generation \in Nat
      /\ Range(queue) \subseteq Callers
  BY <1>0, RangeOfSeq DEF TypeOK
<1>1. ASSUME NEW c \in Callers, SubmitOrdinary(c) PROVE QueueInv' /\ CallerInv'
  <2>1. c \notin Range(queue) /\ c # current
    BY <1>0, <1>1 DEF SubmitOrdinary, MayCall
  <2>2. Range(queue') = Range(queue) \cup {c} /\ IsInjective(queue')
    BY <1>0, <1>1, <2>1, RangeOfAppend DEF SubmitOrdinary
  <2> QED BY <1>0, <1>a, <1>1, <2>1, <2>2 DEF SubmitOrdinary, Push, workerVars
<1>2. ASSUME NEW c \in Callers, SubmitUrgent(c) PROVE QueueInv' /\ CallerInv'
  <2>1. c \notin Range(queue) /\ c # current
    BY <1>0, <1>2 DEF SubmitUrgent, MayCall
  <2>2. Range(queue') = Range(queue) \cup {c} /\ IsInjective(queue')
    BY <1>0, <1>2, <2>1, RangeOfPush DEF SubmitUrgent
  <2>3. /\ current' = current /\ generation' = generation + 1
        /\ \A d \in Callers :
              /\ pc'[d] = IF d = c THEN "waiting" ELSE pc[d]
              /\ job'[d].token = IF d = c THEN generation + 1 ELSE job[d].token
    BY <1>0, <1>a, <1>2 DEF SubmitUrgent, Push, workerVars
  <2> QED BY <1>0, <1>a, <2>1, <2>2, <2>3
<1>3. ASSUME NEW c \in Callers, Connect(c) PROVE QueueInv' /\ CallerInv'
  <2>1. c \notin Range(queue) /\ c # current
    BY <1>0, <1>3 DEF Connect, CanConnect, MayCall
  <2>2. Range(queue') = Range(queue) \cup {c} /\ IsInjective(queue')
    BY <1>0, <1>3, <2>1, RangeOfAppend DEF Connect
  <2>3. /\ current' = current /\ generation' = generation + 1
        /\ \A d \in Callers :
              /\ pc'[d] = IF d = c THEN "waiting" ELSE pc[d]
              /\ job'[d].token = IF d = c THEN generation + 1 ELSE job[d].token
    BY <1>0, <1>a, <1>3 DEF Connect, Push
  <2> QED BY <1>0, <1>a, <2>1, <2>2, <2>3
<1>4. ASSUME NEW c \in Callers, ConnectWithoutThread(c) PROVE QueueInv' /\ CallerInv'
  <2>1. queue = <<>> /\ queue' = queue
    BY <1>0, <1>4 DEF ConnectWithoutThread, CanConnect, ControlInv, WorkerInv, Leaving
  <2> QED BY <1>0, <1>a, <1>4, <2>1 DEF ConnectWithoutThread, workerVars, callerVars
<1>5. ASSUME NEW c \in Callers,
             Disconnect(c) \/ LockLifecycle(c) \/ BeginClosing(c) \/ Join(c)
      PROVE  QueueInv' /\ CallerInv'
  BY <1>0, <1>a, <1>5 DEF Disconnect, MayCall, LockLifecycle, BeginClosing, Join, NoJob,
     queueVars, workerVars
<1>6. ASSUME Pop PROVE QueueInv' /\ CallerInv'
  <2>1. current = NoCaller
    BY <1>0, <1>6 DEF Pop, ControlInv, WorkerInv
  <2>2. /\ Range(queue') = Range(queue) \ {current'}
        /\ current' \in Range(queue)
        /\ IsInjective(queue')
    BY <1>0, <1>6, RangeOfTail DEF Pop
  <2> QED BY <1>0, <1>a, <1>6, <2>1, <2>2 DEF Pop, callerVars
<1>7. ASSUME UNCHANGED <<queue, current, pc, job, generation>> PROVE QueueInv' /\ CallerInv'
  BY <1>0, <1>7
<1>8. ASSUME Deliver PROVE QueueInv' /\ CallerInv'
  <2>1. current \in Callers
    BY <1>0, <1>8 DEF Deliver, ControlInv, TypeOK, WorkerInv, Running
  <2>2. /\ current' = NoCaller /\ queue' = queue /\ generation' = generation
        /\ \A d \in Callers :
              /\ pc'[d] = "waiting" <=> d # current /\ pc[d] = "waiting"
              /\ job'[d].token \in {0, job[d].token}
    BY <1>0, <1>a, <1>8, <2>1 DEF Deliver, NoJob, queueVars
  <2> QED BY <1>0, <1>a, <2>1, <2>2
<1>9. \/ LeaveLoop \/ StartJob \/ IssueCommand \/ CheckCancelled \/ OpenDevice
      \/ ConfigureFeedback \/ Publish \/ ConfirmOpen \/ Unpublish \/ CloseSession
      \/ ReleaseOwner \/ FinishJob \/ OtherAcquire \/ OtherRelease \/ UNCHANGED vars
      => UNCHANGED <<queue, current, pc, job, generation>>
  BY DEF LeaveLoop, StartJob, IssueCommand, CheckCancelled, OpenDevice,
     ConfigureFeedback, Publish, ConfirmOpen, Unpublish, CloseSession, ReleaseOwner,
     FinishJob, OtherAcquire, OtherRelease, workerOnly, vars, queueVars, workerVars, callerVars
<1> HIDE DEF QueueInv, CallerInv
<1> QED BY <1>1, <1>2, <1>3, <1>4, <1>5, <1>6, <1>7, <1>8, <1>9, NextCases

\* Where the worker stands says which job it holds, and nothing is queued for a
\* worker that leaves.
LEMMA WorkerStep ==
    ASSUME Step
    PROVE  WorkerInv'
<1> USE DEF WorkerInv, Leaving, Running
<1>0. /\ ControlInv /\ WorkerInv /\ queue \in Seq(Callers)
      /\ current \in Callers \cup {NoCaller} /\ NoCaller \notin Callers
      /\ worker \in WorkerStates
  BY CallersAssumption DEF Step, ControlInv, TypeOK
<1>1. ASSUME NEW c \in Callers, SubmitOrdinary(c) PROVE WorkerInv'
  BY <1>0, <1>1 DEF SubmitOrdinary, Accepting, flagVars, workerVars
<1>2. ASSUME NEW c \in Callers, SubmitUrgent(c) PROVE WorkerInv'
  BY <1>0, <1>2 DEF SubmitUrgent, Accepting, flagVars, workerVars
<1>3. ASSUME NEW c \in Callers, Connect(c) PROVE WorkerInv'
  BY <1>0, <1>3 DEF Connect, CanConnect
<1>4. ASSUME NEW c \in Callers, ConnectWithoutThread(c) PROVE WorkerInv'
  BY <1>0, <1>4 DEF ConnectWithoutThread, CanConnect, workerVars
<1>5. ASSUME NEW c \in Callers, Disconnect(c) PROVE WorkerInv'
  BY <1>0, <1>5 DEF Disconnect, flagVars, queueVars, workerVars
<1>6. ASSUME NEW c \in Callers, LockLifecycle(c) PROVE WorkerInv'
  BY <1>0, <1>6 DEF LockLifecycle, flagVars, queueVars, workerVars
<1>7. ASSUME NEW c \in Callers, BeginClosing(c) PROVE WorkerInv'
  BY <1>0, <1>7 DEF BeginClosing, queueVars, workerVars
<1>8. ASSUME NEW c \in Callers, Join(c) PROVE WorkerInv'
  BY <1>0, <1>8 DEF Join, flagVars, queueVars
<1>9. ASSUME Pop PROVE WorkerInv'
  BY <1>0, <1>9, HeadTailProperties DEF Pop, flagVars
<1>10. ASSUME LeaveLoop \/ StartJob \/ IssueCommand \/ CheckCancelled PROVE WorkerInv'
  BY <1>0, <1>10 DEF LeaveLoop, StartJob, IssueCommand, CheckCancelled,
     workerOnly, flagVars, queueVars
<1>11. ASSUME OpenDevice \/ ConfigureFeedback \/ Publish \/ ConfirmOpen PROVE WorkerInv'
  BY <1>0, <1>11 DEF OpenDevice, ConfigureFeedback, Publish, ConfirmOpen,
     workerOnly, flagVars, queueVars
<1>12. ASSUME Unpublish \/ CloseSession \/ ReleaseOwner PROVE WorkerInv'
  BY <1>0, <1>12 DEF Unpublish, CloseSession, ReleaseOwner, flagVars, queueVars
<1>13. ASSUME FinishJob \/ Deliver PROVE WorkerInv'
  BY <1>0, <1>13 DEF FinishJob, Deliver, flagVars, queueVars
<1>14. ASSUME OtherAcquire \/ OtherRelease \/ UNCHANGED vars PROVE WorkerInv'
  BY <1>0, <1>14 DEF OtherAcquire, OtherRelease, vars, flagVars, queueVars, workerVars
<1> HIDE DEF WorkerInv
<1> QED BY <1>1, <1>2, <1>3, <1>4, <1>5, <1>6, <1>7, <1>8, <1>9, <1>10, <1>11,
        <1>12, <1>13, <1>14, NextCases

\* Nothing was issued by a job newer than the newest token, nor by one newer than
\* a job that is about to issue a command.
LEMMA IssuedStep ==
    ASSUME Step
    PROVE  IssuedInv' /\ issued' >= issued
<1> USE DEF IssuedInv
<1>0. /\ IssuedInv /\ CallerInv /\ WorkerInv
      /\ generation \in Nat /\ issued \in Nat
      /\ job \in [Callers -> [kind : Kinds, token : Nat]]
      /\ current \in Callers \cup {NoCaller} /\ NoCaller \notin Callers
  BY CallersAssumption DEF Step, ControlInv, TypeOK
<1>a. worker \in Running => /\ current \in Callers /\ pc[current] = "waiting"
                            /\ Token \in Nat /\ Token =< generation
  BY <1>0 DEF WorkerInv, CallerInv, Token
<1> DEFINE Goal == IssuedInv' /\ issued' >= issued
<1>1. ASSUME NEW c \in Callers,
             \/ SubmitOrdinary(c) \/ SubmitUrgent(c) \/ Connect(c) \/ Disconnect(c)
             \/ ConnectWithoutThread(c) \/ LockLifecycle(c) \/ BeginClosing(c) \/ Join(c)
      PROVE  Goal
  <2>1. /\ issued' = issued
        /\ generation' = generation \/ generation' = generation + 1
        /\ worker' \in {"open", "call"} => worker' = worker /\ current' = current
    BY <1>1 DEF SubmitOrdinary, SubmitUrgent, Connect, Disconnect, ConnectWithoutThread,
       LockLifecycle, BeginClosing, Join, workerVars
  <2>2. pc[c] # "waiting"
    BY <1>1 DEF SubmitOrdinary, SubmitUrgent, Connect, CanConnect, MayCall, Disconnect,
       ConnectWithoutThread, LockLifecycle, BeginClosing, Join
  <2>3. worker \in Running => current # c /\ job'[current] = job[current]
    BY <1>0, <1>a, <1>1, <2>2 DEF SubmitOrdinary, SubmitUrgent, Connect, Push, Disconnect,
       ConnectWithoutThread, LockLifecycle, BeginClosing, Join, callerVars
  <2> QED BY <1>0, <2>1, <2>3 DEF Running
<1>2. ASSUME Pop \/ LeaveLoop PROVE Goal
  BY <1>0, <1>2 DEF Pop, LeaveLoop
<1>3. ASSUME StartJob PROVE Goal
  BY <1>0, <1>a, <1>3 DEF StartJob, Running, Token, Cancelled, workerOnly, callerVars
<1>4. ASSUME IssueCommand PROVE Goal
  BY <1>0, <1>a, <1>4 DEF IssueCommand, Running, Token, workerOnly, callerVars
<1>5. ASSUME CheckCancelled PROVE Goal
  BY <1>0, <1>a, <1>5 DEF CheckCancelled, Running, Token, Cancelled, workerOnly, callerVars
<1>6. ASSUME OpenDevice PROVE Goal
  BY <1>0, <1>a, <1>6 DEF OpenDevice, Running, Token, callerVars
<1>7. ASSUME \/ ConfigureFeedback \/ Publish \/ ConfirmOpen \/ Unpublish \/ CloseSession
             \/ ReleaseOwner \/ FinishJob \/ Deliver
      PROVE  Goal
  BY <1>0, <1>7 DEF ConfigureFeedback, Publish, ConfirmOpen, Unpublish, CloseSession,
     ReleaseOwner, FinishJob, Deliver, workerOnly
<1>8. ASSUME OtherAcquire \/ OtherRelease \/ UNCHANGED vars PROVE Goal
  BY <1>0, <1>8 DEF OtherAcquire, OtherRelease, vars, workerVars, callerVars
<1> QED BY <1>1, <1>2, <1>3, <1>4, <1>5, <1>6, <1>7, <1>8, NextCases

-----------------------------------------------------------------------------
(* The counters and the pending jobs                                        *)

Accounting == IsFiniteSet(PendingUrgent) /\ BusyAccounting /\ OneLiveInv

\* A step that leaves the pending jobs and the counters alone keeps the account,
\* whether or not it moves the generation on.
LEMMA AccountingQuiet ==
    ASSUME ControlInv,
           Pending' = Pending,
           \A c \in Pending : job'[c] = job[c],
           urgentCount' = urgentCount, ordinaryBusy' = ordinaryBusy,
           generation' = generation \/ generation' = generation + 1
    PROVE  Accounting'
<1>1. PendingUrgent' = PendingUrgent /\ PendingOrdinary' = PendingOrdinary
  BY DEF PendingUrgent, PendingOrdinary
<1>2. IsFiniteSet(PendingUrgent)' /\ BusyAccounting'
  BY <1>1 DEF ControlInv, BusyAccounting
<1>3. OneLiveInv'
  <2>1. /\ generation \in Nat /\ OneLiveInv
        /\ \A c \in Pending : job[c].token \in Nat /\ job[c].token =< generation
    BY PendingFacts DEF ControlInv, TypeOK, CallerInv
  <2> QED BY <2>1 DEF OneLiveInv
<1> QED BY <1>2, <1>3 DEF Accounting

\* Admitting an ordinary job, or the job of connect, when nothing is pending.
LEMMA AccountingOrdinary ==
    ASSUME ControlInv, NEW c \in Callers,
           Pending = {}, Pending' = {c}, job'[c].kind # "urgent",
           urgentCount' = urgentCount, ordinaryBusy' = TRUE
    PROVE  Accounting'
<1>1. PendingUrgent = {} /\ PendingUrgent' = {} /\ PendingOrdinary' = {c}
  BY DEF PendingUrgent, PendingOrdinary
<1>2. urgentCount = Cardinality(PendingUrgent)
  BY DEF ControlInv, BusyAccounting
<1>3. IsFiniteSet(PendingUrgent')
  BY <1>1, FS_EmptySet
<1>4. BusyAccounting'
  <2>1. urgentCount' = Cardinality(PendingUrgent')
    BY <1>1, <1>2
  <2> QED BY <1>1, <2>1, Zenon DEF BusyAccounting
<1>5. OneLiveInv'
  BY DEF OneLiveInv
<1> QED BY <1>3, <1>4, <1>5 DEF Accounting

\* Admitting an urgent job, whose token is newer than all others.
LEMMA AccountingUrgent ==
    ASSUME ControlInv, NEW c \in Callers,
           c \notin Pending, Pending' = Pending \cup {c},
           job'[c] = [kind |-> "urgent", token |-> generation + 1],
           \A d \in Pending : job'[d] = job[d],
           urgentCount' = urgentCount + 1, ordinaryBusy' = ordinaryBusy,
           generation' = generation + 1
    PROVE  Accounting'
<1>1. /\ PendingUrgent' = PendingUrgent \cup {c}
      /\ c \notin PendingUrgent
      /\ PendingOrdinary' = PendingOrdinary
  BY DEF PendingUrgent, PendingOrdinary
<1>2. /\ IsFiniteSet(PendingUrgent)
      /\ urgentCount = Cardinality(PendingUrgent)
      /\ ordinaryBusy <=> PendingOrdinary # {}
      /\ \A d, e \in PendingOrdinary : d = e
  BY Zenon DEF ControlInv, BusyAccounting
<1>3. IsFiniteSet(PendingUrgent') /\ Cardinality(PendingUrgent') = urgentCount + 1
  BY <1>1, <1>2, FS_AddElement
<1>4. BusyAccounting'
  BY <1>1, <1>2, <1>3, Zenon DEF BusyAccounting
<1>5. OneLiveInv'
  <2>1. /\ generation \in Nat
        /\ \A d \in Pending : job[d].token \in Nat /\ job[d].token =< generation
    BY PendingFacts DEF ControlInv, TypeOK, CallerInv
  <2>2. \A d \in Pending' : job'[d].token = generation' => d = c
    BY <2>1
  <2> QED BY <2>2 DEF OneLiveInv
<1> QED BY <1>3, <1>4, <1>5 DEF Accounting

\* Settling the running job.
LEMMA AccountingFinish ==
    ASSUME ControlInv, FinishJob
    PROVE  Accounting'
<1>1. /\ current \in Pending
      /\ Pending' = Pending \ {current}
      /\ job' = job /\ generation' = generation
  BY DEF ControlInv, WorkerInv, Running, QueueInv, FinishJob, Pending, Queued, callerVars
<1>2. /\ IsFiniteSet(PendingUrgent)
      /\ urgentCount = Cardinality(PendingUrgent)
      /\ ordinaryBusy <=> PendingOrdinary # {}
      /\ \A d, e \in PendingOrdinary : d = e
      /\ urgentCount \in Nat
      /\ OneLiveInv
  BY Zenon DEF ControlInv, BusyAccounting, TypeOK
<1>3. OneLiveInv'
  BY <1>1, <1>2 DEF OneLiveInv
<1>4. CASE job[current].kind = "urgent"
  <2>1. /\ PendingUrgent' = PendingUrgent \ {current}
        /\ current \in PendingUrgent
        /\ PendingOrdinary' = PendingOrdinary
    BY <1>1, <1>4 DEF PendingUrgent, PendingOrdinary
  <2>2. IsFiniteSet(PendingUrgent') /\ Cardinality(PendingUrgent') = urgentCount - 1
    BY <1>2, <2>1, FS_RemoveElement
  <2>3. urgentCount' = urgentCount - 1 /\ ordinaryBusy' = ordinaryBusy
    BY <1>4 DEF FinishJob
  <2>4. BusyAccounting'
    BY <1>2, <2>1, <2>2, <2>3, Zenon DEF BusyAccounting
  <2> QED BY <1>3, <2>2, <2>4 DEF Accounting
<1>5. CASE job[current].kind # "urgent"
  <2>1. PendingUrgent' = PendingUrgent /\ PendingOrdinary' = {}
    BY <1>1, <1>2, <1>5 DEF PendingUrgent, PendingOrdinary
  <2>2. urgentCount' = urgentCount /\ ordinaryBusy' = FALSE
    BY <1>5 DEF FinishJob
  <2>3. BusyAccounting'
    BY <1>2, <2>1, <2>2, Zenon DEF BusyAccounting
  <2> QED BY <1>2, <1>3, <2>1, <2>3 DEF Accounting
<1> QED BY <1>4, <1>5

LEMMA AccountingStep ==
    ASSUME Step
    PROVE  Accounting'
<1>0. /\ ControlInv /\ QueueInv /\ CallerInv /\ WorkerInv /\ queue \in Seq(Callers)
      /\ current \in Callers \cup {NoCaller} /\ NoCaller \notin Callers
      /\ pc \in [Callers -> CallerStates] /\ job \in [Callers -> [kind : Kinds, token : Nat]]
      /\ Pending \subseteq Callers
      /\ \A c \in Callers : pc[c] # "waiting" => c \notin Pending
  BY CallersAssumption, PendingFacts DEF Step, ControlInv, TypeOK
<1>1. ASSUME NEW c \in Callers, SubmitOrdinary(c) PROVE Accounting'
  <2>1. Pending = {}
    <3>1. /\ IsFiniteSet(PendingUrgent)
          /\ urgentCount = Cardinality(PendingUrgent)
          /\ ordinaryBusy <=> PendingOrdinary # {}
      BY <1>0, Zenon DEF ControlInv, BusyAccounting
    <3>2. ~ordinaryBusy /\ urgentCount = 0
      BY <1>1 DEF SubmitOrdinary, OrdinaryAdmitted
    <3>3. PendingUrgent = {} /\ PendingOrdinary = {}
      BY <3>1, <3>2, FS_EmptySet, Zenon
    <3> QED BY <3>3 DEF PendingUrgent, PendingOrdinary
  <2>2. Range(queue') = Range(queue) \cup {c}
    BY <1>0, <1>1, RangeOfAppend DEF QueueInv, Pending, Queued, SubmitOrdinary, MayCall
  <2>3. Pending' = {c}
    BY <1>1, <2>1, <2>2 DEF Pending, Queued, SubmitOrdinary, workerVars
  <2>4. job'[c].kind # "urgent" /\ urgentCount' = urgentCount /\ ordinaryBusy' = TRUE
    BY <1>0, <1>1 DEF SubmitOrdinary, Push
  <2> QED BY <1>0, <2>1, <2>3, <2>4, AccountingOrdinary
<1>2. ASSUME NEW c \in Callers, SubmitUrgent(c) PROVE Accounting'
  <2>1. c \notin Pending /\ c \notin Range(queue)
    BY <1>0, <1>2 DEF SubmitUrgent, MayCall, Pending, Queued
  <2>2. Range(queue') = Range(queue) \cup {c}
    BY <1>0, <1>2, <2>1, RangeOfPush DEF QueueInv, SubmitUrgent
  <2>3. Pending' = Pending \cup {c}
    BY <1>2, <2>2 DEF Pending, Queued, SubmitUrgent, workerVars
  <2>4. /\ job'[c] = [kind |-> "urgent", token |-> generation + 1]
        /\ \A d \in Pending : job'[d] = job[d]
    BY <1>0, <1>2, <2>1 DEF SubmitUrgent, Push
  <2> QED BY <1>0, <1>2, <2>1, <2>3, <2>4, AccountingUrgent DEF SubmitUrgent
<1>3. ASSUME NEW c \in Callers, Connect(c) PROVE Accounting'
  <2>1. queue = <<>> /\ current = NoCaller /\ Range(queue) = {}
    BY <1>0, <1>3 DEF Connect, CanConnect, WorkerInv, Leaving, Range
  <2>2. Range(queue') = {c}
    <3>1. IsInjective(queue) /\ c \notin Range(queue)
      BY <1>0, <2>1 DEF QueueInv
    <3>2. Range(Append(queue, c)) = Range(queue) \cup {c}
      BY <1>0, <3>1, RangeOfAppend
    <3> QED BY <1>3, <2>1, <3>2 DEF Connect
  <2>3. Pending = {} /\ Pending' = {c}
    BY <1>3, <2>1, <2>2 DEF Pending, Queued, Connect
  <2>4. job'[c].kind # "urgent" /\ urgentCount' = urgentCount /\ ordinaryBusy' = TRUE
    BY <1>0, <1>3 DEF Connect, Push
  <2> QED BY <1>0, <2>3, <2>4, AccountingOrdinary
<1>4. ASSUME NEW c \in Callers, ConnectWithoutThread(c) PROVE Accounting'
  <2>1. queue = <<>> /\ current = NoCaller /\ Range(queue) = {}
    BY <1>0, <1>4 DEF ConnectWithoutThread, CanConnect, WorkerInv, Leaving, Range
  <2>2. Pending = {} /\ Pending' = {}
    BY <1>4, <2>1 DEF Pending, Queued, ConnectWithoutThread, workerVars
  <2>3. ~ordinaryBusy
    BY <1>0, <2>2, Zenon DEF ControlInv, BusyAccounting, PendingOrdinary
  <2>4. ordinaryBusy' = ordinaryBusy
    <3>1. ordinaryBusy \in BOOLEAN /\ ordinaryBusy' = FALSE
      BY <1>0, <1>4 DEF ControlInv, TypeOK, ConnectWithoutThread
    <3> QED BY <2>3, <3>1
  <2> QED BY <1>0, <1>4, <2>2, <2>4, AccountingQuiet DEF ConnectWithoutThread, callerVars
<1>5. ASSUME NEW c \in Callers,
             Disconnect(c) \/ LockLifecycle(c) \/ BeginClosing(c) \/ Join(c)
      PROVE  Accounting'
  <2>1. pc[c] # "waiting" /\ c \notin Pending
    BY <1>0, <1>5 DEF Disconnect, MayCall, LockLifecycle, BeginClosing, Join
  <2>2. Pending' = Pending
    BY <1>0, <1>5 DEF Disconnect, LockLifecycle, BeginClosing, Join, queueVars, workerVars,
       Pending, Queued, WorkerInv
  <2>3. \A d \in Pending : job'[d] = job[d]
    BY <1>0, <1>5, <2>1 DEF Disconnect, LockLifecycle, BeginClosing, Join
  <2>4. /\ urgentCount' = urgentCount /\ ordinaryBusy' = ordinaryBusy
        /\ generation' = generation \/ generation' = generation + 1
    BY <1>5 DEF Disconnect, LockLifecycle, BeginClosing, Join, queueVars
  <2> QED BY <1>0, <2>2, <2>3, <2>4, AccountingQuiet
<1>6. ASSUME Pop PROVE Accounting'
  <2>1. current = NoCaller
    BY <1>0, <1>6 DEF Pop, WorkerInv
  <2>2. /\ Range(queue') = Range(queue) \ {current'}
        /\ current' \in Range(queue) /\ current' # NoCaller
    BY <1>0, <1>6, RangeOfTail, PendingFacts DEF Pop, QueueInv
  <2>3. Pending' = Pending
    BY <1>6, <2>1, <2>2 DEF Pop, Pending, Queued
  <2> QED BY <1>0, <1>6, <2>3, AccountingQuiet DEF Pop, callerVars
<1>7. ASSUME FinishJob PROVE Accounting'
  BY <1>0, <1>7, AccountingFinish
<1>8. ASSUME Deliver PROVE Accounting'
  <2>1. Pending' = Pending /\ current \in Callers /\ current \notin Pending
    BY <1>0, <1>8 DEF Deliver, Pending, Queued, QueueInv, WorkerInv, Running, queueVars
  <2>2. \A d \in Pending : job'[d] = job[d]
    BY <1>0, <1>8, <2>1 DEF Deliver
  <2> QED BY <1>0, <1>8, <2>1, <2>2, AccountingQuiet DEF Deliver, queueVars
<1>9. ASSUME \/ LeaveLoop \/ StartJob \/ IssueCommand \/ CheckCancelled \/ OpenDevice
             \/ ConfigureFeedback \/ Publish \/ ConfirmOpen \/ Unpublish \/ CloseSession
             \/ ReleaseOwner \/ OtherAcquire \/ OtherRelease \/ UNCHANGED vars
      PROVE  Accounting'
  <2>1. /\ UNCHANGED <<queue, current, job, generation, urgentCount, ordinaryBusy>>
        /\ worker' = worker \/ (worker # "deliver" /\ worker' # "deliver")
    BY <1>9 DEF LeaveLoop, StartJob, IssueCommand, CheckCancelled, OpenDevice,
       ConfigureFeedback, Publish, ConfirmOpen, Unpublish, CloseSession, ReleaseOwner,
       OtherAcquire, OtherRelease, workerOnly, vars, queueVars, workerVars, callerVars
  <2>2. Pending' = Pending
    BY <2>1 DEF Pending, Queued
  <2> QED BY <1>0, <2>1, <2>2, AccountingQuiet
<1> QED BY <1>1, <1>2, <1>3, <1>4, <1>5, <1>6, <1>7, <1>8, <1>9, NextCases

-----------------------------------------------------------------------------
(* The theorems                                                             *)

LEMMA ControlInit == Init => ControlInv
<1> SUFFICES ASSUME Init PROVE ControlInv
  OBVIOUS
<1>1. TypeOK
  BY EmptySeq DEF Init, TypeOK, NoJob, Kinds, CallerStates, WorkerStates, Owners
<1>2. Range(queue) = {} /\ Pending = {} /\ PendingUrgent = {} /\ PendingOrdinary = {}
  BY DEF Init, Range, Pending, Queued, PendingUrgent, PendingOrdinary
<1>3. QueueInv /\ CallerInv
  BY <1>2, CallersAssumption DEF Init, QueueInv, CallerInv, IsInjective, NoJob
<1>4. WorkerInv /\ OneLiveInv /\ IssuedInv
  BY <1>2 DEF Init, WorkerInv, Leaving, Running, OneLiveInv, IssuedInv
<1>5. IsFiniteSet(PendingUrgent) /\ Cardinality(PendingUrgent) = 0
  BY <1>2, FS_EmptySet
<1>6. BusyAccounting
  <2>1. ordinaryBusy = FALSE /\ urgentCount = 0
    BY DEF Init
  <2> QED BY <1>2, <1>5, <2>1, Zenon DEF BusyAccounting
<1> QED BY <1>1, <1>3, <1>4, <1>5, <1>6 DEF ControlInv

\* ControlInv holds in every reachable state, for any callers and any bounds.
THEOREM Invariance == Spec => []ControlInv
<1>1. ControlInv /\ [Next]_vars => ControlInv'
  <2> SUFFICES ASSUME Step PROVE ControlInv'
    BY DEF Step
  <2> QED BY TypeStep, QueueStep, WorkerStep, AccountingStep, IssuedStep
          DEF ControlInv, Accounting
<1> QED BY <1>1, ControlInit, PTL DEF Spec

\* Every variable keeps its type; in particular urgent_count, which is unsigned in
\* the code, is never decremented below zero.
THEOREM TypeCorrect == Spec => []TypeOK
<1>1. ControlInv => TypeOK
  BY DEF ControlInv
<1> QED BY <1>1, Invariance, PTL

\* The busy flag and the urgent counter always tell which jobs are pending.
THEOREM BusyAccountingCorrect == Spec => []BusyAccounting
<1>1. ControlInv => BusyAccounting
  BY DEF ControlInv
<1> QED BY <1>1, Invariance, PTL

\* Never two pending jobs that are both allowed to run.
THEOREM AtMostOneLiveCorrect == Spec => []AtMostOneLive
<1>1. ControlInv => AtMostOneLive
  BY DEF ControlInv, OneLiveInv, AtMostOneLive, Live, Cancelled
<1> QED BY <1>1, Invariance, PTL

\* Commands are issued in token order: no command of a preempted job follows one of
\* the job that preempted it.
THEOREM TokenOrderCorrect == Spec => TokenOrder
<1>1. ControlInv /\ [Next]_vars => [issued' >= issued]_vars
  <2> SUFFICES ASSUME Step PROVE issued' >= issued
    BY DEF Step
  <2> QED BY IssuedStep
<1> QED BY <1>1, Invariance, PTL DEF Spec, TokenOrder

-----------------------------------------------------------------------------
(* The connection side. It builds on ControlInv.                             *)

\* The job of a connect that has not touched the device yet.
Opening(c) ==
    /\ job[c].kind = "connect"
    /\ \/ c \in Range(queue)
       \/ c = current /\ worker \in {"start", "open"}

DeviceInv ==
    /\ session => owner = "self"
    /\ connected => session
    /\ worker \in {"none", "release", "done"} => ~session
    /\ worker \in {"none", "done"} => owner # "self"
    /\ worker \in {"configure", "publish", "confirm"} => session
    /\ worker \in {"open", "configure", "publish", "confirm"} => job[current].kind = "connect"
    /\ worker \in {"unpublish", "close", "release"} /\ current # NoCaller
         => job[current].kind = "connect"
    /\ \A c \in Callers : Opening(c) => owner = "self" /\ ~connected

\* One connect at a time; those that failed earlier have older tokens, and the
\* newest of them left nothing published.
Connecting(c) == pc[c] = "waiting" /\ job[c].kind = "connect"

FailedInv ==
    /\ \A c \in Callers : pc[c] \in {"update", "join"} <=> lifecycle = c
    /\ \A c, d \in Callers : Connecting(c) /\ Connecting(d) => c = d
    /\ \A c, d \in Callers :
          pc[c] \in {"lock", "update"} /\ job[c].token # 0 /\ Connecting(d)
            => job[c].token < job[d].token
    /\ worker \in {"call", "check"} => job[current].kind # "connect"
    /\ worker \in {"finish", "deliver"} /\ job[current].kind = "connect" /\ ~ok => ~connected
    /\ \A c \in Callers : pc[c] \in {"lock", "update"} /\ job[c].token # 0
                          /\ generation = job[c].token => ~connected
    /\ \A c \in Callers : pc[c] = "update" /\ job[c].token # 0 => generation = job[c].token

PriorityInv ==
    \A c \in Range(queue) :
        job[c].token = generation /\ job[c].kind = "urgent" => queue[1] = c

\* Between two jobs, or during one that is no connect, with no connect waiting.
Resting ==
    /\ \/ worker = "wait"
       \/ /\ worker \in {"start", "call", "check", "finish", "deliver"}
          /\ job[current].kind # "connect"
    /\ \A c \in Range(queue) : job[c].kind # "connect"

\* About to disconnect on behalf of a failed connect that nothing has overtaken.
Failing(c) == pc[c] \in {"lock", "update"} /\ job[c].token = generation

\* A hand that stops being connected without a disconnect has given everything
\* back, or the connect that failed is about to.
ReleaseInv ==
    /\ workerExit /\ worker # "none" => \E c \in Callers : pc[c] = "join"
    /\ closing <=> workerExit
    /\ worker \in {"start", "open", "configure", "publish", "confirm", "unpublish", "close",
                   "release"} /\ current # NoCaller => ~ok
    /\ ~workerExit => \A c \in Callers : Opening(c) => job[c].token = generation
    /\ ~workerExit /\ worker = "confirm" => connected
    /\ ~workerExit /\ worker \in {"finish", "deliver"} /\ job[current].kind = "connect" =>
          /\ ok => connected
          /\ ~ok => ~session /\ (owner = "self" => job[current].token = generation)
    /\ ~workerExit /\ ~connected /\ Resting =>
          ~session /\ (owner = "self" => \E c \in Callers : Failing(c))

-----------------------------------------------------------------------------
(* Facts about the jobs in flight                                           *)

\* What the steps need of the control invariant, spelled out.
LEMMA FlightFacts ==
    ASSUME ControlInv
    PROVE  /\ NoCaller \notin Callers
           /\ current \in Callers \cup {NoCaller}
           /\ current \notin Range(queue)
           /\ Range(queue) \subseteq Callers
           /\ pc \in [Callers -> CallerStates]
           /\ job \in [Callers -> [kind : Kinds, token : Nat]]
           /\ generation \in Nat
           /\ \A c \in Callers : /\ pc[c] = "waiting" <=> c \in Range(queue) \/ c = current
                                 /\ job[c].token =< generation
           /\ worker \in Running => current \in Callers /\ pc[current] = "waiting"
           /\ worker \in {"none", "wait", "done"} => current = NoCaller
           /\ worker \in {"none", "done"} => queue = <<>> /\ Range(queue) = {}
           /\ worker \in {"none", "close", "release", "done"} => ~connected
BY CallersAssumption, RangeOfSeq
   DEF ControlInv, TypeOK, QueueInv, CallerInv, WorkerInv, Leaving, Range

\* While the worker runs the job of a connect, the queue holds no other connect.
LEMMA OneConnectPending ==
    ASSUME ControlInv, current \in Callers, worker # "deliver",
           job[current].kind = "connect",
           NEW c \in Range(queue)
    PROVE  job[c].kind # "connect"
<1> SUFFICES ASSUME job[c].kind = "connect" PROVE FALSE
  OBVIOUS
<1>1. c \in PendingOrdinary /\ current \in PendingOrdinary /\ c # current
  BY FlightFacts DEF PendingOrdinary, PendingUrgent, Pending, Queued
<1>2. \A d, e \in PendingOrdinary : d = e
  BY Zenon DEF ControlInv, BusyAccounting
<1> QED BY <1>1, <1>2

\* What a step does to the queue, seen as a set of callers.
LEMMA QueueGrows ==
    ASSUME ControlInv, NEW c \in Callers,
           SubmitOrdinary(c) \/ SubmitUrgent(c) \/ Connect(c)
    PROVE  /\ Range(queue') = Range(queue) \cup {c}
           /\ c \notin Range(queue) /\ c # current
<1>1. queue \in Seq(Callers) /\ IsInjective(queue)
  BY DEF ControlInv, TypeOK, QueueInv
<1>2. c \notin Range(queue) /\ c # current
  BY FlightFacts DEF SubmitOrdinary, SubmitUrgent, Connect, CanConnect, MayCall
<1>3. SubmitOrdinary(c) \/ Connect(c) => Range(queue') = Range(queue) \cup {c}
  <2>1. SubmitOrdinary(c) \/ Connect(c) => queue' = Append(queue, c)
    BY DEF SubmitOrdinary, Connect
  <2>2. Range(Append(queue, c)) = Range(queue) \cup {c}
    BY <1>1, <1>2, RangeOfAppend
  <2> QED BY <2>1, <2>2
<1>4. SubmitUrgent(c) => Range(queue') = Range(queue) \cup {c}
  BY <1>1, <1>2, RangeOfPush DEF SubmitUrgent
<1> QED BY <1>2, <1>3, <1>4

LEMMA QueueShrinks ==
    ASSUME ControlInv, Pop
    PROVE  /\ current' = Head(queue)
           /\ current' \in Range(queue)
           /\ Range(queue') = Range(queue) \ {current'}
BY RangeOfTail DEF Pop, ControlInv, TypeOK, QueueInv

-----------------------------------------------------------------------------
(* The session and the device                                               *)

LEMMA DeviceStep ==
    ASSUME Step, DeviceInv
    PROVE  DeviceInv'
<1> USE DEF DeviceInv, Opening
<1>0. ControlInv /\ DeviceInv
  BY DEF Step
<1>1. ASSUME NEW c \in Callers, SubmitOrdinary(c) PROVE DeviceInv'
  BY <1>0, <1>1, FlightFacts, QueueGrows
     DEF SubmitOrdinary, Accepting, Push, flagVars, deviceVars, workerVars, Running
<1>2. ASSUME NEW c \in Callers, SubmitUrgent(c) PROVE DeviceInv'
  BY <1>0, <1>2, FlightFacts, QueueGrows
     DEF SubmitUrgent, Accepting, Push, flagVars, deviceVars, workerVars, Running
<1>3. ASSUME NEW c \in Callers, Connect(c) PROVE DeviceInv'
  BY <1>0, <1>3, FlightFacts, QueueGrows DEF Connect, CanConnect, Push
<1>4. ASSUME NEW c \in Callers, ConnectWithoutThread(c) PROVE DeviceInv'
  <2>1. worker' = "none" /\ Range(queue') = {}
    BY <1>4 DEF ConnectWithoutThread, CanConnect, workerVars, Range
  <2> QED BY <1>0, <1>4, <2>1, FlightFacts DEF ConnectWithoutThread, CanConnect, workerVars, callerVars
<1>5. ASSUME NEW c \in Callers, Disconnect(c) \/ LockLifecycle(c) PROVE DeviceInv'
  <2>1. /\ pc[c] # "waiting"
        /\ UNCHANGED <<connected, queue, session, owner, worker, current>>
        /\ \A d \in Callers : d # c => job'[d] = job[d]
    BY <1>0, <1>5, FlightFacts
       DEF Disconnect, MayCall, LockLifecycle, flagVars, queueVars, deviceVars, workerVars
  <2> QED BY <1>0, <2>1, FlightFacts DEF Running
<1>6. ASSUME NEW c \in Callers, BeginClosing(c) PROVE DeviceInv'
  BY <1>0, <1>6 DEF BeginClosing, queueVars, deviceVars, workerVars
<1>7. ASSUME NEW c \in Callers, Join(c) PROVE DeviceInv'
  BY <1>0, <1>7, FlightFacts DEF Join, flagVars, queueVars, deviceVars
<1>8. ASSUME Pop PROVE DeviceInv'
  <2>1. /\ current' \in Range(queue) /\ Range(queue') \subseteq Range(queue)
        /\ current' \in Callers
    BY <1>0, <1>8, FlightFacts, QueueShrinks
  <2> QED BY <1>0, <1>8, <2>1 DEF Pop, flagVars, deviceVars, callerVars
<1>9. ASSUME LeaveLoop \/ StartJob \/ IssueCommand \/ CheckCancelled PROVE DeviceInv'
  BY <1>0, <1>9, FlightFacts DEF LeaveLoop, StartJob, IssueCommand, CheckCancelled, workerOnly,
     flagVars, queueVars, deviceVars, callerVars
<1>10. ASSUME OpenDevice PROVE DeviceInv'
  <2>1. current \in Callers /\ Opening(current)
    BY <1>0, <1>10, FlightFacts DEF OpenDevice, Running
  <2>2. owner = "self" /\ ~connected
    BY <1>0, <2>1
  <2> QED BY <1>0, <1>10, <2>1, <2>2 DEF OpenDevice, flagVars, queueVars, callerVars
<1>11. ASSUME ConfigureFeedback \/ ConfirmOpen PROVE DeviceInv'
  BY <1>0, <1>11, FlightFacts DEF ConfigureFeedback, ConfirmOpen, workerOnly, flagVars,
     queueVars, deviceVars, callerVars, Running
<1>12. ASSUME Publish PROVE DeviceInv'
  <2>1. /\ worker = "publish" /\ current \in Callers /\ job[current].kind = "connect"
    BY <1>0, <1>12, FlightFacts DEF Publish, Running
  <2>2. \A c \in Range(queue) : job[c].kind # "connect"
    BY <1>0, <2>1, OneConnectPending
  <2> QED BY <1>0, <1>12, <2>1, <2>2 DEF Publish, queueVars, deviceVars, callerVars
<1>13. ASSUME Unpublish PROVE DeviceInv'
  BY <1>0, <1>13, FlightFacts DEF Unpublish, queueVars, deviceVars, callerVars
<1>14. ASSUME CloseSession PROVE DeviceInv'
  BY <1>0, <1>14, FlightFacts DEF CloseSession, flagVars, queueVars, callerVars
<1>15. ASSUME ReleaseOwner PROVE DeviceInv'
  <2>1. ~session /\ ~connected /\ worker = "release"
    BY <1>0, <1>15, FlightFacts DEF ReleaseOwner
  <2>2. \A c \in Range(queue) : job[c].kind # "connect"
    <3>1. CASE current = NoCaller
      BY <1>0, <2>1, <3>1 DEF ControlInv, WorkerInv, Leaving, Range
    <3>2. CASE current \in Callers
      BY <1>0, <2>1, <3>2, OneConnectPending, FlightFacts
    <3> QED BY <1>0, <3>1, <3>2, FlightFacts
  <2> QED BY <1>0, <1>15, <2>1, <2>2 DEF ReleaseOwner, flagVars, queueVars, callerVars, Owners
<1>16. ASSUME FinishJob \/ Deliver PROVE DeviceInv'
  <2>1. /\ worker \in {"finish", "deliver"} /\ worker' \in {"wait", "deliver"}
        /\ UNCHANGED <<connected, queue, session, owner>>
        /\ \A d \in Callers : d \in Range(queue) => job'[d] = job[d]
    BY <1>0, <1>16, FlightFacts
       DEF FinishJob, Deliver, flagVars, queueVars, deviceVars, callerVars, Running
  <2> QED BY <1>0, <2>1
<1>17. ASSUME OtherAcquire \/ OtherRelease \/ UNCHANGED vars PROVE DeviceInv'
  BY <1>0, <1>17 DEF OtherAcquire, OtherRelease, vars, flagVars, queueVars, deviceVars,
     workerVars, callerVars
<1> HIDE DEF DeviceInv
<1> QED BY <1>1, <1>2, <1>3, <1>4, <1>5, <1>6, <1>7, <1>8, <1>9, <1>10, <1>11, <1>12,
        <1>13, <1>14, <1>15, <1>16, <1>17, NextCases

-----------------------------------------------------------------------------
(* The clean-up of a failed connect                                         *)

LEMMA FailedStep ==
    ASSUME Step, DeviceInv, FailedInv
    PROVE  FailedInv'
<1> USE DEF FailedInv, Connecting
<1>0. ControlInv /\ DeviceInv /\ FailedInv
  BY DEF Step
<1>1. ASSUME NEW c \in Callers, SubmitOrdinary(c) PROVE FailedInv'
  <2>1. /\ pc[c] = "idle" /\ connected
        /\ UNCHANGED <<generation, connected, ok, worker, current, lifecycle>>
        /\ \A d \in Callers : /\ pc'[d] = IF d = c THEN "waiting" ELSE pc[d]
                              /\ d # c => job'[d] = job[d]
        /\ job'[c].kind = "ordinary"
    BY <1>0, <1>1, FlightFacts
       DEF SubmitOrdinary, MayCall, Accepting, Push, flagVars, workerVars
  <2>2. worker \in Running => current \in Callers /\ job'[current] = job[current]
    BY <1>0, <2>1, FlightFacts
  <2> QED BY <1>0, <2>1, <2>2 DEF Running
<1>2. ASSUME NEW c \in Callers, SubmitUrgent(c) PROVE FailedInv'
  <2>1. /\ pc[c] = "idle" /\ connected
        /\ UNCHANGED <<connected, ok, worker, current, lifecycle>>
        /\ generation' = generation + 1
        /\ \A d \in Callers : /\ pc'[d] = IF d = c THEN "waiting" ELSE pc[d]
                              /\ d # c => job'[d] = job[d]
        /\ job'[c].kind = "urgent"
    BY <1>0, <1>2, FlightFacts
       DEF SubmitUrgent, MayCall, Accepting, Push, flagVars, workerVars
  <2>2. worker \in Running => current \in Callers /\ job'[current] = job[current]
    BY <1>0, <2>1, FlightFacts
  <2>3. \A d \in Callers : job[d].token \in Nat /\ job[d].token =< generation /\ generation \in Nat
    BY <1>0, FlightFacts
  <2> QED BY <1>0, <2>1, <2>2, <2>3 DEF Running
<1>3. ASSUME NEW c \in Callers, Connect(c) PROVE FailedInv'
  <2>1. /\ pc[c] = "idle" /\ worker = "none" /\ worker' = "wait" /\ ~connected
        /\ lifecycle = NoCaller
        /\ UNCHANGED <<connected, lifecycle>>
        /\ generation' = generation + 1
        /\ \A d \in Callers : /\ pc'[d] = IF d = c THEN "waiting" ELSE pc[d]
                              /\ d # c => job'[d] = job[d]
        /\ job'[c] = [kind |-> "connect", token |-> generation + 1]
    BY <1>0, <1>3, FlightFacts DEF Connect, CanConnect, MayCall, Push
  <2>2. \A d \in Callers : pc[d] # "waiting"
    BY <1>0, <2>1, FlightFacts
  <2>3. \A d \in Callers : job[d].token \in Nat /\ job[d].token =< generation /\ generation \in Nat
    BY <1>0, FlightFacts
  <2> QED BY <1>0, <2>1, <2>2, <2>3, FlightFacts
<1>4. ASSUME NEW c \in Callers, ConnectWithoutThread(c) PROVE FailedInv'
  <2>1. /\ worker' = "none" /\ lifecycle = NoCaller /\ ~connected'
        /\ UNCHANGED <<pc, job, lifecycle>>
        /\ generation' = generation + 1
    BY <1>4 DEF ConnectWithoutThread, CanConnect, workerVars, callerVars
  <2>2. \A d \in Callers : pc[d] # "update"
    BY <1>0, <2>1, FlightFacts
  <2> QED BY <1>0, <2>1, <2>2
<1>5. ASSUME NEW c \in Callers, Disconnect(c) PROVE FailedInv'
  <2>1. /\ pc[c] = "idle"
        /\ UNCHANGED <<generation, connected, ok, worker, current, lifecycle>>
        /\ \A d \in Callers : /\ pc'[d] = IF d = c THEN "lock" ELSE pc[d]
                              /\ d # c => job'[d] = job[d]
        /\ job'[c] = [kind |-> "disconnect", token |-> 0]
    BY <1>0, <1>5, FlightFacts DEF Disconnect, MayCall, flagVars, workerVars
  <2>2. worker \in Running => current \in Callers /\ job'[current] = job[current]
    BY <1>0, <2>1, FlightFacts
  <2>3. \A d \in Callers : Connecting(d)' <=> d # c /\ Connecting(d)
    BY <1>0, <2>1, FlightFacts
  <2>4. \A d \in Callers : pc'[d] \in {"lock", "update"} /\ job'[d].token # 0
                            => d # c /\ pc[d] \in {"lock", "update"}
    BY <2>1
  <2>5. worker \in {"call", "check", "finish", "deliver"} => job'[current] = job[current]
    BY <2>2 DEF Running
  <2> QED BY <1>0, <2>1, <2>3, <2>4, <2>5
<1>6. ASSUME NEW c \in Callers, LockLifecycle(c) PROVE FailedInv'
  <2>1. /\ pc[c] = "lock" /\ lifecycle = NoCaller
        /\ UNCHANGED <<generation, connected, ok, worker, current>>
        /\ \A d \in Callers : d # c => pc'[d] = pc[d] /\ job'[d] = job[d]
        /\ \/ /\ StillExpected(c) /\ lifecycle' = c
              /\ pc'[c] = "update" /\ job'[c] = job[c]
           \/ lifecycle' = NoCaller /\ pc'[c] = "idle"
    BY <1>0, <1>6, FlightFacts DEF LockLifecycle, flagVars, workerVars
  <2>2. worker \in Running => current \in Callers /\ job'[current] = job[current]
    BY <1>0, <2>1, FlightFacts
  <2> QED BY <1>0, <2>1, <2>2, FlightFacts DEF Running, StillExpected
<1>7. ASSUME NEW c \in Callers, BeginClosing(c) PROVE FailedInv'
  <2>1. /\ pc[c] = "update" /\ lifecycle = c /\ ~connected'
        /\ UNCHANGED <<ok, worker, current, lifecycle, job>>
        /\ \A d \in Callers : pc'[d] = IF d = c THEN "join" ELSE pc[d]
    BY <1>0, <1>7, FlightFacts DEF BeginClosing, workerVars
  <2> QED BY <1>0, <2>1
<1>8. ASSUME NEW c \in Callers, Join(c) PROVE FailedInv'
  <2>1. /\ pc[c] = "join" /\ lifecycle = c /\ lifecycle' = NoCaller /\ worker' = "none"
        /\ UNCHANGED <<generation, connected>>
        /\ \A d \in Callers : /\ pc'[d] = IF d = c THEN "idle" ELSE pc[d]
                              /\ d # c => job'[d] = job[d]
    BY <1>0, <1>8, FlightFacts DEF Join, flagVars
  <2> QED BY <1>0, <2>1, FlightFacts
<1>9. ASSUME Pop \/ LeaveLoop PROVE FailedInv'
  BY <1>0, <1>9 DEF Pop, LeaveLoop, flagVars, callerVars
<1>10. ASSUME StartJob PROVE FailedInv'
  <2>1. current \in Callers /\ (job[current].kind = "connect" => ~connected)
    BY <1>0, <1>10, FlightFacts DEF StartJob, Running, DeviceInv, Opening
  <2> QED BY <1>0, <1>10, <2>1 DEF StartJob, workerOnly, flagVars, callerVars
<1>11. ASSUME IssueCommand \/ CheckCancelled \/ OpenDevice \/ ConfigureFeedback PROVE FailedInv'
  <2>1. CASE OpenDevice
    <3>1. current \in Callers /\ ~connected
      BY <1>0, <2>1, FlightFacts DEF OpenDevice, Running, DeviceInv, Opening
    <3> QED BY <1>0, <2>1, <3>1 DEF OpenDevice, flagVars, callerVars
  <2>2. CASE IssueCommand \/ CheckCancelled \/ ConfigureFeedback
    BY <1>0, <2>2 DEF IssueCommand, CheckCancelled, ConfigureFeedback, workerOnly, flagVars,
       callerVars
  <2> QED BY <1>11, <2>1, <2>2
<1>12. ASSUME Publish PROVE FailedInv'
  <2>1. /\ current \in Callers /\ Connecting(current) /\ job[current].token =< generation
        /\ worker' = "confirm"
        /\ UNCHANGED <<generation, lifecycle, pc, job>>
    BY <1>0, <1>12, FlightFacts DEF Publish, Running, DeviceInv, callerVars
  <2>2. \A c \in Callers : pc[c] \in {"lock", "update"} /\ job[c].token # 0
                            => generation # job[c].token
    BY <1>0, <2>1, FlightFacts
  <2> QED BY <1>0, <2>1, <2>2
<1>13. ASSUME ConfirmOpen \/ Unpublish \/ CloseSession PROVE FailedInv'
  BY <1>0, <1>13 DEF ConfirmOpen, Unpublish, CloseSession, workerOnly, flagVars, callerVars
<1>14. ASSUME ReleaseOwner \/ FinishJob PROVE FailedInv'
  BY <1>0, <1>14, FlightFacts DEF ReleaseOwner, FinishJob, flagVars, callerVars
<1>15. ASSUME Deliver PROVE FailedInv'
  <2>1. /\ current \in Callers /\ pc[current] = "waiting" /\ worker = "deliver"
        /\ worker' = "wait"
        /\ UNCHANGED <<generation, connected, lifecycle>>
        /\ \A d \in Callers : d # current => pc'[d] = pc[d] /\ job'[d] = job[d]
        /\ \/ /\ job[current].kind = "connect" /\ ~ok
              /\ pc'[current] = "lock" /\ job'[current] = job[current]
           \/ pc'[current] = "idle"
    BY <1>0, <1>15, FlightFacts DEF Deliver, Running, flagVars
  <2>2. CASE job[current].kind = "connect" /\ ~ok
    <3>1. ~connected
      BY <1>0, <2>1, <2>2
    <3>2. \A d \in Callers : d # current => ~Connecting(d)
      BY <1>0, <2>1, <2>2
    <3> QED BY <1>0, <2>1, <3>1, <3>2, FlightFacts
  <2>3. CASE pc'[current] = "idle"
    BY <1>0, <2>1, <2>3, FlightFacts
  <2> QED BY <2>1, <2>2, <2>3
<1>16. ASSUME OtherAcquire \/ OtherRelease \/ UNCHANGED vars PROVE FailedInv'
  BY <1>0, <1>16 DEF OtherAcquire, OtherRelease, vars, flagVars, workerVars, callerVars
<1> HIDE DEF FailedInv
<1> QED BY <1>1, <1>2, <1>3, <1>4, <1>5, <1>6, <1>7, <1>8, <1>9, <1>10, <1>11, <1>12,
        <1>13, <1>14, <1>15, <1>16, NextCases

-----------------------------------------------------------------------------
(* The device of a hand that is not connected                               *)

LEMMA ReleaseStep ==
    ASSUME Step, DeviceInv, FailedInv, ReleaseInv
    PROVE  ReleaseInv'
<1> USE DEF ReleaseInv, Opening, Resting, Failing
<1>0. ControlInv /\ DeviceInv /\ FailedInv /\ ReleaseInv
  BY DEF Step
<1>1. ASSUME NEW c \in Callers, SubmitOrdinary(c) \/ SubmitUrgent(c) PROVE ReleaseInv'
  <2>1. /\ pc[c] = "idle" /\ connected /\ connected' /\ ~workerExit /\ ~closing
        /\ UNCHANGED <<closing, connected, workerExit, session, owner, worker, current, ok>>
        /\ Range(queue') = Range(queue) \cup {c} /\ c # current
        /\ \A d \in Callers : d # c => pc'[d] = pc[d] /\ job'[d] = job[d]
        /\ job'[c].kind # "connect"
    <3>1. Range(queue') = Range(queue) \cup {c} /\ c # current
      BY <1>0, <1>1, QueueGrows
    <3>2. CASE SubmitOrdinary(c)
      BY <1>0, <3>1, <3>2, FlightFacts
         DEF SubmitOrdinary, MayCall, Accepting, Push, flagVars, deviceVars, workerVars
    <3>3. CASE SubmitUrgent(c)
      BY <1>0, <3>1, <3>3, FlightFacts
         DEF SubmitUrgent, MayCall, Accepting, Push, flagVars, deviceVars, workerVars
    <3> QED
      BY <1>1, <3>2, <3>3
  <2>2. \A d \in Callers : ~Opening(d)
    BY <1>0, <2>1 DEF DeviceInv
  <2>3. \A d \in Callers : ~Opening(d)'
    BY <1>0, <2>1, <2>2, FlightFacts
  <2>4. worker \in {"finish", "deliver"} => current \in Callers /\ job'[current] = job[current]
    BY <1>0, <2>1, FlightFacts DEF Running
  <2>5. worker \in {"finish", "deliver"} /\ job[current].kind = "connect" => ok
    BY <1>0, <2>1 DEF FailedInv
  <2> QED
    BY <1>0, <2>1, <2>3, <2>4, <2>5
<1>2. ASSUME NEW c \in Callers, Connect(c) PROVE ReleaseInv'
  <2>1. /\ worker' = "wait" /\ ~workerExit' /\ ~closing'
        /\ Range(queue') = {c}
        /\ job'[c] = [kind |-> "connect", token |-> generation']
        /\ current' = NoCaller
    BY <1>0, <1>2, FlightFacts, QueueGrows DEF Connect, CanConnect, Push
  <2> QED
    BY <1>0, <2>1
<1>3. ASSUME NEW c \in Callers, ConnectWithoutThread(c) PROVE ReleaseInv'
  <2>1. /\ worker' = "none" /\ ~workerExit' /\ ~closing' /\ Range(queue') = {}
    BY <1>3 DEF ConnectWithoutThread, CanConnect, workerVars, Range
  <2> QED
    BY <1>0, <2>1
<1>4. ASSUME NEW c \in Callers, Disconnect(c) \/ LockLifecycle(c) PROVE ReleaseInv'
  <2>1. /\ pc[c] \in {"idle", "lock"} /\ pc'[c] # "join" /\ c # current /\ c \notin Range(queue)
        /\ UNCHANGED <<generation, closing, connected, workerExit, queue, session, owner,
                       worker, current, ok>>
        /\ \A d \in Callers : d # c => pc'[d] = pc[d] /\ job'[d] = job[d]
        /\ Failing(c) => pc'[c] = "update" /\ job'[c] = job[c]
    BY <1>0, <1>4, FlightFacts
       DEF Disconnect, MayCall, LockLifecycle, StillExpected, flagVars, queueVars, deviceVars,
           workerVars
  <2>2. worker \in {"start", "open", "call", "check", "finish", "deliver"} =>
            current \in Callers /\ job'[current] = job[current]
    BY <1>0, <2>1, FlightFacts DEF Running
  <2>3. \A d \in Range(queue) : d \in Callers /\ job'[d] = job[d]
    BY <1>0, <2>1, FlightFacts
  <2>4. Resting' => Resting
    BY <2>1, <2>2, <2>3
  <2>5. \A d \in Callers : Opening(d)' => Opening(d) /\ job'[d] = job[d]
    BY <2>1, <2>2, <2>3
  <2>6. \A d \in Callers : Failing(d) => Failing(d)'
    BY <2>1
  <2>7. \A d \in Callers : pc[d] = "join" => pc'[d] = "join"
    BY <2>1
  <2> QED
    BY <1>0, <2>1, <2>2, <2>4, <2>5, <2>6, <2>7
<1>5. ASSUME NEW c \in Callers, BeginClosing(c) PROVE ReleaseInv'
  <2>1. workerExit' /\ closing' /\ pc'[c] = "join" /\ UNCHANGED <<worker, current, ok>>
    BY <1>0, <1>5, FlightFacts DEF BeginClosing, workerVars
  <2> QED
    BY <1>0, <2>1
<1>6. ASSUME NEW c \in Callers, Join(c) PROVE ReleaseInv'
  <2>1. worker' = "none" /\ UNCHANGED <<closing, workerExit, queue>> /\ Range(queue) = {}
    BY <1>0, <1>6, FlightFacts DEF Join, flagVars, queueVars
  <2> QED
    BY <1>0, <2>1
<1>7. ASSUME Pop PROVE ReleaseInv'
  <2>1. /\ current' \in Range(queue) /\ current' \in Callers
        /\ Range(queue') = Range(queue) \ {current'}
        /\ worker = "wait" /\ worker' = "start" /\ ~ok'
        /\ UNCHANGED <<generation, closing, connected, workerExit, session, owner, pc, job>>
    BY <1>0, <1>7, FlightFacts, QueueShrinks DEF Pop, flagVars, deviceVars, callerVars
  <2>2. Resting' => Resting
    BY <2>1
  <2>3. \A d \in Callers : Opening(d)' => Opening(d)
    BY <2>1
  <2> QED
    BY <1>0, <2>1, <2>2, <2>3
<1>8. ASSUME LeaveLoop PROVE ReleaseInv'
  BY <1>0, <1>8, FlightFacts DEF LeaveLoop, flagVars, queueVars, deviceVars, callerVars
<1>9. ASSUME StartJob PROVE ReleaseInv'
  <2>1. /\ worker = "start" /\ current \in Callers
        /\ worker' = IF Cancelled(Token) THEN "finish"
                     ELSE IF job[current].kind = "connect" THEN "open" ELSE "call"
        /\ UNCHANGED <<generation, closing, connected, workerExit, queue, session, owner,
                       current, ok, pc, job>>
    BY <1>0, <1>9, FlightFacts DEF StartJob, workerOnly, flagVars, queueVars, deviceVars,
       callerVars, Running
  <2>2. CASE job[current].kind = "connect"
    <3>1. ~workerExit => job[current].token = generation /\ ~closing
      BY <1>0, <2>1, <2>2
    <3>2. ~workerExit => worker' = "open"
      BY <2>1, <2>2, <3>1 DEF Cancelled, Token
    <3>3. \A d \in Callers : Opening(d)' => Opening(d)
      BY <2>1, <2>2
    <3> QED
      BY <1>0, <2>1, <3>2, <3>3
  <2>3. CASE job[current].kind # "connect"
    <3>1. worker' \in {"finish", "call"} /\ (Resting' => Resting)
      BY <2>1, <2>3
    <3>2. \A d \in Callers : Opening(d)' => Opening(d)
      BY <2>1, <2>3
    <3> QED
      BY <1>0, <2>1, <2>3, <3>1, <3>2
  <2> QED
    BY <2>2, <2>3
<1>10. ASSUME IssueCommand \/ CheckCancelled PROVE ReleaseInv'
  <2>1. /\ worker \in {"call", "check"} /\ worker' \in {"call", "check", "finish"}
        /\ UNCHANGED <<generation, closing, connected, workerExit, queue, session, owner,
                       current, pc, job>>
    BY <1>10 DEF IssueCommand, CheckCancelled, workerOnly, flagVars, queueVars, deviceVars,
       callerVars
  <2>2. job[current].kind # "connect"
    BY <1>0, <2>1 DEF FailedInv
  <2> QED
    BY <1>0, <2>1, <2>2
<1>11. ASSUME OpenDevice PROVE ReleaseInv'
  <2>1. /\ worker = "open" /\ current \in Callers /\ job[current].kind = "connect"
        /\ worker' \in {"configure", "unpublish", "finish"}
        /\ worker' = "finish" => ~session'
        /\ UNCHANGED <<generation, closing, connected, workerExit, queue, owner, current, ok,
                       pc, job>>
    BY <1>0, <1>11, FlightFacts DEF OpenDevice, DeviceInv, Running, flagVars, queueVars,
       callerVars
  <2>2. ~workerExit => job[current].token = generation
    BY <1>0, <2>1
  <2>3. worker' = "finish" => ~ok
    BY <1>0, <2>1, FlightFacts
  <2> QED
    BY <1>0, <2>1, <2>2, <2>3
<1>12. ASSUME ConfigureFeedback \/ Publish PROVE ReleaseInv'
  <2>1. /\ worker \in {"configure", "publish"} /\ worker' \in {"publish", "unpublish", "confirm"}
        /\ worker' = "confirm" => connected'
        /\ UNCHANGED <<generation, closing, workerExit, queue, session, owner,
                       current, ok, pc, job>>
    BY <1>12 DEF ConfigureFeedback, Publish, workerOnly, flagVars, queueVars, deviceVars,
       callerVars
  <2>2. \A d \in Callers : Opening(d)' => Opening(d)
    BY <2>1
  <2> QED
    BY <1>0, <2>1, <2>2
<1>13. ASSUME ConfirmOpen PROVE ReleaseInv'
  <2>1. /\ worker = "confirm" /\ worker' \in {"unpublish", "finish"}
        /\ worker' = "finish" => ok'
        /\ worker' = "unpublish" => ok' = ok
        /\ job[current].kind = "connect"
        /\ UNCHANGED <<generation, closing, connected, workerExit, queue, session, owner,
                       current, pc, job>>
    BY <1>0, <1>13 DEF ConfirmOpen, workerOnly, flagVars, queueVars, deviceVars, callerVars,
       DeviceInv
  <2>2. \A d \in Callers : Opening(d)' => Opening(d)
    BY <2>1
  <2> QED
    BY <1>0, <2>1, <2>2
<1>14. ASSUME Unpublish \/ CloseSession PROVE ReleaseInv'
  <2>1. /\ worker \in {"unpublish", "close"} /\ worker' \in {"close", "release"}
        /\ UNCHANGED <<generation, closing, workerExit, queue, current, ok, pc, job>>
    BY <1>14 DEF Unpublish, CloseSession, flagVars, queueVars, deviceVars, callerVars
  <2>2. \A d \in Callers : Opening(d)' => Opening(d)
    BY <2>1
  <2> QED
    BY <1>0, <2>1, <2>2
<1>15. ASSUME ReleaseOwner PROVE ReleaseInv'
  <2>1. /\ worker = "release" /\ worker' \in {"done", "finish"}
        /\ worker' = "finish" => current # NoCaller
        /\ owner' # "self" /\ ~session'
        /\ UNCHANGED <<generation, closing, connected, workerExit, queue, current, ok, pc, job>>
    BY <1>0, <1>15 DEF ReleaseOwner, flagVars, queueVars, callerVars, DeviceInv
  <2>2. worker' = "finish" => job[current].kind = "connect" /\ ~ok
    BY <1>0, <2>1 DEF DeviceInv
  <2>3. \A d \in Callers : Opening(d)' => Opening(d)
    BY <2>1
  <2> QED
    BY <1>0, <2>1, <2>2, <2>3
<1>16. ASSUME FinishJob PROVE ReleaseInv'
  <2>1. /\ worker = "finish" /\ worker' = "deliver"
        /\ UNCHANGED <<generation, closing, connected, workerExit, queue, session, owner,
                       current, ok, pc, job>>
    BY <1>16 DEF FinishJob, flagVars, deviceVars, callerVars
  <2> QED
    BY <1>0, <2>1
<1>17. ASSUME Deliver PROVE ReleaseInv'
  <2>1. /\ current \in Callers /\ pc[current] = "waiting" /\ worker = "deliver"
        /\ current \notin Range(queue) /\ Range(queue) \subseteq Callers
        /\ worker' = "wait" /\ current' = NoCaller
        /\ UNCHANGED <<generation, closing, connected, workerExit, queue, session, owner>>
        /\ \A d \in Callers : d # current => pc'[d] = pc[d] /\ job'[d] = job[d]
        /\ job[current].kind = "connect" /\ ~ok =>
              pc'[current] = "lock" /\ job'[current] = job[current]
    BY <1>0, <1>17, FlightFacts DEF Deliver, Running, flagVars, queueVars, deviceVars
  <2>2. \A d \in Callers : /\ Opening(d)' => Opening(d) /\ job'[d] = job[d]
                           /\ Failing(d) => Failing(d)'
                           /\ pc[d] = "join" => pc'[d] = "join"
    BY <2>1, FlightFacts, <1>0
  <2>3. CASE job[current].kind = "connect"
    <3>1. ~workerExit /\ ~connected => ~session /\ (owner = "self" => \E d \in Callers : Failing(d)')
      BY <1>0, <2>1, <2>3
    <3> QED
      BY <1>0, <2>1, <2>2, <3>1
  <2>4. CASE job[current].kind # "connect"
    <3>1. Resting' => Resting
      BY <2>1, <2>4
    <3> QED
      BY <1>0, <2>1, <2>2, <3>1
  <2> QED
    BY <2>3, <2>4
<1>18. ASSUME OtherAcquire \/ OtherRelease \/ UNCHANGED vars PROVE ReleaseInv'
  <2>1. /\ UNCHANGED <<generation, closing, connected, workerExit, queue, session, worker,
                       current, ok, pc, job>>
        /\ owner' = "self" => owner = "self"
    BY <1>18 DEF OtherAcquire, OtherRelease, vars, flagVars, queueVars, deviceVars,
       workerVars, callerVars
  <2> QED
    BY <1>0, <2>1
<1> HIDE DEF ReleaseInv
<1> QED BY <1>1, <1>2, <1>3, <1>4, <1>5, <1>6, <1>7, <1>8, <1>9, <1>10, <1>11, <1>12,
        <1>13, <1>14, <1>15, <1>16, <1>17, <1>18, NextCases

-----------------------------------------------------------------------------
(* Priority                                                                 *)

LEMMA PriorityStep ==
    ASSUME Step, PriorityInv
    PROVE  PriorityInv'
<1> USE DEF PriorityInv
<1>0. ControlInv /\ PriorityInv
  BY DEF Step
<1>a. queue \in Seq(Callers) /\ IsInjective(queue)
  BY <1>0 DEF ControlInv, TypeOK, QueueInv
<1>1. ASSUME NEW c \in Callers, SubmitOrdinary(c) PROVE PriorityInv'
  <2>1. Range(queue) = {}
    <3>1. /\ IsFiniteSet(PendingUrgent)
          /\ urgentCount = Cardinality(PendingUrgent)
          /\ ordinaryBusy <=> PendingOrdinary # {}
      BY <1>0, Zenon DEF ControlInv, BusyAccounting
    <3>2. ~ordinaryBusy /\ urgentCount = 0
      BY <1>1 DEF SubmitOrdinary, OrdinaryAdmitted
    <3>3. PendingUrgent = {} /\ PendingOrdinary = {}
      BY <3>1, <3>2, FS_EmptySet, Zenon
    <3> QED BY <3>3 DEF PendingUrgent, PendingOrdinary, Pending, Queued
  <2>2. Range(queue') = {c}
    BY <1>0, <1>1, <2>1, QueueGrows
  <2>3. job'[c].kind = "ordinary"
    BY <1>0, <1>1, FlightFacts DEF SubmitOrdinary, Push
  <2> QED BY <2>2, <2>3
<1>2. ASSUME NEW c \in Callers, SubmitUrgent(c) PROVE PriorityInv'
  <2>1. Range(queue') = Range(queue) \cup {c} /\ c \notin Range(queue)
    BY <1>0, <1>2, QueueGrows
  <2>2. queue'[1] = c
    <3>1. <<c>> \in Seq(Callers) /\ Len(<<c>>) = 1 /\ <<c>>[1] = c /\ Len(queue) \in Nat
      BY <1>a, LenProperties
    <3>2. (<<c>> \o queue)[1] = c
      BY <1>a, <3>1, ConcatProperties
    <3> QED BY <1>2, <3>2 DEF SubmitUrgent
  <2>3. \A d \in Range(queue) : /\ job'[d] = job[d]
                                /\ job[d].token \in Nat /\ job[d].token < generation'
    BY <1>0, <1>2, <2>1, FlightFacts DEF SubmitUrgent, Push
  <2> QED BY <2>1, <2>2, <2>3
<1>3. ASSUME NEW c \in Callers, Connect(c) PROVE PriorityInv'
  <2>1. Range(queue') = {c}
    BY <1>0, <1>3, QueueGrows, FlightFacts DEF Connect, CanConnect
  <2>2. job'[c].kind = "connect"
    BY <1>0, <1>3, FlightFacts DEF Connect, Push
  <2> QED BY <2>1, <2>2
<1>4. ASSUME NEW c \in Callers, ConnectWithoutThread(c) PROVE PriorityInv'
  <2>1. Range(queue') = {}
    BY <1>4 DEF ConnectWithoutThread, Range
  <2> QED BY <2>1
<1>5. ASSUME NEW c \in Callers,
             Disconnect(c) \/ LockLifecycle(c) \/ BeginClosing(c) \/ Join(c)
      PROVE  PriorityInv'
  <2>1. queue' = queue /\ (generation' = generation \/ generation' = generation + 1)
    BY <1>5 DEF Disconnect, LockLifecycle, BeginClosing, Join, queueVars
  <2>2. pc[c] # "waiting" /\ \A d \in Callers : d # c => job'[d] = job[d]
    BY <1>0, <1>5, FlightFacts DEF Disconnect, MayCall, LockLifecycle, BeginClosing, Join
  <2>3. \A d \in Range(queue) : /\ job'[d] = job[d]
                                /\ job[d].token \in Nat /\ job[d].token =< generation
    BY <1>0, <2>2, FlightFacts
  <2>4. generation \in Nat
    BY <1>0, FlightFacts
  <2> QED BY <1>0, <2>1, <2>3, <2>4
<1>6. ASSUME Pop PROVE PriorityInv'
  <2>1. Head(queue) = queue[1]
    BY <1>a
  <2>2. Range(queue') = Range(queue) \ {queue[1]}
    BY <1>0, <1>6, <2>1, QueueShrinks DEF Pop
  <2>3. UNCHANGED <<job, generation>>
    BY <1>6 DEF Pop, callerVars
  <2> QED BY <1>0, <2>2, <2>3
<1>7. ASSUME Deliver PROVE PriorityInv'
  <2>1. \A d \in Range(queue) : job'[d] = job[d]
    BY <1>0, <1>7, FlightFacts DEF Deliver
  <2> QED BY <1>0, <1>7, <2>1 DEF Deliver, queueVars
<1>8. ASSUME \/ LeaveLoop \/ StartJob \/ IssueCommand \/ CheckCancelled \/ OpenDevice
             \/ ConfigureFeedback \/ Publish \/ ConfirmOpen \/ Unpublish \/ CloseSession
             \/ ReleaseOwner \/ FinishJob \/ OtherAcquire \/ OtherRelease \/ UNCHANGED vars
      PROVE  PriorityInv'
  <2>1. UNCHANGED <<queue, job, generation>>
    BY <1>8 DEF LeaveLoop, StartJob, IssueCommand, CheckCancelled, OpenDevice,
       ConfigureFeedback, Publish, ConfirmOpen, Unpublish, CloseSession, ReleaseOwner,
       FinishJob, OtherAcquire, OtherRelease, workerOnly, vars, queueVars, callerVars
  <2> QED BY <1>0, <2>1
<1> HIDE DEF PriorityInv
<1> QED BY <1>1, <1>2, <1>3, <1>4, <1>5, <1>6, <1>7, <1>8, NextCases

-----------------------------------------------------------------------------
(* The theorems                                                             *)

LEMMA ConnectionInit == Init => DeviceInv /\ FailedInv /\ PriorityInv /\ ReleaseInv
BY CallersAssumption DEF Init, DeviceInv, Opening, FailedInv, Connecting, PriorityInv, Range, NoJob,
   ReleaseInv, Resting

\* The invariants of the connection side hold in every reachable state.
THEOREM ConnectionInvariance ==
    Spec => [](ControlInv /\ DeviceInv /\ FailedInv /\ PriorityInv /\ ReleaseInv)
<1> DEFINE Inv == DeviceInv /\ FailedInv /\ PriorityInv /\ ReleaseInv
<1>1. ControlInv /\ Inv /\ [Next]_vars => Inv'
  BY DeviceStep, FailedStep, PriorityStep, ReleaseStep DEF Step
<1>2. Init => Inv
  BY ConnectionInit
<1> HIDE DEF Inv
<1>3. Spec => []Inv
  BY <1>1, <1>2, Invariance, PTL DEF Spec
<1>4. Inv <=> DeviceInv /\ FailedInv /\ PriorityInv /\ ReleaseInv
  BY DEF Inv
<1> QED BY <1>3, <1>4, Invariance, PTL

\* No open session on a device that another hand of the process may own, and no
\* connection reported without one.
THEOREM OwnedWhileOpenCorrect == Spec => []OwnedWhileOpen
<1>1. DeviceInv => OwnedWhileOpen
  BY DEF DeviceInv, OwnedWhileOpen
<1> QED BY <1>1, ConnectionInvariance, PTL

\* After the join nothing is left: no job, no session, no ownership, no counter.
THEOREM JoinedHandCorrect == Spec => []JoinedHandHoldsNothing
<1>1. ControlInv /\ DeviceInv => JoinedHandHoldsNothing
  <2> SUFFICES ASSUME ControlInv, DeviceInv, worker = "none" PROVE JoinedHandHoldsNothing
    BY DEF JoinedHandHoldsNothing
  <2>1. queue = <<>> /\ current = NoCaller /\ ~connected /\ Range(queue) = {}
    BY FlightFacts
  <2>2. Pending = {} /\ PendingUrgent = {} /\ PendingOrdinary = {}
    BY <2>1 DEF Pending, Queued, PendingUrgent, PendingOrdinary
  <2>3. ~ordinaryBusy /\ urgentCount = Cardinality({})
    BY <2>2, Zenon DEF ControlInv, BusyAccounting
  <2>4. urgentCount = 0
    BY <2>3, FS_EmptySet
  <2>5. ~session /\ owner # "self"
    BY DEF DeviceInv
  <2> QED BY <2>1, <2>3, <2>4, <2>5, Zenon DEF JoinedHandHoldsNothing
<1> QED BY <1>1, ConnectionInvariance, PTL

\* The clean-up of a failed connect closes nothing that was opened after it.
THEOREM StaleConnectCorrect == Spec => []StaleConnectSparesNewer
<1>1. FailedInv => StaleConnectSparesNewer
  BY DEF FailedInv, StaleConnectSparesNewer
<1> QED BY <1>1, ConnectionInvariance, PTL

\* An urgent job that is still valid waits at the front of the queue.
THEOREM PriorityFirstCorrect == Spec => []PriorityFirst
<1>1. PriorityInv => PriorityFirst
  BY DEF PriorityInv, PriorityFirst, Queued, Live, Cancelled
<1> QED BY <1>1, ConnectionInvariance, PTL

\* When every call has returned, a hand that is not connected has closed the
\* session and given the device back, also after a connect cancelled halfway.
THEOREM DisconnectedHandCorrect == Spec => []DisconnectedHandHoldsNoDevice
<1>1. ControlInv /\ DeviceInv /\ ReleaseInv => DisconnectedHandHoldsNoDevice
  <2> SUFFICES ASSUME ControlInv, DeviceInv, ReleaseInv, Quiescent, ~connected
               PROVE  ~session /\ owner # "self"
    BY DEF DisconnectedHandHoldsNoDevice
  <2>1. \A c \in Callers : pc[c] = "idle"
    BY DEF Quiescent
  <2>2. Range(queue) = {} /\ current = NoCaller /\ worker \notin Running
    BY <2>1, FlightFacts
  <2>3. worker = "none" \/ ~workerExit
    BY <2>1 DEF ReleaseInv
  <2>4. worker \in {"none", "done", "wait"} \/ workerExit
    BY <2>2 DEF ControlInv, TypeOK, WorkerStates, WorkerInv, Leaving, Running
  <2>5. CASE worker \in {"none", "done"}
    BY <2>5 DEF DeviceInv
  <2>6. CASE worker = "wait"
    <3>1. Resting /\ ~workerExit
      BY <2>2, <2>3, <2>6 DEF Resting
    <3> QED
      BY <2>1, <3>1 DEF ReleaseInv, Failing
  <2> QED
    BY <2>3, <2>4, <2>5, <2>6
<1> QED BY <1>1, ConnectionInvariance, PTL
=============================================================================
