--------------------------- MODULE GsUsb_proofs ---------------------------
(***************************************************************************)
(* Proofs about GsUsb, for any number of slots: echoes are matched with    *)
(* the frames they belong to, the transport fails only because USB or the  *)
(* adapter did, and a closed transport leaves no running adapter behind.   *)
(***************************************************************************)
EXTENDS GsUsb, TLAPS, WellFoundedInduction

FlagTypes ==
    /\ stopping \in BOOLEAN
    /\ started \in BOOLEAN
    /\ failed \in BOOLEAN
    /\ running \in BOOLEAN
    /\ fault \in BOOLEAN
    /\ refused \in BOOLEAN

PlaceTypes ==
    /\ worker \in WorkerStates
    /\ receiver \in ReceiverStates
    /\ pending \subseteq Slots
    /\ slot \in Slots \cup {NoSlot}
    /\ echo \in Slots \cup {NoSlot}
    /\ flight \in [Slots -> Nat]
    /\ echoes \in [Slots -> Nat]
    /\ lost \subseteq Slots

\* The receiver runs between Commit and Join, and holds an echo in one place only.
Places ==
    /\ receiver # "none" => InUse \/ worker = "join"
    /\ receiver = "echo" <=> echo # NoSlot
    /\ worker \in {"write", "written"} => slot \in Slots

\* Before it is started, the adapter holds nothing of an earlier session.
Cleaned ==
    /\ worker \in {"drain", "start"} => ~running
    /\ worker \in {"drain", "start", "commit"} => flight = None
    /\ worker = "start" => echoes = None
    /\ worker = "commit" => fault \/ echoes = None

\* A running adapter that no RESET failed to stop is one the worker knows it
\* started, and has yet to stop.
KnownRunning ==
    running /\ ~refused =>
        /\ started
        /\ InUse \/ worker \in {"commit", "join", "closeReset"}

SlotInv == PlaceTypes /\ Places /\ Cleaned /\ SlotAccounting /\ FailureHasCause

LEMMA LeastExists ==
    ASSUME NEW T \in SUBSET Nat, T # {}
    PROVE  \E x \in T : \A y \in T : x <= y
<1> DEFINE R == OpToRel(<, Nat)
<1>1. IsWellFoundedOn(R, Nat)
  BY NatLessThanWellFounded, Zenon
<1>2. PICK x \in T : \A y \in T : <<y, x>> \notin R
  BY <1>1, WFMin, Zenon
<1>3. \A y \in T : ~(y < x)
  BY <1>2, Zenon DEF OpToRel
<1> QED
  BY <1>3

LEMMA SlotsAreNatural == Slots \subseteq Nat /\ NoSlot \notin Slots /\ None \in [Slots -> Nat]
  BY SlotCountAssumption DEF Slots, NoSlot, None

\* The loop that looks for a free slot finds one when not all are taken.
LEMMA FirstFreeIsFree ==
    ASSUME pending \subseteq Slots, pending # Slots
    PROVE  FirstFree \in Slots \ pending
<1>1. /\ Slots \ pending \in SUBSET Nat
      /\ Slots \ pending # {}
  BY SlotsAreNatural
<1>2. \E s \in Slots \ pending : \A t \in Slots \ pending : s <= t
  BY <1>1, LeastExists
<1> QED
  BY <1>2, Zenon DEF FirstFree

\* Every assignment to a flag is Boolean.
LEMMA FlagsStep == FlagTypes /\ [Next]_vars => FlagTypes'
<1> SUFFICES ASSUME FlagTypes, [Next]_vars PROVE FlagTypes'
  OBVIOUS
<1> USE DEF FlagTypes
<1>1. CASE UNCHANGED vars
  BY <1>1 DEF vars, hostVars, adapterVars, historyVars
<1>2. CASE Access
  BY <1>2 DEF Access, hostVars, adapterVars, historyVars
<1>3. CASE OpenFails
  BY <1>3 DEF OpenFails, hostVars, adapterVars, historyVars
<1>4. CASE Commit
  BY <1>4 DEF Commit, hostVars, adapterVars, historyVars
<1>5. CASE Send
  BY <1>5 DEF Send, hostVars, adapterVars, historyVars
<1>6. CASE Sleep
  BY <1>6 DEF Sleep, hostVars, adapterVars, historyVars, Available
<1>7. CASE SendRejected
  BY <1>7 DEF SendRejected, hostVars, adapterVars, historyVars
<1>8. CASE Claim
  BY <1>8 DEF Claim, hostVars, adapterVars, historyVars, Available
<1>9. CASE Write
  BY <1>9 DEF Write, hostVars, adapterVars, historyVars
<1>10. CASE WriteReturns
  BY <1>10 DEF WriteReturns, hostVars, adapterVars, historyVars
<1>11. CASE WriteFails
  BY <1>11 DEF WriteFails, hostVars, adapterVars, historyVars
<1>12. CASE Close
  BY <1>12 DEF Close, hostVars, adapterVars, historyVars
<1>13. CASE Join
  BY <1>13 DEF Join, hostVars, adapterVars, historyVars
<1>14. CASE Free
  BY <1>14 DEF Free, hostVars, adapterVars, historyVars
<1>15. CASE Check
  BY <1>15 DEF Check, hostVars, adapterVars, historyVars
<1>16. CASE ReadNothing
  BY <1>16 DEF ReadNothing, hostVars, adapterVars, historyVars
<1>17. CASE ReadFails
  BY <1>17 DEF ReadFails, hostVars, adapterVars, historyVars, Notified
<1>18. CASE Complete
  BY <1>18 DEF Complete, hostVars, adapterVars, historyVars, Notified
<1>19. CASE UnexpectedEcho
  BY <1>19 DEF UnexpectedEcho, hostVars, adapterVars, historyVars, Notified
<1>20. ASSUME NEW done \in BOOLEAN, NEW reached \in BOOLEAN, Reset(done, reached) PROVE FlagTypes'
  BY <1>20 DEF Reset, hostVars, adapterVars, historyVars
<1>21. ASSUME NEW done \in BOOLEAN, NEW reached \in BOOLEAN, Start(done, reached) PROVE FlagTypes'
  BY <1>21 DEF Start, hostVars, adapterVars, historyVars
<1>22. ASSUME NEW quiet \in BOOLEAN, Drain(quiet) PROVE FlagTypes'
  BY <1>22 DEF Drain, hostVars, adapterVars, historyVars, Drained
<1>23. ASSUME NEW s \in Slots, ReadEcho(s) PROVE FlagTypes'
  BY <1>23 DEF ReadEcho, hostVars, adapterVars, historyVars
<1>24. ASSUME NEW s \in Slots, Transmit(s) PROVE FlagTypes'
  BY <1>24 DEF Transmit, hostVars, adapterVars, historyVars
<1>25. ASSUME NEW s \in Slots, Lose(s) PROVE FlagTypes'
  BY <1>25 DEF Lose, hostVars, adapterVars, historyVars
<1>26. ASSUME NEW s \in Slots, Repeat(s) PROVE FlagTypes'
  BY <1>26 DEF Repeat, hostVars, adapterVars, historyVars
<1> QED
  BY <1>1, <1>2, <1>3, <1>4, <1>5, <1>6, <1>7, <1>8, <1>9, <1>10, <1>11, <1>12,
     <1>13, <1>14, <1>15, <1>16, <1>17, <1>18, <1>19, <1>20, <1>21, <1>22, <1>23,
     <1>24, <1>25, <1>26
  DEF Next, Opening, Sending, Closing, Receiving, Adapter

\* Places and counters keep their types.
LEMMA PlaceTypesStep == PlaceTypes /\ Places /\ [Next]_vars => PlaceTypes'
<1> SUFFICES ASSUME PlaceTypes /\ Places, [Next]_vars PROVE PlaceTypes'
  OBVIOUS
<1> USE SlotsAreNatural
<1> USE DEF PlaceTypes, Places, InUse, WorkerStates, ReceiverStates
<1>1. CASE UNCHANGED vars
  BY <1>1 DEF vars, hostVars, adapterVars, historyVars
<1>2. CASE Access
  BY <1>2 DEF Access, hostVars, adapterVars, historyVars
<1>3. CASE OpenFails
  BY <1>3 DEF OpenFails, hostVars, adapterVars, historyVars
<1>4. CASE Commit
  BY <1>4 DEF Commit, hostVars, adapterVars, historyVars
<1>5. CASE Send
  BY <1>5 DEF Send, hostVars, adapterVars, historyVars
<1>6. CASE Sleep
  BY <1>6 DEF Sleep, hostVars, adapterVars, historyVars, Available
<1>7. CASE SendRejected
  BY <1>7 DEF SendRejected, hostVars, adapterVars, historyVars
<1>8. CASE Claim
  <2>1. FirstFree \in Slots \ pending
    BY <1>8, FirstFreeIsFree DEF Claim, Available
  <2> QED
    BY <1>8, <2>1 DEF Claim, hostVars, adapterVars, historyVars
<1>9. CASE Write
  BY <1>9 DEF Write, hostVars, adapterVars, historyVars
<1>10. CASE WriteReturns
  BY <1>10 DEF WriteReturns, hostVars, adapterVars, historyVars
<1>11. CASE WriteFails
  BY <1>11 DEF WriteFails, hostVars, adapterVars, historyVars
<1>12. CASE Close
  BY <1>12 DEF Close, hostVars, adapterVars, historyVars
<1>13. CASE Join
  BY <1>13 DEF Join, hostVars, adapterVars, historyVars
<1>14. CASE Free
  BY <1>14 DEF Free, hostVars, adapterVars, historyVars
<1>15. CASE Check
  BY <1>15 DEF Check, hostVars, adapterVars, historyVars
<1>16. CASE ReadNothing
  BY <1>16 DEF ReadNothing, hostVars, adapterVars, historyVars
<1>17. CASE ReadFails
  BY <1>17 DEF ReadFails, hostVars, adapterVars, historyVars, Notified
<1>18. CASE Complete
  BY <1>18 DEF Complete, hostVars, adapterVars, historyVars, Notified
<1>19. CASE UnexpectedEcho
  BY <1>19 DEF UnexpectedEcho, hostVars, adapterVars, historyVars, Notified
<1>20. ASSUME NEW done \in BOOLEAN, NEW reached \in BOOLEAN, Reset(done, reached) PROVE PlaceTypes'
  BY <1>20 DEF Reset, hostVars, adapterVars, historyVars
<1>21. ASSUME NEW done \in BOOLEAN, NEW reached \in BOOLEAN, Start(done, reached) PROVE PlaceTypes'
  BY <1>21 DEF Start, hostVars, adapterVars, historyVars
<1>22. ASSUME NEW quiet \in BOOLEAN, Drain(quiet) PROVE PlaceTypes'
  BY <1>22 DEF Drain, hostVars, adapterVars, historyVars, Drained
<1>23. ASSUME NEW s \in Slots, ReadEcho(s) PROVE PlaceTypes'
  BY <1>23 DEF ReadEcho, hostVars, adapterVars, historyVars
<1>24. ASSUME NEW s \in Slots, Transmit(s) PROVE PlaceTypes'
  BY <1>24 DEF Transmit, hostVars, adapterVars, historyVars
<1>25. ASSUME NEW s \in Slots, Lose(s) PROVE PlaceTypes'
  BY <1>25 DEF Lose, hostVars, adapterVars, historyVars
<1>26. ASSUME NEW s \in Slots, Repeat(s) PROVE PlaceTypes'
  BY <1>26 DEF Repeat, hostVars, adapterVars, historyVars
<1> QED
  BY <1>1, <1>2, <1>3, <1>4, <1>5, <1>6, <1>7, <1>8, <1>9, <1>10, <1>11, <1>12,
     <1>13, <1>14, <1>15, <1>16, <1>17, <1>18, <1>19, <1>20, <1>21, <1>22, <1>23,
     <1>24, <1>25, <1>26
  DEF Next, Opening, Sending, Closing, Receiving, Adapter

\* Where the two threads are.
LEMMA PlacesStep == PlaceTypes /\ Places /\ [Next]_vars => Places'
<1> SUFFICES ASSUME PlaceTypes /\ Places, [Next]_vars PROVE Places'
  OBVIOUS
<1> USE SlotsAreNatural
<1> USE DEF PlaceTypes, Places, InUse
<1>1. CASE UNCHANGED vars
  BY <1>1 DEF vars, hostVars, adapterVars, historyVars
<1>2. CASE Access
  BY <1>2 DEF Access, hostVars, adapterVars, historyVars
<1>3. CASE OpenFails
  BY <1>3 DEF OpenFails, hostVars, adapterVars, historyVars
<1>4. CASE Commit
  BY <1>4 DEF Commit, hostVars, adapterVars, historyVars
<1>5. CASE Send
  BY <1>5 DEF Send, hostVars, adapterVars, historyVars
<1>6. CASE Sleep
  BY <1>6 DEF Sleep, hostVars, adapterVars, historyVars, Available
<1>7. CASE SendRejected
  BY <1>7 DEF SendRejected, hostVars, adapterVars, historyVars
<1>8. CASE Claim
  <2>1. FirstFree \in Slots \ pending
    BY <1>8, FirstFreeIsFree DEF Claim, Available
  <2> QED
    BY <1>8, <2>1 DEF Claim, hostVars, adapterVars, historyVars
<1>9. CASE Write
  BY <1>9 DEF Write, hostVars, adapterVars, historyVars
<1>10. CASE WriteReturns
  BY <1>10 DEF WriteReturns, hostVars, adapterVars, historyVars
<1>11. CASE WriteFails
  BY <1>11 DEF WriteFails, hostVars, adapterVars, historyVars
<1>12. CASE Close
  BY <1>12 DEF Close, hostVars, adapterVars, historyVars
<1>13. CASE Join
  BY <1>13 DEF Join, hostVars, adapterVars, historyVars
<1>14. CASE Free
  BY <1>14 DEF Free, hostVars, adapterVars, historyVars
<1>15. CASE Check
  BY <1>15 DEF Check, hostVars, adapterVars, historyVars
<1>16. CASE ReadNothing
  BY <1>16 DEF ReadNothing, hostVars, adapterVars, historyVars
<1>17. CASE ReadFails
  BY <1>17 DEF ReadFails, hostVars, adapterVars, historyVars, Notified
<1>18. CASE Complete
  BY <1>18 DEF Complete, hostVars, adapterVars, historyVars, Notified
<1>19. CASE UnexpectedEcho
  BY <1>19 DEF UnexpectedEcho, hostVars, adapterVars, historyVars, Notified
<1>20. ASSUME NEW done \in BOOLEAN, NEW reached \in BOOLEAN, Reset(done, reached) PROVE Places'
  BY <1>20 DEF Reset, hostVars, adapterVars, historyVars
<1>21. ASSUME NEW done \in BOOLEAN, NEW reached \in BOOLEAN, Start(done, reached) PROVE Places'
  BY <1>21 DEF Start, hostVars, adapterVars, historyVars
<1>22. ASSUME NEW quiet \in BOOLEAN, Drain(quiet) PROVE Places'
  BY <1>22 DEF Drain, hostVars, adapterVars, historyVars, Drained
<1>23. ASSUME NEW s \in Slots, ReadEcho(s) PROVE Places'
  BY <1>23 DEF ReadEcho, hostVars, adapterVars, historyVars
<1>24. ASSUME NEW s \in Slots, Transmit(s) PROVE Places'
  BY <1>24 DEF Transmit, hostVars, adapterVars, historyVars
<1>25. ASSUME NEW s \in Slots, Lose(s) PROVE Places'
  BY <1>25 DEF Lose, hostVars, adapterVars, historyVars
<1>26. ASSUME NEW s \in Slots, Repeat(s) PROVE Places'
  BY <1>26 DEF Repeat, hostVars, adapterVars, historyVars
<1> QED
  BY <1>1, <1>2, <1>3, <1>4, <1>5, <1>6, <1>7, <1>8, <1>9, <1>10, <1>11, <1>12,
     <1>13, <1>14, <1>15, <1>16, <1>17, <1>18, <1>19, <1>20, <1>21, <1>22, <1>23,
     <1>24, <1>25, <1>26
  DEF Next, Opening, Sending, Closing, Receiving, Adapter

\* Opening: RESET, then the drain, then START.
LEMMA CleanedStep == PlaceTypes /\ Places /\ Cleaned /\ [Next]_vars => Cleaned'
<1> SUFFICES ASSUME PlaceTypes /\ Places /\ Cleaned, [Next]_vars PROVE Cleaned'
  OBVIOUS
<1> USE SlotsAreNatural
<1> USE DEF PlaceTypes, Places, Cleaned, InUse
<1>1. CASE UNCHANGED vars
  BY <1>1 DEF vars, hostVars, adapterVars, historyVars
<1>2. CASE Access
  BY <1>2 DEF Access, hostVars, adapterVars, historyVars
<1>3. CASE OpenFails
  BY <1>3 DEF OpenFails, hostVars, adapterVars, historyVars
<1>4. CASE Commit
  BY <1>4 DEF Commit, hostVars, adapterVars, historyVars
<1>5. CASE Send
  BY <1>5 DEF Send, hostVars, adapterVars, historyVars
<1>6. CASE Sleep
  BY <1>6 DEF Sleep, hostVars, adapterVars, historyVars, Available
<1>7. CASE SendRejected
  BY <1>7 DEF SendRejected, hostVars, adapterVars, historyVars
<1>8. CASE Claim
  BY <1>8 DEF Claim, hostVars, adapterVars, historyVars, Available
<1>9. CASE Write
  BY <1>9 DEF Write, hostVars, adapterVars, historyVars
<1>10. CASE WriteReturns
  BY <1>10 DEF WriteReturns, hostVars, adapterVars, historyVars
<1>11. CASE WriteFails
  BY <1>11 DEF WriteFails, hostVars, adapterVars, historyVars
<1>12. CASE Close
  BY <1>12 DEF Close, hostVars, adapterVars, historyVars
<1>13. CASE Join
  BY <1>13 DEF Join, hostVars, adapterVars, historyVars
<1>14. CASE Free
  BY <1>14 DEF Free, hostVars, adapterVars, historyVars
<1>15. CASE Check
  BY <1>15 DEF Check, hostVars, adapterVars, historyVars
<1>16. CASE ReadNothing
  BY <1>16 DEF ReadNothing, hostVars, adapterVars, historyVars
<1>17. CASE ReadFails
  BY <1>17 DEF ReadFails, hostVars, adapterVars, historyVars, Notified
<1>18. CASE Complete
  BY <1>18 DEF Complete, hostVars, adapterVars, historyVars, Notified
<1>19. CASE UnexpectedEcho
  BY <1>19 DEF UnexpectedEcho, hostVars, adapterVars, historyVars, Notified
<1>20. ASSUME NEW done \in BOOLEAN, NEW reached \in BOOLEAN, Reset(done, reached) PROVE Cleaned'
  <2>1. CASE done = TRUE
    <3>1. worker' \in {"drain", "closeDrain"} /\ ~running' /\ flight' = None
      BY <1>20, <2>1 DEF Reset
    <3> QED
      BY <3>1
  <2>2. CASE done = FALSE
    <3>1. worker' = "free"
      BY <1>20, <2>2 DEF Reset
    <3> QED
      BY <3>1
  <2> QED
    BY <2>1, <2>2
<1>21. ASSUME NEW done \in BOOLEAN, NEW reached \in BOOLEAN, Start(done, reached) PROVE Cleaned'
  BY <1>21 DEF Start, hostVars, adapterVars, historyVars
<1>22. ASSUME NEW quiet \in BOOLEAN, Drain(quiet) PROVE Cleaned'
  BY <1>22 DEF Drain, hostVars, adapterVars, historyVars, Drained
<1>23. ASSUME NEW s \in Slots, ReadEcho(s) PROVE Cleaned'
  BY <1>23 DEF ReadEcho, hostVars, adapterVars, historyVars
<1>24. ASSUME NEW s \in Slots, Transmit(s) PROVE Cleaned'
  <2>1. flight # None
    BY <1>24 DEF Transmit, None
  <2> QED
    BY <1>24, <2>1 DEF Transmit, hostVars, adapterVars, historyVars
<1>25. ASSUME NEW s \in Slots, Lose(s) PROVE Cleaned'
  <2>1. flight # None
    BY <1>25 DEF Lose, None
  <2> QED
    BY <1>25, <2>1 DEF Lose, hostVars, adapterVars, historyVars
<1>26. ASSUME NEW s \in Slots, Repeat(s) PROVE Cleaned'
  BY <1>26 DEF Repeat, hostVars, adapterVars, historyVars
<1> QED
  BY <1>1, <1>2, <1>3, <1>4, <1>5, <1>6, <1>7, <1>8, <1>9, <1>10, <1>11, <1>12,
     <1>13, <1>14, <1>15, <1>16, <1>17, <1>18, <1>19, <1>20, <1>21, <1>22, <1>23,
     <1>24, <1>25, <1>26
  DEF Next, Opening, Sending, Closing, Receiving, Adapter

\* Nobody but START makes the adapter run, and only RESET stops it.
LEMMA KnownRunningStep == PlaceTypes /\ Places /\ Cleaned /\ KnownRunning /\ [Next]_vars => KnownRunning'
<1> SUFFICES ASSUME PlaceTypes /\ Places /\ Cleaned /\ KnownRunning, [Next]_vars PROVE KnownRunning'
  OBVIOUS
<1> USE DEF Places, KnownRunning, Cleaned, InUse
<1>1. CASE UNCHANGED vars
  BY <1>1 DEF vars, hostVars, adapterVars, historyVars
<1>2. CASE Access
  BY <1>2 DEF Access, hostVars, adapterVars, historyVars
<1>3. CASE OpenFails
  BY <1>3 DEF OpenFails, hostVars, adapterVars, historyVars
<1>4. CASE Commit
  BY <1>4 DEF Commit, hostVars, adapterVars, historyVars
<1>5. CASE Send
  BY <1>5 DEF Send, hostVars, adapterVars, historyVars
<1>6. CASE Sleep
  BY <1>6 DEF Sleep, hostVars, adapterVars, historyVars, Available
<1>7. CASE SendRejected
  BY <1>7 DEF SendRejected, hostVars, adapterVars, historyVars
<1>8. CASE Claim
  BY <1>8 DEF Claim, hostVars, adapterVars, historyVars, Available
<1>9. CASE Write
  BY <1>9 DEF Write, hostVars, adapterVars, historyVars
<1>10. CASE WriteReturns
  BY <1>10 DEF WriteReturns, hostVars, adapterVars, historyVars
<1>11. CASE WriteFails
  BY <1>11 DEF WriteFails, hostVars, adapterVars, historyVars
<1>12. CASE Close
  BY <1>12 DEF Close, hostVars, adapterVars, historyVars
<1>13. CASE Join
  BY <1>13 DEF Join, hostVars, adapterVars, historyVars
<1>14. CASE Free
  BY <1>14 DEF Free, hostVars, adapterVars, historyVars
<1>15. CASE Check
  BY <1>15 DEF Check, hostVars, adapterVars, historyVars
<1>16. CASE ReadNothing
  BY <1>16 DEF ReadNothing, hostVars, adapterVars, historyVars
<1>17. CASE ReadFails
  BY <1>17 DEF ReadFails, hostVars, adapterVars, historyVars, Notified
<1>18. CASE Complete
  BY <1>18 DEF Complete, hostVars, adapterVars, historyVars, Notified
<1>19. CASE UnexpectedEcho
  BY <1>19 DEF UnexpectedEcho, hostVars, adapterVars, historyVars, Notified
<1>20. ASSUME NEW done \in BOOLEAN, NEW reached \in BOOLEAN, Reset(done, reached) PROVE KnownRunning'
  BY <1>20 DEF Reset, hostVars, adapterVars, historyVars
<1>21. ASSUME NEW done \in BOOLEAN, NEW reached \in BOOLEAN, Start(done, reached) PROVE KnownRunning'
  BY <1>21 DEF Start, hostVars, adapterVars, historyVars
<1>22. ASSUME NEW quiet \in BOOLEAN, Drain(quiet) PROVE KnownRunning'
  BY <1>22 DEF Drain, hostVars, adapterVars, historyVars, Drained
<1>23. ASSUME NEW s \in Slots, ReadEcho(s) PROVE KnownRunning'
  BY <1>23 DEF ReadEcho, hostVars, adapterVars, historyVars
<1>24. ASSUME NEW s \in Slots, Transmit(s) PROVE KnownRunning'
  BY <1>24 DEF Transmit, hostVars, adapterVars, historyVars
<1>25. ASSUME NEW s \in Slots, Lose(s) PROVE KnownRunning'
  BY <1>25 DEF Lose, hostVars, adapterVars, historyVars
<1>26. ASSUME NEW s \in Slots, Repeat(s) PROVE KnownRunning'
  BY <1>26 DEF Repeat, hostVars, adapterVars, historyVars
<1> QED
  BY <1>1, <1>2, <1>3, <1>4, <1>5, <1>6, <1>7, <1>8, <1>9, <1>10, <1>11, <1>12,
     <1>13, <1>14, <1>15, <1>16, <1>17, <1>18, <1>19, <1>20, <1>21, <1>22, <1>23,
     <1>24, <1>25, <1>26
  DEF Next, Opening, Sending, Closing, Receiving, Adapter

\* Each step moves a frame on, or takes and gives back a slot together with it.
LEMMA AccountingStep == SlotInv /\ [Next]_vars => SlotAccounting'
<1> SUFFICES ASSUME SlotInv, [Next]_vars PROVE SlotAccounting'
  OBVIOUS
<1> USE SlotsAreNatural
<1> USE DEF SlotInv, PlaceTypes, Places, Cleaned, SlotAccounting, UnderWay, InUse
<1>1. CASE UNCHANGED vars
  BY <1>1 DEF vars, hostVars, adapterVars, historyVars
<1>2. CASE Access
  BY <1>2 DEF Access, hostVars, adapterVars, historyVars
<1>3. CASE OpenFails
  BY <1>3 DEF OpenFails, hostVars, adapterVars, historyVars
<1>4. CASE Commit
  <2>1. echo = NoSlot /\ flight = None
    BY <1>4 DEF Commit
  <2>2. \A s \in Slots : None[s] = 0
    BY DEF None
  <2> QED
    BY <1>4, <2>1, <2>2 DEF Commit, adapterVars
<1>5. CASE Send
  BY <1>5 DEF Send, hostVars, adapterVars, historyVars
<1>6. CASE Sleep
  BY <1>6 DEF Sleep, hostVars, adapterVars, historyVars, Available
<1>7. CASE SendRejected
  BY <1>7 DEF SendRejected, hostVars, adapterVars, historyVars
<1>8. CASE Claim
  <2>1. FirstFree \in Slots \ pending
    BY <1>8, FirstFreeIsFree DEF Claim, Available
  <2> QED
    BY <1>8, <2>1 DEF Claim, hostVars, adapterVars, historyVars
<1>9. CASE Write
  BY <1>9 DEF Write, hostVars, adapterVars, historyVars
<1>10. CASE WriteReturns
  BY <1>10 DEF WriteReturns, hostVars, adapterVars, historyVars
<1>11. CASE WriteFails
  BY <1>11 DEF WriteFails, hostVars, adapterVars, historyVars
<1>12. CASE Close
  BY <1>12 DEF Close, hostVars, adapterVars, historyVars
<1>13. CASE Join
  BY <1>13 DEF Join, hostVars, adapterVars, historyVars
<1>14. CASE Free
  BY <1>14 DEF Free, hostVars, adapterVars, historyVars
<1>15. CASE Check
  BY <1>15 DEF Check, hostVars, adapterVars, historyVars
<1>16. CASE ReadNothing
  BY <1>16 DEF ReadNothing, hostVars, adapterVars, historyVars
<1>17. CASE ReadFails
  BY <1>17 DEF ReadFails, hostVars, adapterVars, historyVars, Notified
<1>18. CASE Complete
  BY <1>18 DEF Complete, hostVars, adapterVars, historyVars, Notified
<1>19. CASE UnexpectedEcho
  BY <1>19 DEF UnexpectedEcho, hostVars, adapterVars, historyVars, Notified
<1>20. ASSUME NEW done \in BOOLEAN, NEW reached \in BOOLEAN, Reset(done, reached) PROVE SlotAccounting'
  BY <1>20 DEF Reset, hostVars, adapterVars, historyVars
<1>21. ASSUME NEW done \in BOOLEAN, NEW reached \in BOOLEAN, Start(done, reached) PROVE SlotAccounting'
  BY <1>21 DEF Start, hostVars, adapterVars, historyVars
<1>22. ASSUME NEW quiet \in BOOLEAN, Drain(quiet) PROVE SlotAccounting'
  BY <1>22 DEF Drain, hostVars, adapterVars, historyVars, Drained
<1>23. ASSUME NEW s \in Slots, ReadEcho(s) PROVE SlotAccounting'
  BY <1>23 DEF ReadEcho, hostVars, adapterVars, historyVars
<1>24. ASSUME NEW s \in Slots, Transmit(s) PROVE SlotAccounting'
  BY <1>24 DEF Transmit, hostVars, adapterVars, historyVars
<1>25. ASSUME NEW s \in Slots, Lose(s) PROVE SlotAccounting'
  BY <1>25 DEF Lose, hostVars, adapterVars, historyVars
<1>26. ASSUME NEW s \in Slots, Repeat(s) PROVE SlotAccounting'
  BY <1>26 DEF Repeat, hostVars, adapterVars, historyVars
<1> QED
  BY <1>1, <1>2, <1>3, <1>4, <1>5, <1>6, <1>7, <1>8, <1>9, <1>10, <1>11, <1>12,
     <1>13, <1>14, <1>15, <1>16, <1>17, <1>18, <1>19, <1>20, <1>21, <1>22, <1>23,
     <1>24, <1>25, <1>26
  DEF Next, Opening, Sending, Closing, Receiving, Adapter

\* An unexpected echo belongs to no frame, which only a fault explains.
LEMMA CauseStep == SlotInv /\ [Next]_vars => FailureHasCause'
<1> SUFFICES ASSUME SlotInv, [Next]_vars PROVE FailureHasCause'
  OBVIOUS
<1> USE DEF SlotInv, Places, FailureHasCause, InUse
<1>1. CASE UNCHANGED vars
  BY <1>1 DEF vars, hostVars, adapterVars, historyVars
<1>2. CASE Access
  BY <1>2 DEF Access, hostVars, adapterVars, historyVars
<1>3. CASE OpenFails
  BY <1>3 DEF OpenFails, hostVars, adapterVars, historyVars
<1>4. CASE Commit
  BY <1>4 DEF Commit, hostVars, adapterVars, historyVars
<1>5. CASE Send
  BY <1>5 DEF Send, hostVars, adapterVars, historyVars
<1>6. CASE Sleep
  BY <1>6 DEF Sleep, hostVars, adapterVars, historyVars, Available
<1>7. CASE SendRejected
  BY <1>7 DEF SendRejected, hostVars, adapterVars, historyVars
<1>8. CASE Claim
  BY <1>8 DEF Claim, hostVars, adapterVars, historyVars, Available
<1>9. CASE Write
  BY <1>9 DEF Write, hostVars, adapterVars, historyVars
<1>10. CASE WriteReturns
  BY <1>10 DEF WriteReturns, hostVars, adapterVars, historyVars
<1>11. CASE WriteFails
  BY <1>11 DEF WriteFails, hostVars, adapterVars, historyVars
<1>12. CASE Close
  BY <1>12 DEF Close, hostVars, adapterVars, historyVars
<1>13. CASE Join
  BY <1>13 DEF Join, hostVars, adapterVars, historyVars
<1>14. CASE Free
  BY <1>14 DEF Free, hostVars, adapterVars, historyVars
<1>15. CASE Check
  BY <1>15 DEF Check, hostVars, adapterVars, historyVars
<1>16. CASE ReadNothing
  BY <1>16 DEF ReadNothing, hostVars, adapterVars, historyVars
<1>17. CASE ReadFails
  BY <1>17 DEF ReadFails, hostVars, adapterVars, historyVars, Notified
<1>18. CASE Complete
  BY <1>18 DEF Complete, hostVars, adapterVars, historyVars, Notified
<1>19. CASE UnexpectedEcho
  <2>1. echo \in Slots /\ UnderWay(echo) # 0
    BY <1>19, SlotsAreNatural DEF UnexpectedEcho, PlaceTypes, UnderWay
  <2>2. InUse => fault
    BY <1>19, <2>1 DEF UnexpectedEcho, SlotAccounting
  <2> QED
    BY <1>19, <2>2 DEF UnexpectedEcho, Notified, historyVars
<1>20. ASSUME NEW done \in BOOLEAN, NEW reached \in BOOLEAN, Reset(done, reached) PROVE FailureHasCause'
  BY <1>20 DEF Reset, hostVars, adapterVars, historyVars
<1>21. ASSUME NEW done \in BOOLEAN, NEW reached \in BOOLEAN, Start(done, reached) PROVE FailureHasCause'
  BY <1>21 DEF Start, hostVars, adapterVars, historyVars
<1>22. ASSUME NEW quiet \in BOOLEAN, Drain(quiet) PROVE FailureHasCause'
  BY <1>22 DEF Drain, hostVars, adapterVars, historyVars, Drained
<1>23. ASSUME NEW s \in Slots, ReadEcho(s) PROVE FailureHasCause'
  BY <1>23 DEF ReadEcho, hostVars, adapterVars, historyVars
<1>24. ASSUME NEW s \in Slots, Transmit(s) PROVE FailureHasCause'
  BY <1>24 DEF Transmit, hostVars, adapterVars, historyVars
<1>25. ASSUME NEW s \in Slots, Lose(s) PROVE FailureHasCause'
  BY <1>25 DEF Lose, hostVars, adapterVars, historyVars
<1>26. ASSUME NEW s \in Slots, Repeat(s) PROVE FailureHasCause'
  BY <1>26 DEF Repeat, hostVars, adapterVars, historyVars
<1> QED
  BY <1>1, <1>2, <1>3, <1>4, <1>5, <1>6, <1>7, <1>8, <1>9, <1>10, <1>11, <1>12,
     <1>13, <1>14, <1>15, <1>16, <1>17, <1>18, <1>19, <1>20, <1>21, <1>22, <1>23,
     <1>24, <1>25, <1>26
  DEF Next, Opening, Sending, Closing, Receiving, Adapter

LEMMA SlotInit == Init => SlotInv /\ KnownRunning /\ FlagTypes
<1> SUFFICES ASSUME Init PROVE SlotInv /\ KnownRunning /\ FlagTypes
  OBVIOUS
<1> USE SlotsAreNatural
<1>1. echoes \in [Slots -> Nat]
  BY DEF Init
<1>2. PlaceTypes
  BY <1>1 DEF Init, PlaceTypes, WorkerStates, ReceiverStates
<1>3. Places /\ Cleaned /\ SlotAccounting /\ FailureHasCause
  BY DEF Init, Places, Cleaned, SlotAccounting, FailureHasCause, InUse
<1>4. KnownRunning
  BY DEF Init, KnownRunning
<1>5. FlagTypes
  BY DEF Init, FlagTypes
<1> QED
  BY <1>2, <1>3, <1>4, <1>5 DEF SlotInv

LEMMA SlotStep ==
    SlotInv /\ KnownRunning /\ FlagTypes /\ [Next]_vars =>
        (SlotInv /\ KnownRunning /\ FlagTypes)'
  BY FlagsStep, PlaceTypesStep, PlacesStep, CleanedStep, KnownRunningStep, AccountingStep,
     CauseStep, Zenon DEF SlotInv

\* Type correctness of the backend, for any number of slots.
THEOREM UsbTypeCorrect == Spec => []TypeOK
<1>1. SlotInv /\ FlagTypes => TypeOK
  BY DEF SlotInv, FlagTypes, PlaceTypes, TypeOK
<1> QED
  BY SlotInit, SlotStep, <1>1, PTL DEF Spec

\* No two frames under way carry the same slot and no slot is lost, whatever the
\* order of echoes (send, receive).
THEOREM SlotAccountingCorrect == Spec => []SlotAccounting
<1>1. SlotInv => SlotAccounting
  BY DEF SlotInv
<1> QED
  BY SlotInit, SlotStep, <1>1, PTL DEF Spec

\* No echo of a working adapter is taken for an unexpected one (receive).
THEOREM FailureHasCauseCorrect == Spec => []FailureHasCause
<1>1. SlotInv => FailureHasCause
  BY DEF SlotInv
<1> QED
  BY SlotInit, SlotStep, <1>1, PTL DEF Spec

\* A closed transport leaves no running adapter behind unless a RESET failed
\* (open, close).
THEOREM ClosedMeansStoppedCorrect == Spec => []ClosedMeansStopped
<1>1. KnownRunning => ClosedMeansStopped
  BY DEF KnownRunning, ClosedMeansStopped, InUse
<1> QED
  BY SlotInit, SlotStep, <1>1, PTL DEF Spec
=============================================================================
