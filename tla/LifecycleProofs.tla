-------------------------- MODULE LifecycleProofs --------------------------
(***************************************************************************)
(* What TLAPS proves of Lifecycle, for every forge, any number of ports,    *)
(* signals and bytes, and whatever fails.                                  *)
(***************************************************************************)
EXTENDS Lifecycle, TLAPS

-----------------------------------------------------------------------------
(* Types.                                                                  *)

\* A forge publishes at least one port.
LEMMA NeedType == kind \in AllKinds => Need \in Nat \ {0}
BY LifecycleAssumption DEF AllKinds, Need

LEMMA TypeInit == Init => TypeOK
<1>. SUFFICES ASSUME Init PROVE TypeOK
  OBVIOUS
<1>1. zero \in BOOLEAN
  BY LifecycleAssumption DEF Init
<1>2. kind \in Kinds /\ Need \in Nat \ {0}
  BY LifecycleAssumption, NeedType DEF Init
<1>3. /\ ports = 0 /\ links = 0 /\ said = 0 /\ handlers = {} /\ caught = FALSE
      /\ step = "check" /\ child = "none" /\ status = 0 /\ result = "none"
      /\ exit = 0 /\ keys = 0 /\ out = 0 /\ todo = 0 /\ typed = 0 /\ signals = 0
  BY DEF Init
<1>4. /\ ports \in 0..Need /\ links \in 0..ports /\ said \in 0..Need
      /\ keys \in 0..PtyBuf /\ out \in 0..PtyBuf /\ todo \in 0..MaxReply
      /\ exit \in 0..255 /\ typed \in Nat /\ signals \in Nat
  BY <1>2, <1>3, LifecycleAssumption
<1>5. /\ handlers \in SUBSET Signals /\ caught \in BOOLEAN /\ step \in Steps
      /\ child \in {"none", "running", "ended", "killed"}
      /\ status \in Statuses \cup {0, Crashed}
      /\ result \in {"none", "ok", "child", "setup", "error", "panic"}
  BY <1>3 DEF Steps
<1>. QED BY <1>1, <1>2, <1>4, <1>5 DEF TypeOK

LEMMA TypeStep == TypeOK /\ [Next]_vars => TypeOK'
<1>. SUFFICES ASSUME TypeOK, [Next]_vars PROVE TypeOK'
  OBVIOUS
<1>. Need \in Nat \ {0}
  BY NeedType, LifecycleAssumption DEF TypeOK
<1>. kind' = kind => Need' = Need
  BY DEF Need
<1>. USE LifecycleAssumption DEF TypeOK, Steps, Signals, Least, vars, setup, device, data
<1>1. CASE Check
  BY <1>1 DEF Check, Goes
<1>2. CASE CheckFails
  BY <1>2 DEF CheckFails, Returns
<1>3. CASE OpenDevice
  BY <1>3 DEF OpenDevice, Goes
<1>4. CASE CreatePort
  BY <1>4 DEF CreatePort
<1>5. CASE ClaimPath
  BY <1>5 DEF ClaimPath, Goes
<1>6. CASE Bind
  BY <1>6 DEF Bind, Goes
<1>7. CASE SetupFails
  BY <1>7 DEF SetupFails, Returns
<1>8. CASE InstallTerm
  BY <1>8 DEF InstallTerm, Goes
<1>9. CASE InstallInt
  BY <1>9 DEF InstallInt, Goes
<1>10. CASE Announce
  BY <1>10 DEF Announce, Goes
<1>11. CASE LateSetupFails
  BY <1>11 DEF LateSetupFails, Returns
<1>12. CASE Start
  BY <1>12 DEF Start, Goes
<1>13. CASE StartPanics
  BY <1>13 DEF StartPanics, Returns
<1>14. CASE SpawnFails
  BY <1>14 DEF SpawnFails, Returns
<1>15. CASE BridgeTaskFails
  BY <1>15 DEF BridgeTaskFails, Returns
<1>16. CASE PresetReads
  BY <1>16 DEF PresetReads, Goes
<1>17. CASE DeliverWrites
  BY <1>17 DEF DeliverWrites, Goes
<1>18. CASE DeliverFails
  BY <1>18 DEF DeliverFails, Returns
<1>19. CASE Shutdown
  BY <1>19 DEF Shutdown, Returns
<1>20. CASE ChildReaped
  BY <1>20 DEF ChildReaped, Returns
<1>21. CASE DropChild
  BY <1>21 DEF DropChild
<1>22. CASE DropLink
  BY <1>22 DEF DropLink
<1>23. CASE Exit
  BY <1>23 DEF Exit, Code
<1>24. CASE ChildEnds
  BY <1>24 DEF ChildEnds, Over
<1>25. CASE ConsumerTypes
  BY <1>25 DEF ConsumerTypes, Over
<1>26. CASE ConsumerReads
  BY <1>26 DEF ConsumerReads
<1>27. ASSUME NEW s \in Signals, Signal(s) PROVE TypeOK'
  <2>1. step' \in Steps /\ signals' \in Nat
    BY <1>27 DEF Signal
  <2>3. caught' = TRUE \/ caught' = caught
    BY <1>27 DEF Signal
  <2>2. UNCHANGED <<kind, zero, setup, device, result, exit, data>>
    BY <1>27 DEF Signal
  <2>. QED BY <2>1, <2>2, <2>3, ZenonT(40)
<1>28. CASE UNCHANGED vars
  BY <1>28
<1>. QED
  BY <1>1, <1>2, <1>3, <1>4, <1>5, <1>6, <1>7, <1>8, <1>9, <1>10,
     <1>11, <1>12, <1>13, <1>14, <1>15, <1>16, <1>17, <1>18, <1>19, <1>20,
     <1>21, <1>22, <1>23, <1>24, <1>25, <1>26, <1>27, <1>28
     DEF Next, Proceeds, Fails

\* Whatever is interrupted or fails, the state stays within its types; above
\* all no path is claimed before its port exists, and the exit status fits.
THEOREM TypeCorrect == Spec => []TypeOK
BY TypeInit, TypeStep, PTL DEF Spec

-----------------------------------------------------------------------------
(* Readiness.                                                              *)

\* By the time there is anything to announce every path is claimed and both
\* handlers are installed; nothing was announced before.
Owned == /\ step = "int" => "TERM" \in handlers
         /\ step \in {"bind", "term", "int", "announce", "start", "deliver", "run"}
              => links = Need
         /\ step \in {"announce", "start", "deliver", "run"} => handlers = Signals
         /\ said > 0 => /\ handlers = Signals
                        /\ step \in {"announce", "start", "deliver", "run", "drop", "exited"}

LEMMA OwnedStep == TypeOK /\ Owned /\ [Next]_vars => Owned'
<1>. SUFFICES ASSUME TypeOK, Owned, [Next]_vars PROVE Owned'
  OBVIOUS
<1>. Need \in Nat \ {0}
  BY NeedType, LifecycleAssumption DEF TypeOK
<1>. kind' = kind => Need' = Need
  BY DEF Need
<1>. USE DEF TypeOK, Owned, Signals, vars, setup, device, data
<1>1. CASE Check
  BY <1>1 DEF Check, Goes
<1>2. CASE CheckFails
  BY <1>2 DEF CheckFails, Returns
<1>3. CASE OpenDevice
  BY <1>3 DEF OpenDevice, Goes
<1>4. CASE CreatePort
  BY <1>4 DEF CreatePort
<1>5. CASE ClaimPath
  BY <1>5 DEF ClaimPath, Goes
<1>6. CASE Bind
  BY <1>6 DEF Bind, Goes
<1>7. CASE SetupFails
  BY <1>7 DEF SetupFails, Returns
<1>8. CASE InstallTerm
  BY <1>8 DEF InstallTerm, Goes
<1>9. CASE InstallInt
  BY <1>9 DEF InstallInt, Goes
<1>10. CASE Announce
  BY <1>10 DEF Announce, Goes
<1>11. CASE LateSetupFails
  BY <1>11 DEF LateSetupFails, Returns
<1>12. CASE Start
  BY <1>12 DEF Start, Goes
<1>13. CASE StartPanics
  BY <1>13 DEF StartPanics, Returns
<1>14. CASE SpawnFails
  BY <1>14 DEF SpawnFails, Returns
<1>15. CASE BridgeTaskFails
  BY <1>15 DEF BridgeTaskFails, Returns
<1>16. CASE PresetReads
  BY <1>16 DEF PresetReads, Goes
<1>17. CASE DeliverWrites
  BY <1>17 DEF DeliverWrites, Goes
<1>18. CASE DeliverFails
  BY <1>18 DEF DeliverFails, Returns
<1>19. CASE Shutdown
  BY <1>19 DEF Shutdown, Returns
<1>20. CASE ChildReaped
  BY <1>20 DEF ChildReaped, Returns
<1>21. CASE DropChild
  BY <1>21 DEF DropChild
<1>22. CASE DropLink
  BY <1>22 DEF DropLink
<1>23. CASE Exit
  BY <1>23 DEF Exit, Code
<1>24. CASE ChildEnds
  BY <1>24 DEF ChildEnds, Over
<1>25. CASE ConsumerTypes
  BY <1>25 DEF ConsumerTypes, Over
<1>26. CASE ConsumerReads
  BY <1>26 DEF ConsumerReads
<1>27. ASSUME NEW s \in Signals, Signal(s) PROVE Owned'
  BY <1>27 DEF Signal, Over
<1>28. CASE UNCHANGED vars
  BY <1>28
<1>. QED
  BY <1>1, <1>2, <1>3, <1>4, <1>5, <1>6, <1>7, <1>8, <1>9, <1>10,
     <1>11, <1>12, <1>13, <1>14, <1>15, <1>16, <1>17, <1>18, <1>19, <1>20,
     <1>21, <1>22, <1>23, <1>24, <1>25, <1>26, <1>27, <1>28
     DEF Next, Proceeds, Fails

\* The readiness line is a promise (signals.rs:1-12): whenever the signals come
\* and whatever fails, once a port is announced every path stays claimed until
\* teardown, and no SIGTERM or SIGINT kills the process.
THEOREM ReadinessIsAPromise == Spec => []ReadyMeansOwned
<1>1. Init => Owned
  BY DEF Init, Owned
<1>2. TypeOK /\ Owned => ReadyMeansOwned
  BY DEF TypeOK, Owned, ReadyMeansOwned, Steps
<1>. QED BY <1>1, <1>2, OwnedStep, TypeCorrect, PTL DEF Spec

-----------------------------------------------------------------------------
(* Teardown.                                                               *)

LEMMA CleanStep == CleanExit /\ [Next]_vars => CleanExit'
<1>. SUFFICES ASSUME CleanExit, [Next]_vars PROVE CleanExit'
  OBVIOUS
<1>. USE DEF CleanExit, vars, setup, device, data
<1>1. CASE Check
  BY <1>1 DEF Check, Goes
<1>2. CASE CheckFails
  BY <1>2 DEF CheckFails, Returns
<1>3. CASE OpenDevice
  BY <1>3 DEF OpenDevice, Goes
<1>4. CASE CreatePort
  BY <1>4 DEF CreatePort
<1>5. CASE ClaimPath
  BY <1>5 DEF ClaimPath, Goes
<1>6. CASE Bind
  BY <1>6 DEF Bind, Goes
<1>7. CASE SetupFails
  BY <1>7 DEF SetupFails, Returns
<1>8. CASE InstallTerm
  BY <1>8 DEF InstallTerm, Goes
<1>9. CASE InstallInt
  BY <1>9 DEF InstallInt, Goes
<1>10. CASE Announce
  BY <1>10 DEF Announce, Goes
<1>11. CASE LateSetupFails
  BY <1>11 DEF LateSetupFails, Returns
<1>12. CASE Start
  BY <1>12 DEF Start, Goes
<1>13. CASE StartPanics
  BY <1>13 DEF StartPanics, Returns
<1>14. CASE SpawnFails
  BY <1>14 DEF SpawnFails, Returns
<1>15. CASE BridgeTaskFails
  BY <1>15 DEF BridgeTaskFails, Returns
<1>16. CASE PresetReads
  BY <1>16 DEF PresetReads, Goes
<1>17. CASE DeliverWrites
  BY <1>17 DEF DeliverWrites, Goes
<1>18. CASE DeliverFails
  BY <1>18 DEF DeliverFails, Returns
<1>19. CASE Shutdown
  BY <1>19 DEF Shutdown, Returns
<1>20. CASE ChildReaped
  BY <1>20 DEF ChildReaped, Returns
<1>21. CASE DropChild
  BY <1>21 DEF DropChild
<1>22. CASE DropLink
  BY <1>22 DEF DropLink
<1>23. CASE Exit
  BY <1>23 DEF Exit, Code
<1>24. CASE ChildEnds
  BY <1>24 DEF ChildEnds, Over
<1>25. CASE ConsumerTypes
  BY <1>25 DEF ConsumerTypes, Over
<1>26. CASE ConsumerReads
  BY <1>26 DEF ConsumerReads
<1>27. ASSUME NEW s \in Signals, Signal(s) PROVE CleanExit'
  BY <1>27 DEF Signal, Over
<1>28. CASE UNCHANGED vars
  BY <1>28
<1>. QED
  BY <1>1, <1>2, <1>3, <1>4, <1>5, <1>6, <1>7, <1>8, <1>9, <1>10,
     <1>11, <1>12, <1>13, <1>14, <1>15, <1>16, <1>17, <1>18, <1>19, <1>20,
     <1>21, <1>22, <1>23, <1>24, <1>25, <1>26, <1>27, <1>28
     DEF Next, Proceeds, Fails

\* A forge that exits by itself, from any step and for any reason, has removed
\* its paths and left no device program running (pty.rs:18-20, sim.rs:190).
THEOREM ExitsClean == Spec => []CleanExit
<1>1. Init => CleanExit
  BY DEF Init, CleanExit
<1>. QED BY <1>1, CleanStep, PTL DEF Spec

-----------------------------------------------------------------------------
(* Exit statuses.                                                          *)

\* What `run` returns says how it ended: nothing before it returns, and each
\* result only when what it stands for has happened.  The last conjunct ties
\* the exit status to it.
ResultTold ==
  /\ step \in {"drop", "exited"} => result # "none"
  /\ step \notin {"drop", "exited", "killed"} => result = "none"
  /\ child # "none" => /\ kind = "exec" /\ result \in {"none", "ok", "child"}
                       /\ step \in {"run", "drop", "exited", "killed"}
  /\ child # "ended" => status = 0
  /\ result = "ok" => caught \/ (child = "ended" /\ status = 0)
  /\ result = "child" => child = "ended" /\ status # 0
  /\ result = "setup" => said = 0 \/ kind = "exec"
  /\ step = "exited" => exit = Code

\* Every step keeps what the result says true.
LEMMA ResultStep == TypeOK /\ Owned /\ ResultTold /\ [Next]_vars => ResultTold'
<1>. SUFFICES ASSUME TypeOK, Owned, ResultTold, [Next]_vars PROVE ResultTold'
  OBVIOUS
<1>. (UNCHANGED <<result, status>>) => Code' = Code
  BY DEF Code
<1>. USE DEF ResultTold, vars, setup, device, data
<1>1. CASE Check
  BY <1>1 DEF Check, Goes
<1>2. CASE CheckFails
  BY <1>2 DEF CheckFails, Returns, Owned, TypeOK
<1>3. CASE OpenDevice
  BY <1>3 DEF OpenDevice, Goes
<1>4. CASE CreatePort
  BY <1>4 DEF CreatePort
<1>5. CASE ClaimPath
  BY <1>5 DEF ClaimPath, Goes
<1>6. CASE Bind
  BY <1>6 DEF Bind, Goes
<1>7. CASE SetupFails
  BY <1>7 DEF SetupFails, Returns, Owned, TypeOK
<1>8. CASE InstallTerm
  BY <1>8 DEF InstallTerm, Goes
<1>9. CASE InstallInt
  BY <1>9 DEF InstallInt, Goes
<1>10. CASE Announce
  <2>1. /\ result = "none" /\ result' = "none" /\ step' \in {"start", "announce"}
        /\ step = "announce" /\ UNCHANGED <<kind, caught, device, exit>>
    BY <1>10 DEF Announce, Goes
  <2>. QED BY <2>1
<1>11. CASE LateSetupFails
  BY <1>11 DEF LateSetupFails, Returns
<1>12. CASE Start
  <2>1. /\ result = "none" /\ result' = "none" /\ step' \in {"deliver", "run"}
        /\ step = "start" /\ UNCHANGED <<kind, caught, status, exit, said>>
        /\ child' = IF kind = "exec" THEN "running" ELSE "none"
    BY <1>12 DEF Start, Goes
  <2>2. kind = "exec" => step' = "run"
    BY <1>12 DEF Start, Goes
  <2>. QED BY <2>1, <2>2
<1>13. CASE StartPanics
  BY <1>13 DEF StartPanics, Returns
<1>14. CASE SpawnFails
  BY <1>14 DEF SpawnFails, Returns
<1>15. CASE BridgeTaskFails
  BY <1>15 DEF BridgeTaskFails, Returns
<1>16. CASE PresetReads
  BY <1>16 DEF PresetReads, Goes
<1>17. CASE DeliverWrites
  BY <1>17 DEF DeliverWrites, Goes
<1>18. CASE DeliverFails
  BY <1>18 DEF DeliverFails, Returns
<1>19. CASE Shutdown
  BY <1>19 DEF Shutdown, Returns
<1>20. CASE ChildReaped
  BY <1>20 DEF ChildReaped, Returns
<1>21. CASE DropChild
  BY <1>21 DEF DropChild
<1>22. CASE DropLink
  BY <1>22 DEF DropLink
<1>23. CASE Exit
  BY <1>23 DEF Exit
<1>24. CASE ChildEnds
  BY <1>24 DEF ChildEnds, Over
<1>25. CASE ConsumerTypes
  BY <1>25 DEF ConsumerTypes, Over
<1>26. CASE ConsumerReads
  BY <1>26 DEF ConsumerReads
<1>27. ASSUME NEW s \in Signals, Signal(s) PROVE ResultTold'
  BY <1>27 DEF Signal, Over
<1>28. CASE UNCHANGED vars
  BY <1>28
<1>. QED
  BY <1>1, <1>2, <1>3, <1>4, <1>5, <1>6, <1>7, <1>8, <1>9, <1>10,
     <1>11, <1>12, <1>13, <1>14, <1>15, <1>16, <1>17, <1>18, <1>19, <1>20,
     <1>21, <1>22, <1>23, <1>24, <1>25, <1>26, <1>27, <1>28
     DEF Next, Proceeds, Fails

\* Some of the ports exist, not all.
Halfway == 0 < ports /\ ports < Need

\* A forge that is halfway through its ports has only one way out.
HalfwayTold == /\ step = "check" => ports = 0
               /\ step \in {"drop", "exited"} /\ Halfway => result = "setup"

\* Every step keeps that: from the TCP bind on all ports exist.
LEMMA HalfwayStep == TypeOK /\ Owned /\ HalfwayTold /\ [Next]_vars => HalfwayTold'
<1>. SUFFICES ASSUME TypeOK, Owned, HalfwayTold, [Next]_vars PROVE HalfwayTold'
  OBVIOUS
<1>1. UNCHANGED <<kind, ports>> => (Halfway' <=> Halfway)
  BY DEF Halfway, Need
<1>2. step \in {"bind", "term", "int", "announce", "start", "deliver", "run"} => ~Halfway
  BY NeedType, LifecycleAssumption DEF TypeOK, Owned, Halfway
<1>3. step = "check" => ~Halfway
  BY DEF HalfwayTold, Halfway
<1>4. CASE CreatePort
  BY <1>4 DEF CreatePort, HalfwayTold
<1>5. CASE step' = step /\ UNCHANGED <<kind, ports, result>>
  BY <1>1, <1>5 DEF HalfwayTold
<1>6. CASE Check \/ OpenDevice \/ ClaimPath \/ Bind \/ InstallTerm \/ InstallInt
             \/ Announce \/ Start \/ PresetReads \/ DeliverWrites
  BY <1>6 DEF Check, OpenDevice, ClaimPath, Bind, InstallTerm, InstallInt, Announce,
              Start, PresetReads, DeliverWrites, Goes, HalfwayTold
<1>7. CASE CheckFails \/ LateSetupFails \/ StartPanics \/ SpawnFails \/ BridgeTaskFails
             \/ DeliverFails \/ Shutdown \/ ChildReaped
  <2>1. step' = "drop" /\ UNCHANGED <<kind, ports>> /\ ~Halfway
    BY <1>2, <1>3, <1>7 DEF CheckFails, LateSetupFails, StartPanics, SpawnFails,
       BridgeTaskFails, DeliverFails, Shutdown, ChildReaped, Returns, setup
  <2>. QED BY <1>1, <2>1 DEF HalfwayTold
<1>8. CASE SetupFails
  BY <1>8 DEF SetupFails, Returns, HalfwayTold
<1>9. CASE Exit
  BY <1>1, <1>9 DEF Exit, HalfwayTold, setup
<1>10. ASSUME NEW s \in Signals, Signal(s) PROVE HalfwayTold'
  BY <1>1, <1>10 DEF Signal, HalfwayTold, setup
<1>11. CASE \/ DropChild \/ DropLink \/ ChildEnds \/ ConsumerTypes \/ ConsumerReads
            \/ UNCHANGED vars
  BY <1>5, <1>11 DEF DropChild, DropLink, ChildEnds, ConsumerTypes, ConsumerReads,
                     vars, setup
<1>. QED BY <1>4, <1>6, <1>7, <1>8, <1>9, <1>10, <1>11 DEF Next, Proceeds, Fails

\* A program's status is passed on, only a forge told to stop or whose program ended
\* exits 0, and one that had some of its ports exits 3 (main.rs:187-208), whatever is
\* caught, fails or ends in whatever order.
THEOREM ExitStatusTold == Spec => []ExitStatusTells
<1>1. Init => Owned /\ ResultTold /\ HalfwayTold
  BY DEF Init, Owned, ResultTold, HalfwayTold
<1>2. TypeOK /\ ResultTold /\ HalfwayTold => ExitStatusTells
  BY LifecycleAssumption DEF TypeOK, ResultTold, HalfwayTold, Halfway, ExitStatusTells, Code
<1>. QED BY <1>1, <1>2, OwnedStep, ResultStep, HalfwayStep, TypeCorrect, PTL DEF Spec

\* Where no device program is run the documentation of 0 and 3 is true
\* (README:52-53): 3 is a failure before anything was announced, 0 a forge that was
\* told to stop.  With one, both are false (run lifecycle_exit, MCLifecycleCrash.cfg).
THEOREM DocumentedWithoutProgram ==
  ASSUME "exec" \notin Kinds
  PROVE  Spec => [](ThreeMeansNoPort /\ ZeroMeansClean)
<1>1. Init => Owned /\ ResultTold
  BY DEF Init, Owned, ResultTold
<1>2. TypeOK /\ ResultTold => ThreeMeansNoPort /\ ZeroMeansClean
  BY DEF TypeOK, ResultTold, ThreeMeansNoPort, ZeroMeansClean, Code
<1>. QED BY <1>1, <1>2, OwnedStep, ResultStep, TypeCorrect, PTL DEF Spec
=============================================================================
