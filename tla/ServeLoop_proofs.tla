-------------------------- MODULE ServeLoop_proofs --------------------------
(***************************************************************************)
(* The loop of serve for every interval, batch and poll size, and every    *)
(* duration of its polls: health is neither too strict nor too lenient, a  *)
(* stop ends the loop in time and is followed by one row at most.          *)
(***************************************************************************)
EXTENDS ServeLoop, TLAPS

LEMMA LimitsTyped ==
  /\ Tolerated \in Nat /\ OldAge \in Nat /\ OldRead \in Nat /\ LongAgo \in Nat
  /\ OldAge = Tolerated + 1 /\ OldRead = Tolerated + RoundTime + 1
  /\ LongAgo = RoundTime + UsersTime + 1
  BY LoopAssumption DEF Tolerated, OldAge, OldRead, LongAgo

-----------------------------------------------------------------------------
(* The inductive invariant.                                                *)

(* What is left of the backlog, of the batch and of the poll's cap.        *)
Counted ==
  /\ at = "row" => batch > 0
  /\ batch <= waiting
  /\ round + batch <= RoundRows

(* A poll does not outlast its time.                                       *)
Timed ==
  /\ at \in {"open", "fetch", "row"} => spent <= RoundTime
  /\ at = "users" => spent <= UsersTime

(* How old the alive file is along one turn of the loop.                   *)
Aged ==
  smooth =>
    /\ at \notin {"down", "begin"}
    /\ at = "users" => age <= spent
    /\ at = "wait" => age + left <= UsersTime + Interval
    /\ at = "loop" => age <= UsersTime + Interval
    /\ at \in {"open", "fetch", "row"} => age <= UsersTime + Interval + spent

(* How long the last look at the log precedes the last touch.              *)
Looked ==
  /\ at \in {"fetch", "row"} => read <= spent
  /\ age < OldAge => read <= age + RoundTime

(* The rows that a stop still lets through.                                *)
Stopped ==
  /\ late <= 1
  /\ ~stop \/ at \in {"row", "down"} => late = 0

(* The time since the stop: what the poll under way took, after that of    *)
(* the log if it is the users file's.                                      *)
StopTimed ==
  /\ ~stop => since = 0
  /\ at \in {"down", "begin"} => since = 0
  /\ at \in {"open", "fetch", "row"} => since <= spent
  /\ at = "users" => since <= RoundTime + spent
  /\ since <= RoundTime + UsersTime

Inv == TypeOK /\ Counted /\ Timed /\ Aged /\ Looked /\ Stopped /\ StopTimed

-----------------------------------------------------------------------------
LEMMA InitInv == Init => Inv
<1> SUFFICES ASSUME Init PROVE Inv
  OBVIOUS
<1> USE LoopAssumption, LimitsTyped DEF Init, Looping
<1>1. /\ at \in Looping \cup {"down", "begin", "close"}
      /\ log \in {"readable", "locked", "absent"} /\ users \in {"known", "changed", "raises"}
      /\ status \in {0, 1, 2, 137} /\ chain \in {"none", "open", "shut", "lone"}
  OBVIOUS
<1>2. /\ stop \in BOOLEAN /\ wanted \in BOOLEAN /\ full \in BOOLEAN
      /\ smooth \in BOOLEAN /\ beating \in BOOLEAN
  OBVIOUS
<1>3. /\ waiting \in 0 .. MaxWaiting /\ round \in 0 .. RoundRows /\ batch \in 0 .. BatchRows
      /\ left \in 0 .. Interval /\ spent \in Nat /\ late \in 0 .. 2 /\ since \in 0 .. LongAgo
      /\ stops \in 0 .. MaxStops /\ faults \in 0 .. MaxFaults
  OBVIOUS
<1>4. age \in 0 .. OldAge /\ read \in 0 .. OldRead
  OBVIOUS
<1>5. TypeOK
  BY ONLY <1>1, <1>2, <1>3, <1>4 DEF TypeOK
<1>6. Counted /\ Timed /\ Aged
  BY DEF Counted, Timed, Aged
<1>7. Looked /\ Stopped /\ StopTimed
  BY DEF Looked, Stopped, StopTimed
<1> QED
  BY <1>5, <1>6, <1>7 DEF Inv

(* Type correctness.                                                       *)
LEMMA TypeStep ==
  ASSUME TypeOK, Counted, [Next]_vars
  PROVE  TypeOK'
<1> USE LoopAssumption, LimitsTyped DEF TypeOK, Counted, Looping, Outside, Poll, Alive, Ending, Stopping, Bounds
<1>1. CASE Start
  BY <1>1, ZenonT(60) DEF Start
<1>2. CASE Begin
  BY <1>2 DEF Begin
<1>3. CASE Turn
  BY <1>3 DEF Turn, Following
<1>4. CASE Open
  BY <1>4 DEF Open
<1>5. CASE Fetch
  BY <1>5 DEF Fetch, Limit, GoesOn
<1>6. CASE Row
  BY <1>6 DEF Row
<1>7. CASE Exported
  BY <1>7 DEF Exported, Touch, Following
<1>8. CASE NotExported
  <2> USE <1>8 DEF NotExported, NotTouched, Following
  <2>1. /\ at' \in Looping \cup {"down", "begin", "close"}
        /\ log' \in {"readable", "locked", "absent"} /\ users' \in {"known", "changed", "raises"}
        /\ status' \in {0, 1, 2, 137} /\ chain' \in {"none", "open", "shut", "lone"}
    OBVIOUS
  <2>2. /\ stop' \in BOOLEAN /\ wanted' \in BOOLEAN /\ full' \in BOOLEAN
        /\ smooth' \in BOOLEAN /\ beating' \in BOOLEAN
    OBVIOUS
  <2>3. /\ waiting' \in 0 .. MaxWaiting /\ round' \in 0 .. RoundRows /\ batch' \in 0 .. BatchRows
        /\ left' \in 0 .. Interval /\ spent' \in Nat /\ late' \in 0 .. 2 /\ since' \in 0 .. LongAgo
        /\ stops' \in 0 .. MaxStops /\ faults' \in 0 .. MaxFaults
    OBVIOUS
  <2>4. age' \in 0 .. OldAge /\ read' \in 0 .. OldRead
    OBVIOUS
  <2> QED
    BY ONLY <2>1, <2>2, <2>3, <2>4 DEF TypeOK
<1>9. CASE UsersPolled
  BY <1>9 DEF UsersPolled, Pause, Following
<1>10. CASE UsersRaises
  BY <1>10 DEF UsersRaises, Fails
<1>11. CASE Waited
  BY <1>11 DEF Waited, WaitOver
<1>12. CASE Close
  <2> USE <1>12 DEF Close, Gone
  <2>1. /\ at' \in Looping \cup {"down", "begin", "close"}
        /\ log' \in {"readable", "locked", "absent"} /\ users' \in {"known", "changed", "raises"}
        /\ status' \in {0, 1, 2, 137} /\ chain' \in {"none", "open", "shut", "lone"}
    OBVIOUS
  <2>2. /\ stop' \in BOOLEAN /\ wanted' \in BOOLEAN /\ full' \in BOOLEAN
        /\ smooth' \in BOOLEAN /\ beating' \in BOOLEAN
    OBVIOUS
  <2>3. /\ waiting' \in 0 .. MaxWaiting /\ round' \in 0 .. RoundRows /\ batch' \in 0 .. BatchRows
        /\ left' \in 0 .. Interval /\ spent' \in Nat /\ late' \in 0 .. 2 /\ since' \in 0 .. LongAgo
        /\ stops' \in 0 .. MaxStops /\ faults' \in 0 .. MaxFaults
    OBVIOUS
  <2>4. age' \in 0 .. OldAge /\ read' \in 0 .. OldRead
    OBVIOUS
  <2> QED
    BY ONLY <2>1, <2>2, <2>3, <2>4 DEF TypeOK
<1>13. CASE Refused
  <2> USE <1>13 DEF Refused, Fault, Gone
  <2>1. /\ at' \in Looping \cup {"down", "begin", "close"}
        /\ log' \in {"readable", "locked", "absent"} /\ users' \in {"known", "changed", "raises"}
        /\ status' \in {0, 1, 2, 137} /\ chain' \in {"none", "open", "shut", "lone"}
    OBVIOUS
  <2>2. /\ stop' \in BOOLEAN /\ wanted' \in BOOLEAN /\ full' \in BOOLEAN
        /\ smooth' \in BOOLEAN /\ beating' \in BOOLEAN
    OBVIOUS
  <2>3. /\ waiting' \in 0 .. MaxWaiting /\ round' \in 0 .. RoundRows /\ batch' \in 0 .. BatchRows
        /\ left' \in 0 .. Interval /\ spent' \in Nat /\ late' \in 0 .. 2 /\ since' \in 0 .. LongAgo
        /\ stops' \in 0 .. MaxStops /\ faults' \in 0 .. MaxFaults
    OBVIOUS
  <2>4. age' \in 0 .. OldAge /\ read' \in 0 .. OldRead
    OBVIOUS
  <2> QED
    BY ONLY <2>1, <2>2, <2>3, <2>4 DEF TypeOK
<1>14. CASE BeginFails
  BY <1>14 DEF BeginFails, Fault, Fails
<1>15. CASE ExportFails
  BY <1>15 DEF ExportFails, Fault, Fails
<1>16. CASE UsersFails
  BY <1>16 DEF UsersFails, Fault, Fails
<1>17. CASE CloseFails
  <2> USE <1>17 DEF CloseFails, Fault, Gone
  <2>1. /\ at' \in Looping \cup {"down", "begin", "close"}
        /\ log' \in {"readable", "locked", "absent"} /\ users' \in {"known", "changed", "raises"}
        /\ status' \in {0, 1, 2, 137} /\ chain' \in {"none", "open", "shut", "lone"}
    OBVIOUS
  <2>2. /\ stop' \in BOOLEAN /\ wanted' \in BOOLEAN /\ full' \in BOOLEAN
        /\ smooth' \in BOOLEAN /\ beating' \in BOOLEAN
    OBVIOUS
  <2>3. /\ waiting' \in 0 .. MaxWaiting /\ round' \in 0 .. RoundRows /\ batch' \in 0 .. BatchRows
        /\ left' \in 0 .. Interval /\ spent' \in Nat /\ late' \in 0 .. 2 /\ since' \in 0 .. LongAgo
        /\ stops' \in 0 .. MaxStops /\ faults' \in 0 .. MaxFaults
    OBVIOUS
  <2>4. age' \in 0 .. OldAge /\ read' \in 0 .. OldRead
    OBVIOUS
  <2> QED
    BY ONLY <2>1, <2>2, <2>3, <2>4 DEF TypeOK
<1>18. CASE Kill
  <2> USE <1>18 DEF Kill, Fault, Gone
  <2>1. /\ at' \in Looping \cup {"down", "begin", "close"}
        /\ log' \in {"readable", "locked", "absent"} /\ users' \in {"known", "changed", "raises"}
        /\ status' \in {0, 1, 2, 137} /\ chain' \in {"none", "open", "shut", "lone"}
    OBVIOUS
  <2>2. /\ stop' \in BOOLEAN /\ wanted' \in BOOLEAN /\ full' \in BOOLEAN
        /\ smooth' \in BOOLEAN /\ beating' \in BOOLEAN
    OBVIOUS
  <2>3. /\ waiting' \in 0 .. MaxWaiting /\ round' \in 0 .. RoundRows /\ batch' \in 0 .. BatchRows
        /\ left' \in 0 .. Interval /\ spent' \in Nat /\ late' \in 0 .. 2 /\ since' \in 0 .. LongAgo
        /\ stops' \in 0 .. MaxStops /\ faults' \in 0 .. MaxFaults
    OBVIOUS
  <2>4. age' \in 0 .. OldAge /\ read' \in 0 .. OldRead
    OBVIOUS
  <2> QED
    BY ONLY <2>1, <2>2, <2>3, <2>4 DEF TypeOK
<1>19. CASE StopContainer
  <2> USE <1>19 DEF StopContainer
  <2>1. /\ at' \in Looping \cup {"down", "begin", "close"}
        /\ log' \in {"readable", "locked", "absent"} /\ users' \in {"known", "changed", "raises"}
        /\ status' \in {0, 1, 2, 137} /\ chain' \in {"none", "open", "shut", "lone"}
    OBVIOUS
  <2>2. /\ stop' \in BOOLEAN /\ wanted' \in BOOLEAN /\ full' \in BOOLEAN
        /\ smooth' \in BOOLEAN /\ beating' \in BOOLEAN
    OBVIOUS
  <2>3. /\ waiting' \in 0 .. MaxWaiting /\ round' \in 0 .. RoundRows /\ batch' \in 0 .. BatchRows
        /\ left' \in 0 .. Interval /\ spent' \in Nat /\ late' \in 0 .. 2 /\ since' \in 0 .. LongAgo
        /\ stops' \in 0 .. MaxStops /\ faults' \in 0 .. MaxFaults
    OBVIOUS
  <2>4. age' \in 0 .. OldAge /\ read' \in 0 .. OldRead
    OBVIOUS
  <2> QED
    BY ONLY <2>1, <2>2, <2>3, <2>4 DEF TypeOK
<1>20. CASE StartContainer
  BY <1>20 DEF StartContainer
<1>21. CASE LogIn
  BY <1>21 DEF LogIn
<1>22. CASE LogBecomes
  BY <1>22 DEF LogBecomes
<1>23. CASE Edit
  BY <1>23 DEF Edit
<1>24. CASE Tick
  <2> USE <1>24 DEF Tick, WaitOver
  <2>1. /\ at' \in Looping \cup {"down", "begin", "close"}
        /\ log' \in {"readable", "locked", "absent"} /\ users' \in {"known", "changed", "raises"}
        /\ status' \in {0, 1, 2, 137} /\ chain' \in {"none", "open", "shut", "lone"}
    OBVIOUS
  <2>2. /\ stop' \in BOOLEAN /\ wanted' \in BOOLEAN /\ full' \in BOOLEAN
        /\ smooth' \in BOOLEAN /\ beating' \in BOOLEAN
    OBVIOUS
  <2>3. /\ waiting' \in 0 .. MaxWaiting /\ round' \in 0 .. RoundRows /\ batch' \in 0 .. BatchRows
        /\ left' \in 0 .. Interval /\ spent' \in Nat /\ late' \in 0 .. 2 /\ since' \in 0 .. LongAgo
        /\ stops' \in 0 .. MaxStops /\ faults' \in 0 .. MaxFaults
    OBVIOUS
  <2>4. age' \in 0 .. OldAge /\ read' \in 0 .. OldRead
    OBVIOUS
  <2> QED
    BY ONLY <2>1, <2>2, <2>3, <2>4 DEF TypeOK
<1>25. CASE HeartbeatFails
  <2> USE <1>25 DEF HeartbeatFails, Fault
  <2>1. /\ at' \in Looping \cup {"down", "begin", "close"}
        /\ log' \in {"readable", "locked", "absent"} /\ users' \in {"known", "changed", "raises"}
        /\ status' \in {0, 1, 2, 137} /\ chain' \in {"none", "open", "shut", "lone"}
    OBVIOUS
  <2>2. /\ stop' \in BOOLEAN /\ wanted' \in BOOLEAN /\ full' \in BOOLEAN
        /\ smooth' \in BOOLEAN /\ beating' \in BOOLEAN
    OBVIOUS
  <2>3. /\ waiting' \in 0 .. MaxWaiting /\ round' \in 0 .. RoundRows /\ batch' \in 0 .. BatchRows
        /\ left' \in 0 .. Interval /\ spent' \in Nat /\ late' \in 0 .. 2 /\ since' \in 0 .. LongAgo
        /\ stops' \in 0 .. MaxStops /\ faults' \in 0 .. MaxFaults
    OBVIOUS
  <2>4. age' \in 0 .. OldAge /\ read' \in 0 .. OldRead
    OBVIOUS
  <2> QED
    BY ONLY <2>1, <2>2, <2>3, <2>4 DEF TypeOK
<1>26. CASE UNCHANGED vars
  BY <1>26 DEF vars
<1> QED
  BY <1>1, <1>2, <1>3, <1>4, <1>5, <1>6, <1>7, <1>8, <1>9, <1>10, <1>11, <1>12, <1>13, <1>14, <1>15, <1>16, <1>17, <1>18, <1>19, <1>20, <1>21, <1>22, <1>23, <1>24, <1>25, <1>26 DEF Next, Step, Trouble, Surroundings

(* The counts.                                                             *)
LEMMA CountedStep ==
  ASSUME TypeOK, Counted, [Next]_vars
  PROVE  Counted'
<1> USE LoopAssumption, LimitsTyped DEF TypeOK, Counted, Looping, Outside, Poll, Alive, Ending, Stopping, Bounds
<1>1. CASE Start
  BY <1>1 DEF Start
<1>2. CASE Begin
  BY <1>2 DEF Begin
<1>3. CASE Turn
  BY <1>3 DEF Turn, Following
<1>4. CASE Open
  BY <1>4 DEF Open
<1>5. CASE Fetch
  BY <1>5 DEF Fetch, Limit, GoesOn
<1>6. CASE Row
  BY <1>6 DEF Row
<1>7. CASE Exported
  BY <1>7 DEF Exported, Touch, Following
<1>8. CASE NotExported
  BY <1>8 DEF NotExported, NotTouched, Following
<1>9. CASE UsersPolled
  BY <1>9 DEF UsersPolled, Pause, Following
<1>10. CASE UsersRaises
  BY <1>10 DEF UsersRaises, Fails
<1>11. CASE Waited
  BY <1>11 DEF Waited, WaitOver
<1>12. CASE Close
  BY <1>12 DEF Close, Gone
<1>13. CASE Refused
  BY <1>13 DEF Refused, Fault, Gone
<1>14. CASE BeginFails
  BY <1>14 DEF BeginFails, Fault, Fails
<1>15. CASE ExportFails
  BY <1>15 DEF ExportFails, Fault, Fails
<1>16. CASE UsersFails
  BY <1>16 DEF UsersFails, Fault, Fails
<1>17. CASE CloseFails
  BY <1>17 DEF CloseFails, Fault, Gone
<1>18. CASE Kill
  BY <1>18 DEF Kill, Fault, Gone
<1>19. CASE StopContainer
  BY <1>19 DEF StopContainer
<1>20. CASE StartContainer
  BY <1>20 DEF StartContainer
<1>21. CASE LogIn
  BY <1>21 DEF LogIn
<1>22. CASE LogBecomes
  BY <1>22 DEF LogBecomes
<1>23. CASE Edit
  BY <1>23 DEF Edit
<1>24. CASE Tick
  BY <1>24 DEF Tick, WaitOver
<1>25. CASE HeartbeatFails
  BY <1>25 DEF HeartbeatFails, Fault
<1>26. CASE UNCHANGED vars
  BY <1>26 DEF vars
<1> QED
  BY <1>1, <1>2, <1>3, <1>4, <1>5, <1>6, <1>7, <1>8, <1>9, <1>10, <1>11, <1>12, <1>13, <1>14, <1>15, <1>16, <1>17, <1>18, <1>19, <1>20, <1>21, <1>22, <1>23, <1>24, <1>25, <1>26 DEF Next, Step, Trouble, Surroundings

(* The times.                                                              *)
LEMMA TimedStep ==
  ASSUME TypeOK, Timed, [Next]_vars
  PROVE  Timed'
<1> USE LoopAssumption, LimitsTyped DEF TypeOK, Timed, Looping, Outside, Poll, Alive, Ending, Stopping, Bounds
<1>1. CASE Start
  BY <1>1 DEF Start
<1>2. CASE Begin
  BY <1>2 DEF Begin
<1>3. CASE Turn
  BY <1>3 DEF Turn, Following
<1>4. CASE Open
  BY <1>4 DEF Open
<1>5. CASE Fetch
  BY <1>5 DEF Fetch, Limit, GoesOn
<1>6. CASE Row
  BY <1>6 DEF Row
<1>7. CASE Exported
  BY <1>7 DEF Exported, Touch, Following
<1>8. CASE NotExported
  BY <1>8 DEF NotExported, NotTouched, Following
<1>9. CASE UsersPolled
  BY <1>9 DEF UsersPolled, Pause, Following
<1>10. CASE UsersRaises
  BY <1>10 DEF UsersRaises, Fails
<1>11. CASE Waited
  BY <1>11 DEF Waited, WaitOver
<1>12. CASE Close
  BY <1>12 DEF Close, Gone
<1>13. CASE Refused
  BY <1>13 DEF Refused, Fault, Gone
<1>14. CASE BeginFails
  BY <1>14 DEF BeginFails, Fault, Fails
<1>15. CASE ExportFails
  BY <1>15 DEF ExportFails, Fault, Fails
<1>16. CASE UsersFails
  BY <1>16 DEF UsersFails, Fault, Fails
<1>17. CASE CloseFails
  BY <1>17 DEF CloseFails, Fault, Gone
<1>18. CASE Kill
  BY <1>18 DEF Kill, Fault, Gone
<1>19. CASE StopContainer
  BY <1>19 DEF StopContainer
<1>20. CASE StartContainer
  BY <1>20 DEF StartContainer
<1>21. CASE LogIn
  BY <1>21 DEF LogIn
<1>22. CASE LogBecomes
  BY <1>22 DEF LogBecomes
<1>23. CASE Edit
  BY <1>23 DEF Edit
<1>24. CASE Tick
  BY <1>24 DEF Tick, WaitOver
<1>25. CASE HeartbeatFails
  BY <1>25 DEF HeartbeatFails, Fault
<1>26. CASE UNCHANGED vars
  BY <1>26 DEF vars
<1> QED
  BY <1>1, <1>2, <1>3, <1>4, <1>5, <1>6, <1>7, <1>8, <1>9, <1>10, <1>11, <1>12, <1>13, <1>14, <1>15, <1>16, <1>17, <1>18, <1>19, <1>20, <1>21, <1>22, <1>23, <1>24, <1>25, <1>26 DEF Next, Step, Trouble, Surroundings

(* The age of the alive file.                                              *)
LEMMA AgedStep ==
  ASSUME TypeOK, Timed, Aged, [Next]_vars
  PROVE  Aged'
<1> USE LoopAssumption, LimitsTyped DEF TypeOK, Timed, Aged, Looping, Outside, Poll, Alive, Ending, Stopping, Bounds
<1>1. CASE Start
  BY <1>1 DEF Start
<1>2. CASE Begin
  BY <1>2 DEF Begin
<1>3. CASE Turn
  BY <1>3 DEF Turn, Following
<1>4. CASE Open
  BY <1>4 DEF Open
<1>5. CASE Fetch
  BY <1>5 DEF Fetch, Limit, GoesOn
<1>6. CASE Row
  BY <1>6 DEF Row
<1>7. CASE Exported
  BY <1>7 DEF Exported, Touch, Following
<1>8. CASE NotExported
  BY <1>8 DEF NotExported, NotTouched, Following
<1>9. CASE UsersPolled
  BY <1>9 DEF UsersPolled, Pause, Following
<1>10. CASE UsersRaises
  BY <1>10 DEF UsersRaises, Fails
<1>11. CASE Waited
  BY <1>11 DEF Waited, WaitOver
<1>12. CASE Close
  BY <1>12 DEF Close, Gone
<1>13. CASE Refused
  BY <1>13 DEF Refused, Fault, Gone
<1>14. CASE BeginFails
  BY <1>14 DEF BeginFails, Fault, Fails
<1>15. CASE ExportFails
  BY <1>15 DEF ExportFails, Fault, Fails
<1>16. CASE UsersFails
  BY <1>16 DEF UsersFails, Fault, Fails
<1>17. CASE CloseFails
  BY <1>17 DEF CloseFails, Fault, Gone
<1>18. CASE Kill
  BY <1>18 DEF Kill, Fault, Gone
<1>19. CASE StopContainer
  BY <1>19 DEF StopContainer
<1>20. CASE StartContainer
  BY <1>20 DEF StartContainer
<1>21. CASE LogIn
  BY <1>21 DEF LogIn
<1>22. CASE LogBecomes
  BY <1>22 DEF LogBecomes
<1>23. CASE Edit
  BY <1>23 DEF Edit
<1>24. CASE Tick
  BY <1>24 DEF Tick, WaitOver
<1>25. CASE HeartbeatFails
  BY <1>25 DEF HeartbeatFails, Fault
<1>26. CASE UNCHANGED vars
  BY <1>26 DEF vars
<1> QED
  BY <1>1, <1>2, <1>3, <1>4, <1>5, <1>6, <1>7, <1>8, <1>9, <1>10, <1>11, <1>12, <1>13, <1>14, <1>15, <1>16, <1>17, <1>18, <1>19, <1>20, <1>21, <1>22, <1>23, <1>24, <1>25, <1>26 DEF Next, Step, Trouble, Surroundings

(* The last look at the log.                                               *)
LEMMA LookedStep ==
  ASSUME TypeOK, Timed, Looked, [Next]_vars
  PROVE  Looked'
<1> USE LoopAssumption, LimitsTyped DEF TypeOK, Timed, Looked, Looping, Outside, Poll, Alive, Ending, Stopping, Bounds
<1>1. CASE Start
  BY <1>1 DEF Start
<1>2. CASE Begin
  BY <1>2 DEF Begin
<1>3. CASE Turn
  BY <1>3 DEF Turn, Following
<1>4. CASE Open
  BY <1>4 DEF Open
<1>5. CASE Fetch
  BY <1>5 DEF Fetch, Limit, GoesOn
<1>6. CASE Row
  BY <1>6 DEF Row
<1>7. CASE Exported
  BY <1>7 DEF Exported, Touch, Following
<1>8. CASE NotExported
  BY <1>8 DEF NotExported, NotTouched, Following
<1>9. CASE UsersPolled
  BY <1>9 DEF UsersPolled, Pause, Following
<1>10. CASE UsersRaises
  BY <1>10 DEF UsersRaises, Fails
<1>11. CASE Waited
  BY <1>11 DEF Waited, WaitOver
<1>12. CASE Close
  BY <1>12 DEF Close, Gone
<1>13. CASE Refused
  BY <1>13 DEF Refused, Fault, Gone
<1>14. CASE BeginFails
  BY <1>14 DEF BeginFails, Fault, Fails
<1>15. CASE ExportFails
  BY <1>15 DEF ExportFails, Fault, Fails
<1>16. CASE UsersFails
  BY <1>16 DEF UsersFails, Fault, Fails
<1>17. CASE CloseFails
  BY <1>17 DEF CloseFails, Fault, Gone
<1>18. CASE Kill
  BY <1>18 DEF Kill, Fault, Gone
<1>19. CASE StopContainer
  BY <1>19 DEF StopContainer
<1>20. CASE StartContainer
  BY <1>20 DEF StartContainer
<1>21. CASE LogIn
  BY <1>21 DEF LogIn
<1>22. CASE LogBecomes
  BY <1>22 DEF LogBecomes
<1>23. CASE Edit
  BY <1>23 DEF Edit
<1>24. CASE Tick
  BY <1>24 DEF Tick, WaitOver
<1>25. CASE HeartbeatFails
  BY <1>25 DEF HeartbeatFails, Fault
<1>26. CASE UNCHANGED vars
  BY <1>26 DEF vars
<1> QED
  BY <1>1, <1>2, <1>3, <1>4, <1>5, <1>6, <1>7, <1>8, <1>9, <1>10, <1>11, <1>12, <1>13, <1>14, <1>15, <1>16, <1>17, <1>18, <1>19, <1>20, <1>21, <1>22, <1>23, <1>24, <1>25, <1>26 DEF Next, Step, Trouble, Surroundings

(* The rows after a stop.                                                  *)
LEMMA StoppedStep ==
  ASSUME TypeOK, Stopped, [Next]_vars
  PROVE  Stopped'
<1> USE LoopAssumption, LimitsTyped DEF TypeOK, Stopped, Looping, Outside, Poll, Alive, Ending, Stopping, Bounds
<1>1. CASE Start
  BY <1>1 DEF Start
<1>2. CASE Begin
  BY <1>2 DEF Begin
<1>3. CASE Turn
  BY <1>3 DEF Turn, Following
<1>4. CASE Open
  BY <1>4 DEF Open
<1>5. CASE Fetch
  BY <1>5 DEF Fetch, Limit, GoesOn
<1>6. CASE Row
  BY <1>6 DEF Row
<1>7. CASE Exported
  BY <1>7 DEF Exported, Touch, Following
<1>8. CASE NotExported
  BY <1>8 DEF NotExported, NotTouched, Following
<1>9. CASE UsersPolled
  BY <1>9 DEF UsersPolled, Pause, Following
<1>10. CASE UsersRaises
  BY <1>10 DEF UsersRaises, Fails
<1>11. CASE Waited
  BY <1>11 DEF Waited, WaitOver
<1>12. CASE Close
  BY <1>12 DEF Close, Gone
<1>13. CASE Refused
  BY <1>13 DEF Refused, Fault, Gone
<1>14. CASE BeginFails
  BY <1>14 DEF BeginFails, Fault, Fails
<1>15. CASE ExportFails
  BY <1>15 DEF ExportFails, Fault, Fails
<1>16. CASE UsersFails
  BY <1>16 DEF UsersFails, Fault, Fails
<1>17. CASE CloseFails
  BY <1>17 DEF CloseFails, Fault, Gone
<1>18. CASE Kill
  BY <1>18 DEF Kill, Fault, Gone
<1>19. CASE StopContainer
  BY <1>19 DEF StopContainer
<1>20. CASE StartContainer
  BY <1>20 DEF StartContainer
<1>21. CASE LogIn
  BY <1>21 DEF LogIn
<1>22. CASE LogBecomes
  BY <1>22 DEF LogBecomes
<1>23. CASE Edit
  BY <1>23 DEF Edit
<1>24. CASE Tick
  BY <1>24 DEF Tick, WaitOver
<1>25. CASE HeartbeatFails
  BY <1>25 DEF HeartbeatFails, Fault
<1>26. CASE UNCHANGED vars
  BY <1>26 DEF vars
<1> QED
  BY <1>1, <1>2, <1>3, <1>4, <1>5, <1>6, <1>7, <1>8, <1>9, <1>10, <1>11, <1>12, <1>13, <1>14, <1>15, <1>16, <1>17, <1>18, <1>19, <1>20, <1>21, <1>22, <1>23, <1>24, <1>25, <1>26 DEF Next, Step, Trouble, Surroundings

(* The time since the stop.                                                *)
LEMMA StopTimedStep ==
  ASSUME TypeOK, Timed, StopTimed, [Next]_vars
  PROVE  StopTimed'
<1> USE LoopAssumption, LimitsTyped DEF TypeOK, Timed, StopTimed, Looping, Outside, Poll, Alive, Ending, Stopping, Bounds
<1>1. CASE Start
  BY <1>1 DEF Start
<1>2. CASE Begin
  BY <1>2 DEF Begin
<1>3. CASE Turn
  BY <1>3 DEF Turn, Following
<1>4. CASE Open
  BY <1>4 DEF Open
<1>5. CASE Fetch
  BY <1>5 DEF Fetch, Limit, GoesOn
<1>6. CASE Row
  BY <1>6 DEF Row
<1>7. CASE Exported
  BY <1>7 DEF Exported, Touch, Following
<1>8. CASE NotExported
  BY <1>8 DEF NotExported, NotTouched, Following
<1>9. CASE UsersPolled
  BY <1>9 DEF UsersPolled, Pause, Following
<1>10. CASE UsersRaises
  BY <1>10 DEF UsersRaises, Fails
<1>11. CASE Waited
  BY <1>11 DEF Waited, WaitOver
<1>12. CASE Close
  BY <1>12 DEF Close, Gone
<1>13. CASE Refused
  BY <1>13 DEF Refused, Fault, Gone
<1>14. CASE BeginFails
  BY <1>14 DEF BeginFails, Fault, Fails
<1>15. CASE ExportFails
  BY <1>15 DEF ExportFails, Fault, Fails
<1>16. CASE UsersFails
  BY <1>16 DEF UsersFails, Fault, Fails
<1>17. CASE CloseFails
  BY <1>17 DEF CloseFails, Fault, Gone
<1>18. CASE Kill
  BY <1>18 DEF Kill, Fault, Gone
<1>19. CASE StopContainer
  BY <1>19 DEF StopContainer
<1>20. CASE StartContainer
  BY <1>20 DEF StartContainer
<1>21. CASE LogIn
  BY <1>21 DEF LogIn
<1>22. CASE LogBecomes
  BY <1>22 DEF LogBecomes
<1>23. CASE Edit
  BY <1>23 DEF Edit
<1>24. CASE Tick
  BY <1>24 DEF Tick, WaitOver
<1>25. CASE HeartbeatFails
  BY <1>25 DEF HeartbeatFails, Fault
<1>26. CASE UNCHANGED vars
  BY <1>26 DEF vars
<1> QED
  BY <1>1, <1>2, <1>3, <1>4, <1>5, <1>6, <1>7, <1>8, <1>9, <1>10, <1>11, <1>12, <1>13, <1>14, <1>15, <1>16, <1>17, <1>18, <1>19, <1>20, <1>21, <1>22, <1>23, <1>24, <1>25, <1>26 DEF Next, Step, Trouble, Surroundings

-----------------------------------------------------------------------------
LEMMA Invariance == Spec => []Inv
<1>1. Inv /\ [Next]_vars => Inv'
  BY TypeStep, CountedStep, TimedStep, AgedStep, LookedStep, StoppedStep, StopTimedStep DEF Inv
<1> QED
  BY InitInv, <1>1, PTL DEF Spec

(* Every variable keeps its type: a poll counts no more rows than its cap, *)
(* a batch is no longer than the backlog (_export).                        *)
THEOREM TypeCorrect == Spec => []TypeOK
<1>1. Inv => TypeOK
  BY DEF Inv
<1> QED
  BY Invariance, <1>1, PTL

(* If the polls leave time for it, a service that can read its log at      *)
(* every poll is healthy throughout (health, serve 742-750).               *)
THEOREM HealthRaisesNoFalseAlarm == Spec => []NoFalseAlarm
<1>1. Inv => NoFalseAlarm
  <2> SUFFICES ASSUME Inv, InTime, at \in Looping, smooth
               PROVE  Healthy
    BY DEF NoFalseAlarm
  <2>1. TypeOK /\ Timed /\ Aged
    BY DEF Inv
  <2>2. age <= UsersTime + Interval + RoundTime
    BY <2>1, LoopAssumption, LimitsTyped DEF TypeOK, Timed, Aged, Looping
  <2> QED
    BY <2>1, <2>2, LoopAssumption, LimitsTyped DEF InTime, Healthy, TypeOK
<1> QED
  BY Invariance, <1>1, PTL

(* A service that is called healthy has read its log within what health    *)
(* tolerates and the time of a poll (serve, 746-748).                      *)
THEOREM HealthHidesNoStuckExport == Spec => []HealthyHasRead
<1>1. Inv => HealthyHasRead
  BY LoopAssumption, LimitsTyped DEF Inv, TypeOK, Looked, HealthyHasRead, Healthy
<1> QED
  BY Invariance, <1>1, PTL

(* From the stop on, the loop lasts no longer than a poll of the log and   *)
(* one of the users file (serve, 741-750).                                 *)
THEOREM StopIsInTime == Spec => []StopInTime
<1>1. Inv => StopInTime
  BY DEF Inv, StopTimed, StopInTime
<1> QED
  BY Invariance, <1>1, PTL

(* One row at most is exported after the stop (_export, 536-544).          *)
THEOREM OneRowAfterStop == Spec => []StopsShort
<1>1. Inv => StopsShort
  BY DEF Inv, Stopped, StopsShort
<1> QED
  BY Invariance, <1>1, PTL

=============================================================================
