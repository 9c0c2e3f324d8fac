------------------------- MODULE AdminChange_proofs -------------------------
(* Proofs about AdminChange, for any number of operators and any bounds.   *)
EXTENDS AdminChange, TLAPS

(* The initial states satisfy the invariant.                               *)
LEMMA AdminInit == Init => AdminInv
<1> SUFFICES ASSUME Init PROVE AdminInv
  OBVIOUS
<1>1. PlacesTyped /\ ScriptsTyped
  BY DEF Init, PlacesTyped, ScriptsTyped
<1>2. ResultsTyped
  BY DEF Init, ResultsTyped
<1>3. TracesTyped
  BY DEF Init, TracesTyped, Unwritten
<1>4. BoundsKept
  BY AdminAssumption DEF Init, BoundsKept, AdminAssumption
<1>5. ScriptShape
  BY DEF Init, ScriptShape, Untouched, NotYetChanged, NotYetRecorded, ZeroMeansChanged
<1>6. OkMeansChanged /\ InterruptedIsNoSuccess /\ UnrecordedIsTold
  BY DEF Init, OkMeansChanged, InterruptedIsNoSuccess, UnrecordedIsTold
<1> QED
  BY <1>1, <1>2, <1>3, <1>4, <1>5, <1>6 DEF AdminInv, TypeOK

(* Every step of a script, and every step around it, keeps the types.      *)
LEMMA AdminTypeStep == TypeOK /\ [Next]_vars => TypeOK'
<1> SUFFICES ASSUME PlacesTyped, ScriptsTyped, ResultsTyped, TracesTyped, BoundsKept, [Next]_vars PROVE TypeOK'
  BY DEF TypeOK
<1> USE DEF Bounds
<1>1. ASSUME NEW o \in Operators, Check(o) PROVE TypeOK'
  <2>1. PlacesTyped'
    <3>1. CASE container = "up"
      BY ONLY PlacesTyped, <1>1, <3>1 DEF PlacesTyped, Check, Exit
    <3>2. CASE container # "up"
      BY ONLY PlacesTyped, <1>1, <3>2 DEF PlacesTyped, Check, Exit
    <3> QED
      BY <3>1, <3>2
  <2>2. ScriptsTyped'
    BY ONLY ScriptsTyped, <1>1 DEF ScriptsTyped, Check
  <2>3. ResultsTyped'
    <3>1. CASE container = "up"
      BY ONLY ResultsTyped, <1>1, <3>1 DEF ResultsTyped, Check, Exit
    <3>2. CASE container # "up"
      <4>1. status' = [status EXCEPT ![o] = 1] /\ applied' = applied
        BY ONLY <1>1, <3>2 DEF Check, Exit
      <4> QED
        BY ONLY ResultsTyped, <4>1 DEF ResultsTyped
    <3> QED
      BY <3>1, <3>2
  <2>4. TracesTyped'
    <3>1. CASE container = "up"
      BY ONLY TracesTyped, <1>1, <3>1 DEF TracesTyped, Check, Exit, Unwritten
    <3>2. CASE container # "up"
      BY ONLY TracesTyped, <1>1, <3>2 DEF TracesTyped, Check, Exit, Unwritten
    <3> QED
      BY <3>1, <3>2
  <2>5. BoundsKept'
    BY ONLY BoundsKept, AdminAssumption, <1>1 DEF BoundsKept, Check, Exit, AdminAssumption
  <2> QED
    BY <2>1, <2>2, <2>3, <2>4, <2>5 DEF TypeOK
<1>2. ASSUME NEW o \in Operators, Run(o) PROVE TypeOK'
  <2>1. PlacesTyped'
    BY ONLY PlacesTyped, <1>2 DEF PlacesTyped, Run
  <2>2. ScriptsTyped'
    BY ONLY ScriptsTyped, <1>2 DEF ScriptsTyped, Run
  <2>3. ResultsTyped'
    BY ONLY ResultsTyped, <1>2 DEF ResultsTyped, Run
  <2>4. TracesTyped'
    BY ONLY TracesTyped, <1>2 DEF TracesTyped, Run, Unwritten
  <2>5. BoundsKept'
    BY ONLY BoundsKept, AdminAssumption, <1>2 DEF BoundsKept, Run, AdminAssumption
  <2> QED
    BY <2>1, <2>2, <2>3, <2>4, <2>5 DEF TypeOK
<1>3. ASSUME NEW o \in Operators, Change(o) PROVE TypeOK'
  <2>1. PlacesTyped'
    BY ONLY PlacesTyped, <1>3 DEF PlacesTyped, Change, Ended
  <2>2. ScriptsTyped'
    BY ONLY ScriptsTyped, <1>3 DEF ScriptsTyped, Change
  <2>3. ResultsTyped'
    BY ONLY ResultsTyped, <1>3 DEF ResultsTyped, Change, Ended
  <2>4. TracesTyped'
    BY ONLY TracesTyped, <1>3 DEF TracesTyped, Change, Ended, Unwritten
  <2>5. BoundsKept'
    BY ONLY BoundsKept, AdminAssumption, <1>3 DEF BoundsKept, Change, Ended, AdminAssumption
  <2> QED
    BY <2>1, <2>2, <2>3, <2>4, <2>5 DEF TypeOK
<1>4. ASSUME NEW o \in Operators, Untrap(o) PROVE TypeOK'
  <2>1. PlacesTyped'
    BY ONLY PlacesTyped, <1>4 DEF PlacesTyped, Untrap
  <2>2. ScriptsTyped'
    BY ONLY ScriptsTyped, <1>4 DEF ScriptsTyped, Untrap
  <2>3. ResultsTyped'
    BY ONLY ResultsTyped, <1>4 DEF ResultsTyped, Untrap
  <2>4. TracesTyped'
    BY ONLY TracesTyped, <1>4 DEF TracesTyped, Untrap, Unwritten
  <2>5. BoundsKept'
    BY ONLY BoundsKept, AdminAssumption, <1>4 DEF BoundsKept, Untrap, AdminAssumption
  <2> QED
    BY <2>1, <2>2, <2>3, <2>4, <2>5 DEF TypeOK
<1>5. ASSUME NEW o \in Operators, Record(o) PROVE TypeOK'
  <2>1. PlacesTyped'
    BY ONLY PlacesTyped, <1>5 DEF PlacesTyped, Record, Exit, Written, Outcome
  <2>2. ScriptsTyped'
    BY ONLY ScriptsTyped, <1>5 DEF ScriptsTyped, Record
  <2>3. ResultsTyped'
    BY ONLY ResultsTyped, <1>5 DEF ResultsTyped, Record, Exit, Written, Outcome
  <2>4. TracesTyped'
    BY ONLY TracesTyped, <1>5 DEF TracesTyped, Record, Exit, Written, Outcome, Unwritten
  <2>5. BoundsKept'
    BY ONLY BoundsKept, AdminAssumption, <1>5 DEF BoundsKept, Record, Exit, Written, Outcome, AdminAssumption
  <2> QED
    BY <2>1, <2>2, <2>3, <2>4, <2>5 DEF TypeOK
<1>6. ASSUME NEW o \in Operators, RecordRefused(o) PROVE TypeOK'
  <2>1. PlacesTyped'
    BY ONLY PlacesTyped, <1>6 DEF PlacesTyped, RecordRefused, RecordFails, Exit
  <2>2. ScriptsTyped'
    BY ONLY ScriptsTyped, <1>6 DEF ScriptsTyped, RecordRefused
  <2>3. ResultsTyped'
    BY ONLY ResultsTyped, <1>6 DEF ResultsTyped, RecordRefused, RecordFails, Exit
  <2>4. TracesTyped'
    BY ONLY TracesTyped, <1>6 DEF TracesTyped, RecordRefused, RecordFails, Exit, Unwritten
  <2>5. BoundsKept'
    BY ONLY BoundsKept, AdminAssumption, <1>6 DEF BoundsKept, RecordRefused, RecordFails, Exit, AdminAssumption
  <2> QED
    BY <2>1, <2>2, <2>3, <2>4, <2>5 DEF TypeOK
<1>7. ASSUME NEW o \in Operators, RecordFailed(o) PROVE TypeOK'
  <2>1. PlacesTyped'
    BY ONLY PlacesTyped, <1>7 DEF PlacesTyped, RecordFailed, RecordFails, Exit, Written, Outcome
  <2>2. ScriptsTyped'
    BY ONLY ScriptsTyped, <1>7 DEF ScriptsTyped, RecordFailed
  <2>3. ResultsTyped'
    BY ONLY ResultsTyped, <1>7 DEF ResultsTyped, RecordFailed, RecordFails, Exit, Written, Outcome
  <2>4. TracesTyped'
    <3>1. CASE Written(o)
      BY ONLY TracesTyped, <1>7, <3>1 DEF TracesTyped, RecordFailed, RecordFails, Exit, Written, Outcome, Unwritten
    <3>2. CASE ~ Written(o)
      BY ONLY TracesTyped, <1>7, <3>2 DEF TracesTyped, RecordFailed, RecordFails, Exit, Written, Outcome, Unwritten
    <3> QED
      BY <3>1, <3>2
  <2>5. BoundsKept'
    BY ONLY BoundsKept, AdminAssumption, <1>7 DEF BoundsKept, RecordFailed, RecordFails, Exit, Written, Outcome, AdminAssumption
  <2> QED
    BY <2>1, <2>2, <2>3, <2>4, <2>5 DEF TypeOK
<1>8. ASSUME NEW o \in Operators, Signal(o), Interrupt(o) PROVE TypeOK'
  <2>1. PlacesTyped'
    BY ONLY PlacesTyped, <1>8 DEF PlacesTyped, Signal, Interrupt
  <2>2. ScriptsTyped'
    BY ONLY ScriptsTyped, <1>8 DEF ScriptsTyped, Signal, Interrupt
  <2>3. ResultsTyped'
    BY ONLY ResultsTyped, <1>8 DEF ResultsTyped, Signal, Interrupt
  <2>4. TracesTyped'
    BY ONLY TracesTyped, <1>8 DEF TracesTyped, Signal, Interrupt, Unwritten
  <2>5. BoundsKept'
    BY ONLY BoundsKept, AdminAssumption, <1>8 DEF BoundsKept, Signal, Interrupt, AdminAssumption
  <2> QED
    BY <2>1, <2>2, <2>3, <2>4, <2>5 DEF TypeOK
<1>9. ASSUME NEW o \in Operators, Signal(o), Kill(o) PROVE TypeOK'
  <2>1. PlacesTyped'
    BY ONLY PlacesTyped, <1>9 DEF PlacesTyped, Signal, Kill, Written, Outcome
  <2>2. ScriptsTyped'
    BY ONLY ScriptsTyped, <1>9 DEF ScriptsTyped, Signal, Kill
  <2>3. ResultsTyped'
    BY ONLY ResultsTyped, <1>9 DEF ResultsTyped, Signal, Kill, Written, Outcome
  <2>4. TracesTyped'
    <3>1. told' = told /\ (Written(o) \/ events' = events)
      BY ONLY <1>9 DEF Kill
    <3>2. CASE Written(o)
      BY ONLY TracesTyped, <3>1, <3>2 DEF TracesTyped, Written, Outcome, Unwritten
    <3>3. CASE events' = events
      BY ONLY TracesTyped, <3>1, <3>3 DEF TracesTyped, Unwritten
    <3> QED
      BY <3>1, <3>2, <3>3
  <2>5. BoundsKept'
    BY ONLY BoundsKept, AdminAssumption, <1>9 DEF BoundsKept, Signal, Kill, Written, Outcome, AdminAssumption
  <2> QED
    BY <2>1, <2>2, <2>3, <2>4, <2>5 DEF TypeOK
<1>10. ASSUME ContainerStarts PROVE TypeOK'
  <2>1. PlacesTyped'
    BY ONLY PlacesTyped, <1>10 DEF PlacesTyped, ContainerStarts
  <2>2. ScriptsTyped'
    BY ONLY ScriptsTyped, <1>10 DEF ScriptsTyped, ContainerStarts
  <2>3. ResultsTyped'
    BY ONLY ResultsTyped, <1>10 DEF ResultsTyped, ContainerStarts
  <2>4. TracesTyped'
    BY ONLY TracesTyped, <1>10 DEF TracesTyped, ContainerStarts, Unwritten
  <2>5. BoundsKept'
    BY ONLY BoundsKept, AdminAssumption, <1>10 DEF BoundsKept, ContainerStarts, AdminAssumption
  <2> QED
    BY <2>1, <2>2, <2>3, <2>4, <2>5 DEF TypeOK
<1>11. ASSUME ContainerStops PROVE TypeOK'
  <2>1. PlacesTyped'
    BY ONLY PlacesTyped, <1>11 DEF PlacesTyped, ContainerStops
  <2>2. ScriptsTyped'
    BY ONLY ScriptsTyped, <1>11 DEF ScriptsTyped, ContainerStops
  <2>3. ResultsTyped'
    BY ONLY ResultsTyped, <1>11 DEF ResultsTyped, ContainerStops
  <2>4. TracesTyped'
    BY ONLY TracesTyped, <1>11 DEF TracesTyped, ContainerStops, Unwritten
  <2>5. BoundsKept'
    BY ONLY BoundsKept, AdminAssumption, <1>11 DEF BoundsKept, ContainerStops, AdminAssumption
  <2> QED
    BY <2>1, <2>2, <2>3, <2>4, <2>5 DEF TypeOK
<1>12. ASSUME UNCHANGED vars PROVE TypeOK'
  <2>1. PlacesTyped'
    BY ONLY PlacesTyped, <1>12 DEF PlacesTyped, vars
  <2>2. ScriptsTyped'
    BY ONLY ScriptsTyped, <1>12 DEF ScriptsTyped, vars
  <2>3. ResultsTyped'
    BY ONLY ResultsTyped, <1>12 DEF ResultsTyped, vars
  <2>4. TracesTyped'
    BY ONLY TracesTyped, <1>12 DEF TracesTyped, vars, Unwritten
  <2>5. BoundsKept'
    BY ONLY BoundsKept, AdminAssumption, <1>12 DEF BoundsKept, vars, AdminAssumption
  <2> QED
    BY <2>1, <2>2, <2>3, <2>4, <2>5 DEF TypeOK
<1> QED
  BY <1>1, <1>2, <1>3, <1>4, <1>5, <1>6, <1>7, <1>8, <1>9, <1>10, <1>11, <1>12 DEF Next, Script, Signal

(* What one script has set, done, recorded and said.                       *)
Holds(o) ==
  /\ Untouched(o) /\ NotYetChanged(o) /\ NotYetRecorded(o) /\ ZeroMeansChanged(o)
  /\ "ok" \in events[o] => applied[o] = "all"
  /\ at[o] = "exit" /\ status[o] = 0 => events[o] = {"ok"}
  /\ o \in hit => "ok" \notin events[o] /\ (at[o] = "exit" => status[o] # 0)
  /\ at[o] = "exit" =>
       /\ applied[o] # "no" /\ events[o] = {} => told[o] = Unwritten /\ status[o] # 0
       /\ told[o] = "nothing was changed" => applied[o] = "no"

(* The step of one script keeps what it holds, and what the others hold.   *)
LEMMA AdminStep == AdminInv /\ [Next]_vars => AdminInv'
<1> DEFINE Others(o) ==
      \A p \in Operators \ {o} :
        /\ at'[p] = at[p] /\ applied'[p] = applied[p] /\ (p \in hit' <=> p \in hit)
        /\ status'[p] = status[p] /\ told'[p] = told[p] /\ events'[p] = events[p]
<1> SUFFICES ASSUME AdminInv, [Next]_vars PROVE AdminInv'
  OBVIOUS
<1>0. TypeOK'
  BY AdminTypeStep DEF AdminInv
<1>1. /\ DOMAIN at = Operators /\ DOMAIN applied = Operators /\ DOMAIN status = Operators
      /\ DOMAIN told = Operators /\ DOMAIN events = Operators
      /\ at = [p \in Operators |-> at[p]] /\ applied = [p \in Operators |-> applied[p]]
      /\ status = [p \in Operators |-> status[p]] /\ told = [p \in Operators |-> told[p]]
      /\ events = [p \in Operators |-> events[p]]
  <2>1. DOMAIN at = Operators /\ at = [p \in Operators |-> at[p]]
    BY DEF AdminInv, TypeOK, PlacesTyped
  <2>2. DOMAIN applied = Operators /\ applied = [p \in Operators |-> applied[p]]
    BY DEF AdminInv, TypeOK, ResultsTyped
  <2>3. DOMAIN status = Operators /\ status = [p \in Operators |-> status[p]]
    BY DEF AdminInv, TypeOK, ResultsTyped
  <2>4. DOMAIN told = Operators /\ told = [p \in Operators |-> told[p]]
    BY DEF AdminInv, TypeOK, TracesTyped
  <2>5. DOMAIN events = Operators /\ events = [p \in Operators |-> events[p]]
    BY DEF AdminInv, TypeOK, TracesTyped
  <2> QED
    BY ONLY <2>1, <2>2, <2>3, <2>4, <2>5
<1>2. \A p \in Operators : Holds(p)
  BY DEF AdminInv, ScriptShape, OkMeansChanged, InterruptedIsNoSuccess, UnrecordedIsTold, Holds
<1> USE DEF Bounds, Untouched, NotYetChanged, NotYetRecorded, ZeroMeansChanged
<1>3. ASSUME NEW o \in Operators, Script(o) \/ Signal(o) PROVE Others(o) /\ Holds(o)'
  <2>1. CASE Check(o)
    <3>1. Others(o)
      BY <1>1, <2>1 DEF Check, Exit, Unwritten
    <3>2. Holds(o)'
      <4>1. applied'[o] = applied[o] /\ (o \in hit' <=> o \in hit) /\ events'[o] = events[o]
        BY <1>1, <2>1 DEF Check
      <4>2. CASE container = "up"
        <5>1. at'[o] = "checked" /\ status'[o] = status[o] /\ told'[o] = told[o]
          BY <1>1, <2>1, <4>2 DEF Check
        <5> QED
          BY <1>2, <2>1, <4>1, <5>1 DEF Check, Holds
      <4>3. CASE container # "up"
        <5>0. Exit(o, 1, "nothing was changed")
          BY <2>1, <4>3 DEF Check
        <5>1. at'[o] = "exit" /\ told'[o] = "nothing was changed"
          BY <1>1, <5>0 DEF Exit
        <5>2. status'[o] # 0
          <6>1. status' = [status EXCEPT ![o] = 1]
            BY <5>0 DEF Exit
          <6> QED
            BY <1>1, <6>1
        <5> QED
          BY <1>2, <2>1, <4>1, <5>1, <5>2 DEF Check, Holds
      <4> QED
        BY <4>2, <4>3
    <3> QED
      BY <3>1, <3>2
  <2>2. CASE Run(o)
    <3>1. Others(o)
      BY <1>1, <2>2 DEF Run
    <3>2. Holds(o)'
      BY <1>1, <1>2, <2>2 DEF Run, Holds
    <3> QED
      BY <3>1, <3>2
  <2>3. CASE Change(o)
    <3>1. Others(o)
      BY <1>1, <2>3 DEF Change, Ended
    <3>2. Holds(o)'
      <4>1. at'[o] = "changed" /\ (o \in hit' <=> o \in hit) /\ told'[o] = told[o] /\ events'[o] = events[o]
        BY <1>1, <2>3 DEF Change
      <4>2. (applied'[o] = "all" /\ (status'[o] = 0 => ~ (o \in hit))) \/ status'[o] # 0
        BY <1>1, <2>3 DEF Change, Ended
      <4> QED
        BY <1>2, <2>3, <4>1, <4>2 DEF Change, Holds
    <3> QED
      BY <3>1, <3>2
  <2>4. CASE Untrap(o)
    <3>1. Others(o)
      BY <1>1, <2>4 DEF Untrap
    <3>2. Holds(o)'
      BY <1>1, <1>2, <2>4 DEF Untrap, Holds
    <3> QED
      BY <3>1, <3>2
  <2>5. CASE Record(o)
    <3>1. Others(o)
      BY <1>1, <2>5 DEF Record, Exit, Written, Outcome
    <3>2. Holds(o)'
      BY <1>1, <1>2, <2>5 DEF Record, Exit, Written, Outcome, Holds
    <3> QED
      BY <3>1, <3>2
  <2>6. CASE RecordRefused(o)
    <3>1. Others(o)
      BY <1>1, <2>6 DEF RecordRefused, RecordFails, Exit, Unwritten
    <3>2. Holds(o)'
      <4>1. /\ at'[o] = "exit" /\ status'[o] # 0 /\ told'[o] = Unwritten
            /\ applied'[o] = applied[o] /\ (o \in hit' <=> o \in hit) /\ events'[o] = events[o]
        BY <1>1, <2>6 DEF RecordRefused, RecordFails, Exit
      <4> QED
        BY <1>2, <2>6, <4>1 DEF RecordRefused, Holds, Unwritten
    <3> QED
      BY <3>1, <3>2
  <2>7. CASE RecordFailed(o)
    <3>1. Others(o)
      BY <1>1, <2>7 DEF RecordFailed, RecordFails, Exit, Unwritten, Written, Outcome
    <3>2. Holds(o)'
      <4>1. /\ at'[o] = "exit" /\ status'[o] # 0 /\ told'[o] = Unwritten
            /\ applied'[o] = applied[o] /\ (o \in hit' <=> o \in hit)
        BY <1>1, <2>7 DEF RecordFailed, RecordFails, Exit
      <4>2. events'[o] = events[o] \/ events'[o] = events[o] \cup {Outcome(o)}
        BY <1>1, <2>7 DEF RecordFailed, Written
      <4>3. at[o] = "record" /\ events[o] = {}
        BY <1>2, <2>7 DEF RecordFailed, Holds
      <4>4. "ok" \in events'[o] => applied[o] = "all" /\ ~ (o \in hit)
        <5>1. "ok" \in events'[o] => status[o] = 0
          BY <4>2, <4>3 DEF Outcome
        <5> QED
          BY <1>2, <4>3, <5>1 DEF Holds
      <4> QED
        BY <4>1, <4>4 DEF Holds, Unwritten
    <3> QED
      BY <3>1, <3>2
  <2>8. CASE Signal(o) /\ Interrupt(o)
    <3>1. Others(o)
      BY <1>1, <2>8 DEF Interrupt, Trapped
    <3>2. Holds(o)'
      <4>1. /\ at'[o] = at[o] /\ status'[o] # 0 /\ told'[o] = told[o]
            /\ applied'[o] = applied[o] /\ o \in hit' /\ events'[o] = events[o]
        BY <1>1, <2>8 DEF Interrupt
      <4>2. at[o] \in {"change", "changed"}
        BY <2>8 DEF Interrupt, Trapped
      <4> QED
        BY <1>2, <4>1, <4>2 DEF Holds
    <3> QED
      BY <3>1, <3>2
  <2>9. CASE Signal(o) /\ Kill(o)
    <3>1. Others(o)
      BY <1>1, <2>9 DEF Kill, Alive, Written, Outcome
    <3>2. Holds(o)'
      <4>1. at'[o] = "killed" /\ (o \in hit' <=> o \in hit)
        BY <1>1, <2>9 DEF Kill
      <4>2. "ok" \in events'[o] => at[o] = "record" /\ status[o] = 0
        <5>1. events[o] = {}
          BY <1>2, <2>9 DEF Kill, Alive, Holds
        <5>2. CASE Written(o) /\ at[o] = "record"
          BY <1>1, <5>1, <5>2 DEF Written, Outcome
        <5>3. CASE UNCHANGED events
          BY <5>1, <5>3
        <5> QED
          BY <2>9, <5>2, <5>3 DEF Kill
      <4>3. at[o] = "record" => applied'[o] = applied[o]
        BY <2>9 DEF Kill
      <4> QED
        BY <1>2, <4>1, <4>2, <4>3 DEF Holds
    <3> QED
      BY <3>1, <3>2
  <2> QED
    BY <1>3, <2>1, <2>2, <2>3, <2>4, <2>5, <2>6, <2>7, <2>8, <2>9 DEF Script, Signal
<1>4. ASSUME ContainerStarts \/ ContainerStops \/ UNCHANGED vars PROVE \A p \in Operators : Holds(p)'
  BY <1>2, <1>4 DEF ContainerStarts, ContainerStops, vars, Holds
<1>5. ASSUME NEW o \in Operators, Script(o) \/ Signal(o) PROVE \A p \in Operators : Holds(p)'
  <2> TAKE p \in Operators
  <2>1. CASE p = o
    BY <1>3, <1>5, <2>1
  <2>2. CASE p # o
    <3>1. Others(o) /\ p \in Operators \ {o}
      BY <1>3, <1>5, <2>2
    <3>2. /\ at'[p] = at[p] /\ applied'[p] = applied[p] /\ (p \in hit' <=> p \in hit)
          /\ status'[p] = status[p] /\ told'[p] = told[p] /\ events'[p] = events[p]
      BY <3>1
    <3> HIDE DEF Others
    <3> QED
      BY <1>2, <3>2 DEF Holds, Unwritten
  <2> QED
    BY <2>1, <2>2
<1>6. \A p \in Operators : Holds(p)'
  BY <1>4, <1>5 DEF Next
<1> QED
  BY <1>0, <1>6 DEF AdminInv, ScriptShape, OkMeansChanged, InterruptedIsNoSuccess, UnrecordedIsTold, Holds

-----------------------------------------------------------------------------
(* The invariant holds in every reachable state.                           *)
THEOREM AdminInvariant == Spec => []AdminInv
  BY AdminInit, AdminStep, PTL DEF Spec

(* Type correctness, for any number of operators and any bounds.           *)
THEOREM AdminTypeCorrect == Spec => []TypeOK
<1>1. AdminInv => TypeOK
  BY DEF AdminInv
<1> QED
  BY AdminInvariant, <1>1, PTL

(* An event ok, or an exit status of 0, is of a change made in full (audit-admin.sh *)
(* records ok only when the change exited 0).                              *)
THEOREM AdminOkMeansChanged == Spec => []OkMeansChanged
<1>1. AdminInv => OkMeansChanged
  BY DEF AdminInv
<1> QED
  BY AdminInvariant, <1>1, PTL

(* An interrupted change is never recorded as ok nor exits with 0.         *)
THEOREM AdminInterrupted == Spec => []InterruptedIsNoSuccess
<1>1. AdminInv => InterruptedIsNoSuccess
  BY DEF AdminInv
<1> QED
  BY AdminInvariant, <1>1, PTL

(* A script that ends leaves no change without a record in silence.        *)
THEOREM AdminUnrecordedIsTold == Spec => []UnrecordedIsTold
<1>1. AdminInv => UnrecordedIsTold
  BY DEF AdminInv
<1> QED
  BY AdminInvariant, <1>1, PTL

=============================================================================
