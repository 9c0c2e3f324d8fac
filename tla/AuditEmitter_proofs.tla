------------------------- MODULE AuditEmitter_proofs -------------------------
(***************************************************************************)
(* For any number of services and admin processes, events, partial writes  *)
(* and failures: the lines of the log never interleave, a chain begins     *)
(* with its start or is a lone shutdown, and verify_chain finds nothing    *)
(* wrong with the log but lines that cannot be read.                       *)
(***************************************************************************)
EXTENDS AuditEmitter, SequenceTheorems, TLAPS

MainPlaces == {"new", "lock", "free", "failed", "done", "gone"} \cup InLock
BeatPlaces == {"off", "free", "lock"} \cup InLock
Places     == [main : MainPlaces, beat : BeatPlaces]

Operations == {"start", "event", "shutdown", "heartbeat"}

Events ==
  [readable : {TRUE}, instance : Processes, service : {"edge-plane"}, seq : Nat, prev_hash : Nat,
   hash : Nat, intact : {TRUE}, operation : Operations, ts : {0}]

(* Threads that hold the container's lock.                                 *)
Holding == {"write", "rest"}

-----------------------------------------------------------------------------
(* The inductive invariant, in parts.                                      *)

Chains == [seq : Nat, prev : Nat, started : BOOLEAN, closing : BOOLEAN, closed : BOOLEAN, hashed : Nat]

ChainShape == chain \in [Processes -> Chains]

AtShape ==
  /\ at \in [Processes -> Places]
  /\ doing \in [Processes -> [main : {"start", "event", "shutdown"}, beat : {"heartbeat"}]]

TextShape == text \in [Processes -> {<< >>} \cup {<< e >> : e \in Events}]

LogShape ==
  /\ log \in Seq(Events \cup {Trail!Garbled})
  /\ cut \in Seq({<< e >> : e \in Events})

FlockShape == flock \in Processes \cup {None}

CountShape == parts \in 0 .. MaxParts /\ faults \in 0 .. MaxFaults

(* At most one thread of a process is in its emitter's lock, and it has a  *)
(* text in hand; at most one process holds the container's lock.           *)
OneInLock ==
  \A p \in Processes :
    /\ ~(at[p]["main"] \in InLock /\ at[p]["beat"] \in InLock)
    /\ (text[p] # << >>) <=> (\E t \in Threads : at[p][t] \in InLock)

OneHolds ==
  \A p \in Processes : (flock = p) <=> (\E t \in Threads : at[p][t] \in Holding)

(* The text in hand is the next event of its chain.                        *)
TextIsNext ==
  \A p \in Processes : text[p] # << >> =>
    /\ text[p][1].instance = p /\ text[p][1].seq = chain[p].seq
    /\ \A t \in Threads : at[p][t] \in InLock => text[p][1].operation = doing[p][t]

HashesKnown ==
  \A p \in Processes :
    /\ chain[p].prev <= chain[p].hashed
    /\ text[p] # << >> => text[p][1].hash <= chain[p].hashed

(* Nothing but the start and the shutdown is tried before the first event  *)
(* of a chain is written.                                                  *)
Unstarted ==
  \A p \in Processes : chain[p].seq = 0 =>
    at[p]["beat"] = "off" /\ at[p]["main"] # "free" /\ doing[p]["main"] # "event"

(* Lines of a chain are numbered up to where the chain is; after a lone    *)
(* shutdown its process writes no more.                                    *)
IsLone(k) == log[k].readable /\ log[k].seq = 0 /\ log[k].operation # "start"

LinesNumbered ==
  \A k \in 1 .. Len(log) : log[k].readable => log[k].seq < chain[log[k].instance].seq

LoneEnds ==
  \A k \in 1 .. Len(log) : IsLone(k) =>
    /\ log[k].operation = "shutdown"
    /\ at[log[k].instance]["main"] \in {"done", "gone"} /\ at[log[k].instance]["beat"] = "off"

Inv ==
  /\ ChainShape /\ AtShape /\ TextShape /\ LogShape /\ FlockShape /\ CountShape
  /\ OneInLock /\ OneHolds /\ TextIsNext /\ HashesKnown /\ LinesNeverInterleave
  /\ Unstarted /\ LinesNumbered /\ LoneEnds /\ StartOrLoneEnd

-----------------------------------------------------------------------------
(* What the parts of the actions do.                                       *)

LEMMA PlacesDistinct ==
  /\ InLock \subseteq MainPlaces /\ InLock \subseteq BeatPlaces /\ Holding \subseteq InLock
  /\ \A a \in {"new", "lock", "free", "failed", "done", "gone", "off"} : a \notin InLock
  /\ Threads = {"main", "beat"}
  BY DEF InLock, MainPlaces, BeatPlaces, Holding, Threads

LEMMA NoneIsNoProcess == None \notin Processes
  BY EmitterAssumption DEF Processes

(* Where a thread goes that is done with its event: out of the lock, and   *)
(* the other one stays where it is, or the heartbeat begins.               *)
LEMMA AfterEvent ==
  ASSUME AtShape, NEW p \in Processes, NEW t \in Threads
  PROVE  /\ Raised(p, t) \in Places /\ Written(p, t) \in Places
         /\ Raised(p, t)[t] \notin InLock /\ Written(p, t)[t] \notin InLock
         /\ \A u \in Threads \ {t} : Raised(p, t)[u] = at[p][u]
         /\ \A u \in Threads \ {t} : Written(p, t)[u] \in {at[p][u], "free"}
<1>1. at[p] \in Places
  BY DEF AtShape
<1>2. /\ at[p].main \in MainPlaces /\ at[p].beat \in BeatPlaces
      /\ at[p] = [main |-> at[p].main, beat |-> at[p].beat]
  BY <1>1 DEF Places
<1>3. CASE t = "main"
  <2>1. /\ Raised(p, t) \in {[main |-> "done", beat |-> at[p].beat], [main |-> "failed", beat |-> at[p].beat]}
        /\ Written(p, t) \in {[main |-> "done", beat |-> at[p].beat], [main |-> "free", beat |-> at[p].beat],
                              [main |-> "free", beat |-> "free"]}
    BY <1>2, <1>3 DEF Raised, Written
  <2> QED
    BY <1>2, <1>3, <2>1 DEF Places, MainPlaces, BeatPlaces, InLock, Threads
<1>4. CASE t = "beat"
  <2>1. /\ Raised(p, t) = [main |-> at[p].main, beat |-> "off"]
        /\ Written(p, t) = [main |-> at[p].main, beat |-> "free"]
    BY <1>2, <1>4 DEF Raised, Written
  <2> QED
    BY <1>2, <1>4, <2>1 DEF Places, MainPlaces, BeatPlaces, InLock, Threads
<1> QED
  BY <1>3, <1>4 DEF Threads

(* The event that is next in a chain.                                      *)
LEMMA NextEventTyped ==
  ASSUME ChainShape, AtShape, NEW p \in Processes, NEW t \in Threads
  PROVE  LET e == NextEvent(p, doing[p][t]) IN
         /\ e \in Events /\ e.instance = p /\ e.seq = chain[p].seq
         /\ e.operation = doing[p][t] /\ e.hash = chain[p].hashed + 1
         /\ e.prev_hash = chain[p].prev
<1>1. chain[p].seq \in Nat /\ chain[p].prev \in Nat /\ chain[p].hashed + 1 \in Nat
  BY DEF ChainShape, Chains
<1>2. doing[p][t] \in Operations
  BY DEF AtShape, Threads, Operations
<1> QED
  BY <1>1, <1>2 DEF NextEvent, Trail!Event, Events

(* A thread in the lock has its text, alone in its process; a text that    *)
(* was cut is the last one begun.                                          *)
LEMMA InHand ==
  ASSUME Inv, NEW p \in Processes, NEW t \in Threads, at[p][t] \in InLock
  PROVE  /\ \E e \in Events : text[p] = << e >>
         /\ text[p][1] \in Events /\ Last(text[p]) = text[p][1] /\ Tail(text[p]) = << >>
         /\ \A u \in Threads : u # t => at[p][u] \notin InLock
<1>1. text[p] # << >> /\ text[p] \in {<< >>} \cup {<< e >> : e \in Events}
  BY DEF Inv, OneInLock, TextShape
<1>2. PICK e \in Events : text[p] = << e >>
  BY <1>1
<1>3. \A u \in Threads : u # t => at[p][u] \notin InLock
  BY DEF Inv, OneInLock, Threads
<1>4. Last(<< e >>) = e /\ Tail(<< e >>) = << >> /\ << e >>[1] = e
  BY DEF Last
<1> QED
  BY <1>2, <1>3, <1>4

(* The line that is written: the event, or one line with what was cut.     *)
LEMMA LineWritten ==
  ASSUME Inv, NEW p \in Processes, NEW t \in Threads, at[p][t] \in InLock
  PROVE  \E line \in {text[p][1], Trail!Garbled} : log \o LinesOf(p, t) = Append(log, line)
<1>1. PICK e \in Events : text[p] = << e >>
  BY InHand
<1>2. text[p][1] = e /\ Tail(text[p]) = << >>
  BY <1>1
<1>3. LinesOf(p, t) = << e >> \/ LinesOf(p, t) = << Trail!Garbled >> \o << >>
  BY <1>1, <1>2 DEF LinesOf
<1>4. << Trail!Garbled >> \o << >> = << Trail!Garbled >>
  OBVIOUS
<1>5. \A line : log \in Seq(Events \cup {Trail!Garbled}) /\ line \in Events \cup {Trail!Garbled}
                  => log \o << line >> = Append(log, line)
  OBVIOUS
<1>6. log \in Seq(Events \cup {Trail!Garbled})
  BY DEF Inv, LogShape
<1> QED
  BY <1>2, <1>3, <1>4, <1>5, <1>6

LEMMA Appended ==
  ASSUME LogShape, NEW line \in Events \cup {Trail!Garbled}, log' = Append(log, line)
  PROVE  /\ log' \in Seq(Events \cup {Trail!Garbled})
         /\ Len(log') = Len(log) + 1 /\ Len(log) \in Nat /\ log'[Len(log) + 1] = line
         /\ \A k \in 1 .. Len(log) : log'[k] = log[k]
  BY DEF LogShape

LEMMA EventTyped ==
  ASSUME NEW e \in Events
  PROVE  e.readable /\ e.intact /\ e.ts = 0 /\ e.service = "edge-plane"
<1>1. e.readable \in {TRUE} /\ e.intact \in {TRUE}
  BY Zenon DEF Events
<1>2. e.ts = 0 /\ e.service = "edge-plane"
  BY DEF Events
<1> QED
  BY <1>1, <1>2, Zenon

(* Lines that are in the log.                                              *)
LEMMA LineTyped ==
  ASSUME LogShape, NEW k \in 1 .. Len(log), log[k].readable
  PROVE  log[k] \in Events /\ log[k].instance \in Processes /\ log[k].seq \in Nat
<1>1. log[k] \in Events \cup {Trail!Garbled}
  BY ElementOfSeq DEF LogShape
<1>2. Trail!Garbled.readable = FALSE
  BY DEF Trail!Garbled
<1>3. log[k] \in Events
  BY <1>1, <1>2
<1> QED
  BY <1>3 DEF Events

-----------------------------------------------------------------------------
(* The steps, brought together by what they do to the state: an event that *)
(* is dropped, whatever the reason; processes that end.                    *)
Drop(p, t) ==
  /\ Fail(p, t)
  /\ at[p][t] \in InLock
  /\ \/ at[p][t] = "flock" /\ flock' = flock
     \/ at[p][t] \in Holding /\ flock' = None
  /\ UNCHANGED <<doing, log, cut>>

LEMMA Steps ==
  ASSUME [Next]_vars
  PROVE  \/ UNCHANGED <<chain, at, doing, text, flock, log, cut>>
         \/ \E p \in Processes : Start(p) \/ Emit(p) \/ Beat(p) \/ Close(p)
         \/ \E p \in Processes, t \in Threads :
              Take(p, t) \/ Lock(p, t) \/ Drop(p, t) \/ WritePart(p, t) \/ WriteRest(p, t)
         \/ \E gone \in SUBSET Processes : Ends(gone)
<1>1. ASSUME NEW p \in Processes, Exit(p) \/ Kill(p)
      PROVE  \E gone \in SUBSET Processes : Ends(gone)
  <2>1. EndWith(p) \in SUBSET Processes
    BY DEF EndWith, Processes
  <2> QED
    BY <1>1, <2>1 DEF Exit, Kill
<1>2. ASSUME NEW p \in Processes, NEW t \in Threads, LockTimeout(p, t) \/ WriteFails(p, t)
      PROVE  Drop(p, t)
  BY <1>2 DEF LockTimeout, WriteFails, Drop, Holding, InLock
<1>3. CASE UNCHANGED vars
  BY <1>3 DEF vars
<1> QED
  BY <1>1, <1>2, <1>3 DEF Next, ProcessStep, ThreadStep

(* A thread moves; a process's threads are placed anew.                    *)
LEMMA ThreadMoved ==
  ASSUME AtShape, NEW p \in Processes, NEW t \in Threads, NEW a \in InLock, at' = [at EXCEPT ![p][t] = a]
  PROVE  /\ at' \in [Processes -> Places]
         /\ at'[p][t] = a
         /\ \A q \in Processes, u \in Threads : q # p \/ u # t => at'[q][u] = at[q][u]
  BY DEF AtShape, Places, MainPlaces, BeatPlaces, InLock, Threads

LEMMA ProcessPlaced ==
  ASSUME AtShape, NEW p \in Processes, NEW r \in Places, at' = [at EXCEPT ![p] = r]
  PROVE  /\ at' \in [Processes -> Places]
         /\ at'[p] = r
         /\ \A q \in Processes \ {p} : at'[q] = at[q]
  BY DEF AtShape

(* A chain goes on, ends, or counts another hash.                          *)
LEMMA ChainMoved ==
  ASSUME ChainShape, NEW p \in Processes,
         NEW seq \in Nat, NEW prev \in Nat, NEW hashed \in Nat, NEW b \in BOOLEAN
  PROVE  /\ [chain[p] EXCEPT !.seq = seq, !.prev = prev, !.closed = b] \in Chains
         /\ [chain[p] EXCEPT !.hashed = hashed] \in Chains
<1>1. chain[p] \in Chains
  BY DEF ChainShape, Chains
<1> QED
  BY <1>1 DEF Chains

LEMMA ChainPlaced ==
  ASSUME ChainShape, NEW p \in Processes, NEW c \in Chains, chain' = [chain EXCEPT ![p] = c]
  PROVE  /\ ChainShape' /\ chain' \in [Processes -> Chains] /\ chain'[p] = c
         /\ \A q \in Processes \ {p} : chain'[q] = chain[q]
  BY DEF ChainShape, Chains

(* What a thread outside the lock may do without touching what is written. *)
LEMMA Outside ==
  ASSUME Inv, NEW p \in Processes, Start(p) \/ Emit(p) \/ Beat(p) \/ Close(p)
  PROVE  /\ UNCHANGED <<text, flock, log, cut>>
         /\ AtShape' /\ ChainShape'
         /\ \A q \in Processes, u \in Threads : at'[q][u] \in InLock <=> at[q][u] \in InLock
         /\ \A q \in Processes, u \in Threads : at[q][u] \in InLock =>
              at'[q][u] = at[q][u] /\ doing'[q][u] = doing[q][u]
         /\ \A q \in Processes : chain'[q].seq = chain[q].seq /\ chain'[q].prev = chain[q].prev
                                   /\ chain'[q].hashed = chain[q].hashed
                                   /\ chain'[q].closed = chain[q].closed
         /\ \A q \in Processes : at[q]["main"] \in {"done", "gone"} /\ at[q]["beat"] = "off" => at'[q] = at[q]
<1>0. AtShape /\ ChainShape
  BY DEF Inv
<1>1. UNCHANGED <<text, flock, log, cut>>
  BY DEF Start, Emit, Beat, Close
<1>2. /\ at' \in [Processes -> Places]
      /\ \A q \in Processes, u \in Threads : at'[q][u] \in InLock <=> at[q][u] \in InLock
      /\ \A q \in Processes, u \in Threads : at[q][u] \in InLock => at'[q][u] = at[q][u]
      /\ \A q \in Processes : at[q]["main"] \in {"done", "gone"} /\ at[q]["beat"] = "off" => at'[q] = at[q]
  <2>1. CASE /\ at[p]["main"] \in {"new", "free", "failed"}
             /\ at' = [at EXCEPT ![p]["main"] = "lock"]
    BY <1>0, <2>1 DEF AtShape, Places, MainPlaces, BeatPlaces, InLock, Threads
  <2>2. CASE /\ at[p]["beat"] = "free"
             /\ \E b \in {"off", "lock"} : at' = [at EXCEPT ![p]["beat"] = b]
    BY <1>0, <2>2 DEF AtShape, Places, MainPlaces, BeatPlaces, InLock, Threads
  <2>3. CASE Beat(p)
    BY <2>2, <2>3 DEF Beat
  <2> QED
    BY <2>1, <2>3 DEF Start, Emit, Close
<1>3. /\ doing' \in [Processes -> [main : {"start", "event", "shutdown"}, beat : {"heartbeat"}]]
      /\ \A q \in Processes, u \in Threads : at[q][u] \in InLock => doing'[q][u] = doing[q][u]
  <2>1. CASE doing' = doing
    BY <1>0, <2>1 DEF AtShape
  <2>2. CASE /\ at[p]["main"] \in {"free", "failed"}
             /\ \E o \in {"event", "shutdown"} : doing' = [doing EXCEPT ![p]["main"] = o]
    BY <1>0, <2>2 DEF AtShape, InLock, Threads
  <2> QED
    BY <2>1, <2>2 DEF Start, Emit, Beat, Close
<1>4. /\ ChainShape'
      /\ \A q \in Processes : chain'[q].seq = chain[q].seq /\ chain'[q].prev = chain[q].prev
                                /\ chain'[q].hashed = chain[q].hashed
                                /\ chain'[q].closed = chain[q].closed
  <2>1. CASE chain' = chain
    BY <1>0, <2>1 DEF ChainShape, Chains
  <2>2. CASE chain' = [chain EXCEPT ![p].started = TRUE]
    BY <1>0, <2>2 DEF ChainShape, Chains
  <2>3. CASE chain' = [chain EXCEPT ![p].closing = TRUE]
    BY <1>0, <2>3 DEF ChainShape, Chains
  <2> QED
    BY <2>1, <2>2, <2>3 DEF Start, Emit, Beat, Close
<1> QED
  BY <1>1, <1>2, <1>3, <1>4 DEF AtShape

(* An event is taken up, or refused by a closed chain.                     *)
LEMMA Taken ==
  ASSUME Inv, NEW p \in Processes, NEW t \in Threads, Take(p, t)
  PROVE  /\ UNCHANGED <<doing, flock, log, cut>>
         /\ AtShape' /\ at[p][t] = "lock" /\ \A u \in Threads : at[p][u] \notin InLock
         /\ text[p] = << >>
         /\ \A q \in Processes \ {p} : at'[q] = at[q] /\ text'[q] = text[q] /\ chain'[q] = chain[q]
         /\ \/ /\ UNCHANGED <<chain, text>> /\ at'[p] = Raised(p, t)
               /\ \A u \in Threads : at'[p][u] \notin InLock
            \/ /\ ~chain[p].closed /\ chain'[p] = [chain[p] EXCEPT !.hashed = @ + 1]
               /\ chain' \in [Processes -> Chains]
               /\ text'[p] = << NextEvent(p, doing[p][t]) >>
               /\ text' = [text EXCEPT ![p] = << NextEvent(p, doing[p][t]) >>]
               /\ at'[p][t] = "flock"
               /\ \A u \in Threads : u # t => at'[p][u] = at[p][u]
<1>0. AtShape /\ ChainShape /\ TextShape /\ OneInLock
  BY DEF Inv
<1>1. /\ UNCHANGED <<doing, flock, log, cut>>
      /\ at[p][t] = "lock" /\ \A u \in Threads : at[p][u] \notin InLock
  BY DEF Take, LockFree
<1>2. text[p] = << >>
  BY <1>0, <1>1 DEF OneInLock
<1>3. CASE chain[p].closed
  <2>1. UNCHANGED <<chain, text>> /\ at' = [at EXCEPT ![p] = Raised(p, t)]
    BY <1>3 DEF Take
  <2>2. /\ Raised(p, t) \in Places /\ Raised(p, t)[t] \notin InLock
        /\ \A u \in Threads \ {t} : Raised(p, t)[u] = at[p][u]
    BY <1>0, AfterEvent
  <2>3. /\ at' \in [Processes -> Places] /\ at'[p] = Raised(p, t)
        /\ \A q \in Processes \ {p} : at'[q] = at[q]
    BY <1>0, <2>1, <2>2, ProcessPlaced
  <2>4. AtShape' /\ \A u \in Threads : at'[p][u] \notin InLock
    BY <1>0, <1>1, <2>2, <2>3 DEF AtShape
  <2> QED
    BY <1>1, <1>2, <2>1, <2>3, <2>4
<1>4. CASE ~chain[p].closed
  <2> DEFINE e == NextEvent(p, doing[p][t])
  <2>1. /\ text' = [text EXCEPT ![p] = Append(text[p], e)]
        /\ chain' = [chain EXCEPT ![p].hashed = @ + 1]
        /\ at' = [at EXCEPT ![p][t] = "flock"]
    BY <1>4 DEF Take
  <2> HIDE DEF e
  <2>2. Append(text[p], e) = << e >>
    BY <1>2
  <2>3. text' = [text EXCEPT ![p] = << e >>]
    BY <2>1, <2>2
  <2>4. text'[p] = << e >> /\ \A q \in Processes \ {p} : text'[q] = text[q]
    BY <1>0, <2>3 DEF TextShape
  <2>5. /\ chain'[p] = [chain[p] EXCEPT !.hashed = @ + 1]
        /\ \A q \in Processes \ {p} : chain'[q] = chain[q]
        /\ chain' \in [Processes -> Chains]
    <3>1. [chain[p] EXCEPT !.hashed = @ + 1] \in Chains
      <4>1. chain[p].hashed + 1 \in Nat
        BY <1>0 DEF ChainShape, Chains
      <4>2. [chain[p] EXCEPT !.hashed = chain[p].hashed + 1] \in Chains
        BY <1>0, <4>1, ChainMoved
      <4> QED
        BY <4>2
    <3>2. chain' = [chain EXCEPT ![p] = [chain[p] EXCEPT !.hashed = @ + 1]]
      BY <2>1
    <3> QED
      BY <1>0, <3>1, <3>2, ChainPlaced
  <2>6. /\ at' \in [Processes -> Places] /\ at'[p][t] = "flock"
        /\ \A q \in Processes, u \in Threads : q # p \/ u # t => at'[q][u] = at[q][u]
    BY <1>0, <2>1, ThreadMoved DEF InLock
  <2>7. \A q \in Processes \ {p} : at'[q] = at[q]
    BY <1>0, <2>1 DEF AtShape
  <2> QED
    BY <1>0, <1>1, <1>2, <1>4, <2>3, <2>4, <2>5, <2>6, <2>7 DEF AtShape, e
<1> QED
  BY <1>3, <1>4

(* An event is done with: dropped, or written.                             *)
LEMMA Finished ==
  ASSUME Inv, NEW p \in Processes, NEW t \in Threads, Drop(p, t) \/ WriteRest(p, t)
  PROVE  /\ UNCHANGED doing
         /\ AtShape' /\ at[p][t] \in InLock /\ \A u \in Threads : at'[p][u] \notin InLock
         /\ text'[p] = << >> /\ TextShape'
         /\ \A q \in Processes \ {p} : at'[q] = at[q] /\ text'[q] = text[q] /\ chain'[q] = chain[q]
         /\ Drop(p, t) => /\ at'[p] = Raised(p, t)
                          /\ chain'[p] = [chain[p] EXCEPT !.closed = ClosedBy(p, t)]
         /\ WriteRest(p, t) => /\ at'[p] = Written(p, t) /\ at[p][t] \in Holding
                               /\ chain'[p] = [chain[p] EXCEPT !.seq = @ + 1, !.prev = text[p][1].hash,
                                                               !.closed = ClosedBy(p, t)]
         /\ ChainShape'
<1>0. AtShape /\ ChainShape /\ TextShape /\ OneInLock
  BY DEF Inv
<1>1. UNCHANGED doing /\ at[p][t] \in InLock /\ text' = [text EXCEPT ![p] = << >>]
  BY DEF Drop, Fail, WriteRest, InLock
<1>2. /\ text[p][1] \in Events /\ Last(text[p]) = text[p][1]
      /\ \A u \in Threads : u # t => at[p][u] \notin InLock
  BY <1>1, InHand
<1>3. PICK r \in {Raised(p, t), Written(p, t)} :
        /\ at' = [at EXCEPT ![p] = r]
        /\ Drop(p, t) => r = Raised(p, t)
        /\ WriteRest(p, t) => r = Written(p, t)
  <2>1. CASE Drop(p, t) /\ ~WriteRest(p, t)
    BY <2>1 DEF Drop, Fail
  <2>2. CASE ~Drop(p, t) /\ WriteRest(p, t)
    BY <2>2 DEF WriteRest
  <2>3. CASE Drop(p, t) /\ WriteRest(p, t)
    <3>1. at' = [at EXCEPT ![p] = Raised(p, t)] /\ at' = [at EXCEPT ![p] = Written(p, t)]
      BY <2>3 DEF Drop, Fail, WriteRest
    <3>2. Raised(p, t) = Written(p, t)
      BY <1>0, <3>1 DEF AtShape
    <3> QED
      BY <3>1, <3>2
  <2> QED
    BY <2>1, <2>2, <2>3
<1>4. /\ r \in Places /\ r[t] \notin InLock
      /\ \A u \in Threads \ {t} : r[u] \in {at[p][u], "free"}
  BY <1>0, AfterEvent
<1>5. /\ at' \in [Processes -> Places] /\ at'[p] = r
      /\ \A q \in Processes \ {p} : at'[q] = at[q]
  BY <1>0, <1>3, <1>4, ProcessPlaced
<1>6. AtShape' /\ \A u \in Threads : at'[p][u] \notin InLock
  BY <1>0, <1>1, <1>2, <1>4, <1>5, PlacesDistinct DEF AtShape
<1>7. text'[p] = << >> /\ TextShape' /\ \A q \in Processes \ {p} : text'[q] = text[q]
  BY <1>0, <1>1 DEF TextShape
<1>8. ClosedBy(p, t) \in BOOLEAN
  BY <1>0 DEF ClosedBy, ChainShape
<1>9. ASSUME Drop(p, t)
      PROVE  /\ chain'[p] = [chain[p] EXCEPT !.closed = ClosedBy(p, t)]
             /\ ChainShape' /\ \A q \in Processes \ {p} : chain'[q] = chain[q]
  <2>1. chain' = [chain EXCEPT ![p].closed = ClosedBy(p, t)]
    BY <1>9 DEF Drop, Fail
  <2> QED
    BY <1>0, <1>8, <2>1 DEF ChainShape, Chains
<1>10. ASSUME WriteRest(p, t)
       PROVE  /\ chain'[p] = [chain[p] EXCEPT !.seq = @ + 1, !.prev = text[p][1].hash,
                                              !.closed = ClosedBy(p, t)]
              /\ ChainShape' /\ \A q \in Processes \ {p} : chain'[q] = chain[q]
  <2>1. chain' = [chain EXCEPT ![p].seq = @ + 1, ![p].prev = text[p][1].hash, ![p].closed = ClosedBy(p, t)]
    BY <1>2, <1>10 DEF WriteRest
  <2>2. text[p][1].hash \in Nat /\ chain[p].seq + 1 \in Nat
    <3>1. text[p][1].hash \in Nat
      BY <1>2 DEF Events
    <3>2. chain[p] \in Chains
      BY <1>0 DEF ChainShape
    <3> QED
      BY <3>1, <3>2 DEF Chains
  <2>3. [chain[p] EXCEPT !.seq = chain[p].seq + 1, !.prev = text[p][1].hash, !.closed = ClosedBy(p, t)]
          \in Chains
    BY <1>0, <1>8, <2>2, ChainMoved
  <2>4. chain' = [chain EXCEPT ![p] = [chain[p] EXCEPT !.seq = chain[p].seq + 1, !.prev = text[p][1].hash,
                                                      !.closed = ClosedBy(p, t)]]
    BY <2>1
  <2> QED
    BY <1>0, <2>3, <2>4, ChainPlaced
<1>11. WriteRest(p, t) => at[p][t] \in Holding
  BY DEF WriteRest, Holding
<1> QED
  BY <1>1, <1>3, <1>5, <1>6, <1>7, <1>9, <1>10, <1>11

(* A thread moves on within the lock.                                      *)
LEMMA MovedWithin ==
  ASSUME Inv, NEW p \in Processes, NEW t \in Threads, Lock(p, t) \/ WritePart(p, t)
  PROVE  /\ UNCHANGED <<chain, doing, text, log>>
         /\ AtShape' /\ at[p][t] \in InLock /\ at'[p][t] \in Holding
         /\ \A q \in Processes, u \in Threads : q # p \/ u # t => at'[q][u] = at[q][u]
         /\ Lock(p, t) => at'[p][t] = "write"
<1>0. AtShape
  BY DEF Inv
<1>1. UNCHANGED <<chain, doing, text, log>> /\ at[p][t] \in InLock
  BY DEF Lock, WritePart, InLock
<1>2. PICK a \in Holding : at' = [at EXCEPT ![p][t] = a] /\ (Lock(p, t) => a = "write")
  <2>1. CASE Lock(p, t)
    BY <2>1 DEF Lock, Holding
  <2>2. CASE ~Lock(p, t) /\ WritePart(p, t)
    BY <2>2 DEF WritePart, Holding
  <2> QED
    BY <2>1, <2>2
<1>3. a \in InLock
  BY PlacesDistinct
<1>4. /\ at' \in [Processes -> Places] /\ at'[p][t] = a
      /\ \A q \in Processes, u \in Threads : q # p \/ u # t => at'[q][u] = at[q][u]
  <2>1. at' = [at EXCEPT ![p][t] = a]
    BY <1>2
  <2> QED
    BY <1>0, <1>3, <2>1 DEF AtShape, Places, MainPlaces, BeatPlaces, InLock, Threads
<1> QED
  BY <1>0, <1>1, <1>2, <1>4 DEF AtShape

(* Processes end.                                                          *)
LEMMA Ended ==
  ASSUME Inv, NEW gone \in SUBSET Processes, Ends(gone)
  PROVE  /\ UNCHANGED <<chain, doing, log, cut>>
         /\ AtShape' /\ TextShape' /\ flock' = IF flock \in gone THEN None ELSE flock
         /\ \A q \in gone : at'[q] = [main |-> "gone", beat |-> "off"] /\ text'[q] = << >>
         /\ \A q \in Processes \ gone : at'[q] = at[q] /\ text'[q] = text[q]
<1>0. AtShape /\ TextShape
  BY DEF Inv
<1>1. [main |-> "gone", beat |-> "off"] \in Places
  BY DEF Places, MainPlaces, BeatPlaces
<1>2. /\ at' \in [Processes -> Places]
      /\ \A q \in gone : at'[q] = [main |-> "gone", beat |-> "off"]
      /\ \A q \in Processes \ gone : at'[q] = at[q]
  BY <1>0, <1>1 DEF Ends, AtShape
<1>3. /\ TextShape' /\ \A q \in gone : text'[q] = << >>
      /\ \A q \in Processes \ gone : text'[q] = text[q]
  BY <1>0 DEF Ends, TextShape
<1> QED
  BY <1>0, <1>2, <1>3 DEF Ends, AtShape

-----------------------------------------------------------------------------
(* Every group of steps keeps the invariant.                               *)

LEMMA CountKept ==
  ASSUME CountShape, [Next]_vars
  PROVE  CountShape'
<1> USE EmitterAssumption DEF CountShape
<1>1. CASE UNCHANGED vars
  BY <1>1 DEF vars
<1>2. ASSUME NEW p \in Processes, ProcessStep(p) \/ Kill(p)
      PROVE  CountShape'
  <2>1. CASE ProcessStep(p)
    BY <2>1 DEF ProcessStep, Start, Emit, Beat, Close, Exit, Ends
  <2>2. CASE Kill(p)
    BY <2>2 DEF Kill, Ends
  <2> QED
    BY <1>2, <2>1, <2>2
<1>3. ASSUME NEW p \in Processes, NEW t \in Threads, ThreadStep(p, t) \/ WriteFails(p, t)
      PROVE  CountShape'
  <2>1. CASE Take(p, t) \/ Lock(p, t) \/ LockTimeout(p, t) \/ WriteRest(p, t)
    BY <2>1 DEF Take, Lock, LockTimeout, WriteRest
  <2>2. CASE WritePart(p, t)
    BY <2>2 DEF WritePart
  <2>3. CASE WriteFails(p, t)
    BY <2>3 DEF WriteFails
  <2> QED
    BY <1>3, <2>1, <2>2, <2>3 DEF ThreadStep
<1> QED
  BY <1>1, <1>2, <1>3 DEF Next

(* A process whose shutdown stands alone in the log takes no step.         *)
LEMMA LoneIsOut ==
  ASSUME Inv, NEW k \in 1 .. Len(log), IsLone(k),
         NEW p \in Processes, NEW t \in Threads, at[p][t] \in InLock \cup {"lock"}
  PROVE  log[k].instance # p
  BY DEF Inv, LoneEnds, InLock, Threads

LEMMA StutterKeeps ==
  ASSUME Inv, CountShape', UNCHANGED <<chain, at, doing, text, flock, log, cut>>
  PROVE  Inv'
<1>1. (ChainShape /\ AtShape /\ TextShape /\ LogShape /\ FlockShape)'
  BY DEF Inv, ChainShape, AtShape, TextShape, LogShape, FlockShape
<1>2. (OneInLock /\ OneHolds /\ TextIsNext /\ HashesKnown /\ LinesNeverInterleave)'
  BY DEF Inv, OneInLock, OneHolds, TextIsNext, HashesKnown, LinesNeverInterleave
<1>3. (Unstarted /\ LinesNumbered /\ LoneEnds /\ StartOrLoneEnd)'
  BY DEF Inv, Unstarted, LinesNumbered, LoneEnds, StartOrLoneEnd, IsLone
<1> QED
  BY <1>1, <1>2, <1>3 DEF Inv

LEMMA OutsideKeeps ==
  ASSUME Inv, CountShape', NEW p \in Processes, Start(p) \/ Emit(p) \/ Beat(p) \/ Close(p)
  PROVE  Inv'
<1>1. /\ UNCHANGED <<text, flock, log, cut>>
      /\ AtShape' /\ ChainShape'
      /\ \A q \in Processes, u \in Threads : at'[q][u] \in InLock <=> at[q][u] \in InLock
      /\ \A q \in Processes, u \in Threads : at[q][u] \in InLock =>
           at'[q][u] = at[q][u] /\ doing'[q][u] = doing[q][u]
      /\ \A q \in Processes : chain'[q].seq = chain[q].seq /\ chain'[q].prev = chain[q].prev
                                /\ chain'[q].hashed = chain[q].hashed
      /\ \A q \in Processes : at[q]["main"] \in {"done", "gone"} /\ at[q]["beat"] = "off" => at'[q] = at[q]
  BY Outside
<1>2. (TextShape /\ LogShape /\ FlockShape)'
  BY <1>1 DEF Inv, TextShape, LogShape, FlockShape
<1>3. OneInLock'
  BY <1>1, PlacesDistinct DEF Inv, OneInLock
<1>4. \A q \in Processes, u \in Threads : at'[q][u] \in Holding <=> at[q][u] \in Holding
  BY <1>1, PlacesDistinct
<1>5. OneHolds'
  BY <1>1, <1>4 DEF Inv, OneHolds
<1>6. TextIsNext'
  BY <1>1 DEF Inv, TextIsNext
<1>7. HashesKnown'
  BY <1>1 DEF Inv, HashesKnown
<1>8. LinesNeverInterleave'
  BY <1>1 DEF Inv, LinesNeverInterleave, InLock
<1>9. Unstarted'
  <2> SUFFICES ASSUME NEW q \in Processes, chain'[q].seq = 0
               PROVE  at'[q]["beat"] = "off" /\ at'[q]["main"] # "free" /\ doing'[q]["main"] # "event"
    BY DEF Unstarted
  <2>1. at[q]["beat"] = "off" /\ at[q]["main"] # "free" /\ doing[q]["main"] # "event"
    BY <1>1 DEF Inv, Unstarted
  <2>2. CASE Start(p)
    BY <2>1, <2>2 DEF Start, Inv, AtShape, Places
  <2>3. CASE Emit(p)
    BY <2>1, <2>3 DEF Emit, Inv, AtShape, Places
  <2>4. CASE Beat(p)
    BY <2>1, <2>4 DEF Beat, Inv, AtShape, Places
  <2>5. CASE Close(p)
    BY <2>1, <2>5 DEF Close, Inv, AtShape, Places
  <2> QED
    BY <2>2, <2>3, <2>4, <2>5
<1>10. LinesNumbered'
  <2>1. \A k \in 1 .. Len(log) : log[k].readable => log[k].instance \in Processes
    BY LineTyped DEF Inv
  <2> QED
    BY <1>1, <2>1 DEF Inv, LinesNumbered
<1>11. LoneEnds'
  <2>1. \A k \in 1 .. Len(log) : IsLone(k) => log[k].instance \in Processes
    BY LineTyped DEF Inv, IsLone
  <2>2. \A k \in 1 .. Len(log) : IsLone(k)' => IsLone(k)
    BY <1>1 DEF IsLone
  <2> QED
    BY <1>1, <2>1, <2>2 DEF Inv, LoneEnds
<1>12. StartOrLoneEnd'
  BY <1>1 DEF Inv, StartOrLoneEnd
<1> QED
  BY <1>1, <1>2, <1>3, <1>5, <1>6, <1>7, <1>8, <1>9, <1>10, <1>11, <1>12 DEF Inv

LEMMA TakeKeeps ==
  ASSUME Inv, CountShape', NEW p \in Processes, NEW t \in Threads, Take(p, t)
  PROVE  Inv'
<1> DEFINE e == NextEvent(p, doing[p][t])
           Refused  == /\ UNCHANGED <<chain, text>> /\ at'[p] = Raised(p, t)
                       /\ \A u \in Threads : at'[p][u] \notin InLock
           Accepted == /\ chain'[p] = [chain[p] EXCEPT !.hashed = @ + 1]
                       /\ chain' \in [Processes -> Chains]
                       /\ text'[p] = << e >>
                       /\ text' = [text EXCEPT ![p] = << e >>]
                       /\ at'[p][t] = "flock"
                       /\ \A u \in Threads : u # t => at'[p][u] = at[p][u]
<1>1. /\ UNCHANGED <<doing, flock, log, cut>>
      /\ AtShape' /\ at[p][t] = "lock" /\ \A u \in Threads : at[p][u] \notin InLock
      /\ text[p] = << >>
      /\ \A q \in Processes \ {p} : at'[q] = at[q] /\ text'[q] = text[q] /\ chain'[q] = chain[q]
      /\ Refused \/ Accepted
  BY Taken
<1>2. /\ e \in Events /\ e.instance = p /\ e.seq = chain[p].seq
      /\ e.operation = doing[p][t] /\ e.hash = chain[p].hashed + 1
  BY NextEventTyped DEF Inv
<1> HIDE DEF e
<1>3. (LogShape /\ FlockShape /\ StartOrLoneEnd)'
  BY <1>1 DEF Inv, LogShape, FlockShape, StartOrLoneEnd
<1>4. (ChainShape /\ TextShape)'
  <2>1. CASE Refused
    BY <2>1 DEF Inv, ChainShape, TextShape
  <2>2. CASE Accepted
    BY <1>2, <2>2 DEF Inv, ChainShape, TextShape
  <2> QED
    BY <1>1, <2>1, <2>2
<1>5. \A q \in Processes : /\ chain'[q].seq = chain[q].seq /\ chain'[q].prev = chain[q].prev
                           /\ chain'[q].hashed >= chain[q].hashed
  <2>1. \A q \in Processes : chain[q] \in Chains /\ chain[q].hashed \in Nat
    BY DEF Inv, ChainShape, Chains
  <2>2. CASE Refused
    BY <2>1, <2>2
  <2>3. CASE Accepted
    <3>1. chain'[p].seq = chain[p].seq /\ chain'[p].prev = chain[p].prev /\ chain'[p].hashed = chain[p].hashed + 1
      BY <2>1, <2>3 DEF Chains
    <3>2. chain[p].hashed + 1 >= chain[p].hashed /\ \A q \in Processes : chain[q].hashed >= chain[q].hashed
      BY <2>1
    <3> QED
      BY <1>1, <3>1, <3>2
  <2> QED
    BY <1>1, <2>2, <2>3
<1>6. OneInLock'
  <2>1. CASE Refused
    BY <1>1, <2>1 DEF Inv, OneInLock, Threads
  <2>2. CASE Accepted
    <3>1. text'[p] # << >> /\ at'[p][t] \in InLock /\ \A u \in Threads : u # t => at'[p][u] \notin InLock
      BY <1>1, <2>2 DEF InLock
    <3> QED
      BY <1>1, <3>1 DEF Inv, OneInLock, Threads
  <2> QED
    BY <1>1, <2>1, <2>2
<1>7. \A u \in Threads : at[p][u] \notin Holding /\ at'[p][u] \notin Holding
  <2>1. CASE Refused
    BY <1>1, <2>1, PlacesDistinct
  <2>2. CASE Accepted
    BY <1>1, <2>2, PlacesDistinct DEF Holding
  <2> QED
    BY <1>1, <2>1, <2>2
<1>8. OneHolds'
  BY <1>1, <1>7 DEF Inv, OneHolds
<1>9. TextIsNext'
  <2>1. CASE Refused
    BY <1>1, <2>1 DEF Inv, TextIsNext
  <2>2. CASE Accepted
    <3>1. text'[p][1] = e /\ \A u \in Threads : at'[p][u] \in InLock => u = t
      BY <1>1, <2>2
    <3> QED
      BY <1>1, <1>2, <1>5, <3>1 DEF Inv, TextIsNext
  <2> QED
    BY <1>1, <2>1, <2>2
<1>10. HashesKnown'
  <2>1. \A q \in Processes : chain[q].hashed \in Nat /\ chain[q].prev \in Nat /\ chain'[q].hashed \in Nat
    BY <1>4 DEF Inv, ChainShape, Chains
  <2>2. ASSUME NEW q \in Processes PROVE chain'[q].prev <= chain'[q].hashed
    <3>1. chain[q].prev <= chain[q].hashed
      BY DEF Inv, HashesKnown
    <3> QED
      BY <1>5, <2>1, <3>1
  <2>3. ASSUME NEW q \in Processes \ {p}, text'[q] # << >> PROVE text'[q][1].hash <= chain'[q].hashed
    BY <1>1, <2>3 DEF Inv, HashesKnown
  <2>4. ASSUME text'[p] # << >> PROVE text'[p][1].hash <= chain'[p].hashed
    <3>1. Accepted
      BY <1>1, <2>4
    <3>2. text'[p][1].hash = chain[p].hashed + 1
      BY <1>2, <3>1
    <3>3. chain[p] \in Chains /\ chain[p].hashed + 1 \in Nat
      BY <2>1 DEF Inv, ChainShape
    <3>4. chain'[p].hashed = chain[p].hashed + 1
      BY <3>1, <3>3 DEF Chains
    <3> QED
      BY <3>2, <3>3, <3>4
  <2> QED
    BY <2>2, <2>3, <2>4 DEF HashesKnown
<1>11. LinesNeverInterleave'
  <2>1. \A u \in Threads : at'[p][u] # "rest"
    BY <1>7 DEF Holding
  <2> QED
    BY <1>1, <2>1 DEF Inv, LinesNeverInterleave
<1>12. Unstarted'
  <2> SUFFICES ASSUME NEW q \in Processes, chain'[q].seq = 0
               PROVE  at'[q]["beat"] = "off" /\ at'[q]["main"] # "free" /\ doing'[q]["main"] # "event"
    BY DEF Unstarted
  <2>1. at[q]["beat"] = "off" /\ at[q]["main"] # "free" /\ doing[q]["main"] # "event"
    BY <1>5 DEF Inv, Unstarted
  <2>2. CASE q # p
    BY <1>1, <2>1, <2>2
  <2>3. CASE q = p
    <3>1. t = "main"
      BY <1>1, <2>1, <2>3 DEF Threads
    <3>2. CASE Refused
      BY <1>1, <2>1, <2>3, <3>1, <3>2 DEF Raised, Inv, AtShape, Places
    <3>3. CASE Accepted
      BY <1>1, <2>1, <2>3, <3>1, <3>3 DEF Threads
    <3> QED
      BY <1>1, <3>2, <3>3
  <2> QED
    BY <2>2, <2>3
<1>13. LinesNumbered'
  <2>1. \A k \in 1 .. Len(log) : log[k].readable => log[k].instance \in Processes
    BY LineTyped DEF Inv
  <2> QED
    BY <1>1, <1>5, <2>1 DEF Inv, LinesNumbered
<1>14. LoneEnds'
  <2>1. \A k \in 1 .. Len(log) : IsLone(k) => log[k].instance \in Processes \ {p}
    BY <1>1, LineTyped, LoneIsOut DEF Inv, IsLone
  <2>2. \A k \in 1 .. Len(log) : IsLone(k)' => IsLone(k)
    BY <1>1 DEF IsLone
  <2> QED
    BY <1>1, <2>1, <2>2 DEF Inv, LoneEnds
<1> QED
  BY <1>1, <1>3, <1>4, <1>6, <1>8, <1>9, <1>10, <1>11, <1>12, <1>13, <1>14 DEF Inv

LEMMA WithinKeeps ==
  ASSUME Inv, CountShape', NEW p \in Processes, NEW t \in Threads, Lock(p, t) \/ WritePart(p, t)
  PROVE  Inv'
<1>1. /\ UNCHANGED <<chain, doing, text, log>>
      /\ AtShape' /\ at[p][t] \in InLock /\ at'[p][t] \in Holding
      /\ \A q \in Processes, u \in Threads : q # p \/ u # t => at'[q][u] = at[q][u]
      /\ Lock(p, t) => at'[p][t] = "write"
  BY MovedWithin
<1>2. \E e \in Events : text[p] = << e >>
  BY <1>1, InHand
<1>3. \A u \in Threads : u # t => at[p][u] \notin InLock
  BY <1>1, InHand
<1>4. (ChainShape /\ TextShape /\ HashesKnown /\ StartOrLoneEnd)'
  BY <1>1 DEF Inv, ChainShape, TextShape, HashesKnown, StartOrLoneEnd
<1>5. (LogShape /\ FlockShape)' /\ flock' = p
  <2>1. CASE Lock(p, t)
    BY <1>1, <2>1 DEF Lock, Inv, LogShape, FlockShape
  <2>2. CASE WritePart(p, t)
    <3>1. flock = p
      BY <2>2 DEF WritePart, Inv, OneHolds, Holding
    <3>2. cut' \in Seq({<< e >> : e \in Events})
      BY <1>2, <2>2 DEF WritePart, Inv, LogShape
    <3> QED
      BY <1>1, <2>2, <3>1, <3>2 DEF WritePart, Inv, LogShape, FlockShape
  <2> QED
    BY <2>1, <2>2
<1>6. \A q \in Processes, u \in Threads : at'[q][u] \in InLock <=> at[q][u] \in InLock
  BY <1>1, PlacesDistinct
<1>7. OneInLock'
  BY <1>1, <1>6, PlacesDistinct DEF Inv, OneInLock
<1>8. OneHolds'
  <2>1. \A q \in Processes \ {p} : flock # q
    <3>1. flock = None \/ flock = p
      BY DEF Lock, WritePart, Inv, OneHolds, Holding
    <3> QED
      BY <3>1, NoneIsNoProcess
  <2>2. \A q \in Processes \ {p}, u \in Threads : at'[q][u] \notin Holding
    BY <1>1, <2>1 DEF Inv, OneHolds
  <2> QED
    BY <1>1, <1>5, <2>2 DEF OneHolds
<1>9. TextIsNext'
  BY <1>1, <1>6 DEF Inv, TextIsNext
<1>10. LinesNeverInterleave'
  <2> SUFFICES ASSUME NEW q \in Processes, NEW u \in Threads, at'[q][u] = "rest"
               PROVE  cut' # << >> /\ Last(cut') = text'[q]
    BY DEF LinesNeverInterleave
  <2>1. q = p
    BY <1>5, <1>8 DEF OneHolds, Holding
  <2>2. u = t
    BY <1>1, <1>3, <2>1 DEF InLock
  <2>3. WritePart(p, t)
    BY <1>1, <2>1, <2>2
  <2>4. cut' = Append(cut, text[p]) /\ cut \in Seq({<< e >> : e \in Events})
    BY <2>3 DEF WritePart, Inv, LogShape
  <2>5. Len(cut') = Len(cut) + 1 /\ Len(cut) \in Nat /\ cut'[Len(cut) + 1] = text[p]
    BY <1>2, <2>4
  <2> QED
    BY <1>1, <2>1, <2>5 DEF Last
<1>11. Unstarted'
  <2> SUFFICES ASSUME NEW q \in Processes, chain'[q].seq = 0
               PROVE  at'[q]["beat"] = "off" /\ at'[q]["main"] # "free" /\ doing'[q]["main"] # "event"
    BY DEF Unstarted
  <2>1. at[q]["beat"] = "off" /\ at[q]["main"] # "free" /\ doing[q]["main"] # "event"
    BY <1>1 DEF Inv, Unstarted
  <2>2. q = p => t = "main"
    BY <1>1, <2>1 DEF InLock, Threads
  <2> QED
    BY <1>1, <2>1, <2>2 DEF Holding, Threads
<1>12. LinesNumbered'
  BY <1>1 DEF Inv, LinesNumbered
<1>13. LoneEnds'
  <2>1. \A k \in 1 .. Len(log) : IsLone(k) => log[k].instance \in Processes \ {p}
    BY <1>1, LineTyped, LoneIsOut DEF Inv, IsLone
  <2>2. \A k \in 1 .. Len(log) : IsLone(k)' => IsLone(k)
    BY <1>1 DEF IsLone
  <2> QED
    BY <1>1, <2>1, <2>2 DEF Inv, LoneEnds, Threads
<1> QED
  BY <1>1, <1>4, <1>5, <1>7, <1>8, <1>9, <1>10, <1>11, <1>12, <1>13 DEF Inv

(* What holds of processes and threads once an event is done with, however *)
(* it ended.                                                               *)
LEMMA FinishedInLock ==
  ASSUME Inv, NEW p \in Processes, NEW t \in Threads, Drop(p, t) \/ WriteRest(p, t)
  PROVE  /\ OneInLock' /\ OneHolds' /\ FlockShape'
         /\ \A q \in Processes \ {p} : at'[q] = at[q] /\ text'[q] = text[q] /\ chain'[q] = chain[q]
         /\ UNCHANGED doing /\ text'[p] = << >> /\ \A u \in Threads : at'[p][u] \notin InLock
<1>1. /\ UNCHANGED doing
      /\ at[p][t] \in InLock /\ \A u \in Threads : at'[p][u] \notin InLock
      /\ text'[p] = << >>
      /\ \A q \in Processes \ {p} : at'[q] = at[q] /\ text'[q] = text[q] /\ chain'[q] = chain[q]
  BY Finished
<1>2. OneInLock'
  BY <1>1 DEF Inv, OneInLock, Threads
<1>3. \A u \in Threads : at'[p][u] \notin Holding
  BY <1>1, PlacesDistinct
<1>4. \A u \in Threads : u # t => at[p][u] \notin Holding
  BY <1>1, InHand, PlacesDistinct
<1>5. CASE at[p][t] \in Holding
  <2>1. flock = p /\ flock' = None
    BY <1>5 DEF Inv, OneHolds, Drop, WriteRest, Holding
  <2>2. \A q \in Processes \ {p}, u \in Threads : at[q][u] \notin Holding
    BY <2>1 DEF Inv, OneHolds
  <2> QED
    BY <1>1, <1>2, <1>3, <2>1, <2>2, NoneIsNoProcess DEF OneHolds, FlockShape
<1>6. CASE at[p][t] \notin Holding
  <2>1. flock' = flock /\ flock # p
    BY <1>4, <1>6 DEF Inv, OneHolds, Drop, WriteRest, Holding
  <2> QED
    BY <1>1, <1>2, <1>3, <2>1 DEF Inv, OneHolds, FlockShape
<1> QED
  BY <1>1, <1>2, <1>5, <1>6, SMTT(30)

LEMMA DropKeeps ==
  ASSUME Inv, CountShape', NEW p \in Processes, NEW t \in Threads, Drop(p, t)
  PROVE  Inv'
<1>1. /\ UNCHANGED <<doing, log, cut>>
      /\ AtShape' /\ TextShape' /\ ChainShape' /\ at[p][t] \in InLock
      /\ at'[p] = Raised(p, t)
      /\ chain'[p] = [chain[p] EXCEPT !.closed = ClosedBy(p, t)]
  BY Finished DEF Drop
<1>2. /\ OneInLock' /\ OneHolds' /\ FlockShape'
      /\ \A q \in Processes \ {p} : at'[q] = at[q] /\ text'[q] = text[q] /\ chain'[q] = chain[q]
      /\ text'[p] = << >> /\ \A u \in Threads : at'[p][u] \notin InLock
  BY FinishedInLock
<1>3. \A q \in Processes : chain'[q].seq = chain[q].seq /\ chain'[q].prev = chain[q].prev
                             /\ chain'[q].hashed = chain[q].hashed
  <2>1. chain[p] \in Chains
    BY DEF Inv, ChainShape
  <2>2. chain'[p].seq = chain[p].seq /\ chain'[p].prev = chain[p].prev /\ chain'[p].hashed = chain[p].hashed
    BY <1>1, <2>1 DEF Chains
  <2> QED
    BY <1>2, <2>2
<1>4. (LogShape /\ StartOrLoneEnd)'
  BY <1>1 DEF Inv, LogShape, StartOrLoneEnd
<1>5. TextIsNext'
  BY <1>1, <1>2 DEF Inv, TextIsNext
<1>6. HashesKnown'
  BY <1>2, <1>3 DEF Inv, HashesKnown
<1>7. LinesNeverInterleave'
  BY <1>1, <1>2 DEF Inv, LinesNeverInterleave, InLock
<1>8. Unstarted'
  <2> SUFFICES ASSUME NEW q \in Processes, chain'[q].seq = 0
               PROVE  at'[q]["beat"] = "off" /\ at'[q]["main"] # "free" /\ doing'[q]["main"] # "event"
    BY DEF Unstarted
  <2>1. at[q]["beat"] = "off" /\ at[q]["main"] # "free" /\ doing[q]["main"] # "event"
    BY <1>3 DEF Inv, Unstarted
  <2>2. CASE q # p
    BY <1>1, <1>2, <2>1, <2>2
  <2>3. CASE q = p
    <3>1. t = "main"
      BY <1>1, <2>1, <2>3 DEF InLock, Threads
    <3> QED
      BY <1>1, <2>1, <2>3, <3>1 DEF Raised, Inv, AtShape, Places
  <2> QED
    BY <2>2, <2>3
<1>9. LinesNumbered'
  <2>1. \A k \in 1 .. Len(log) : log[k].readable => log[k].instance \in Processes
    BY LineTyped DEF Inv
  <2> QED
    BY <1>1, <1>3, <2>1 DEF Inv, LinesNumbered
<1>10. LoneEnds'
  <2>1. \A k \in 1 .. Len(log) : IsLone(k) => log[k].instance \in Processes \ {p}
    BY <1>1, LineTyped, LoneIsOut DEF Inv, IsLone
  <2>2. \A k \in 1 .. Len(log) : IsLone(k)' => IsLone(k)
    BY <1>1 DEF IsLone
  <2> QED
    BY <1>1, <1>2, <2>1, <2>2 DEF Inv, LoneEnds
<1> QED
  BY <1>1, <1>2, <1>4, <1>5, <1>6, <1>7, <1>8, <1>9, <1>10, SMTT(30) DEF Inv

(* The line of an event: it is readable only as the next one of its chain, *)
(* and a shutdown that comes first is the last thing its process does.     *)
LEMMA LineAdded ==
  ASSUME Inv, NEW p \in Processes, NEW t \in Threads, WriteRest(p, t)
  PROVE  \E line \in Events \cup {Trail!Garbled} :
           /\ log' = Append(log, line)
           /\ line.readable =>
                /\ line.instance = p /\ line.seq = chain[p].seq
                /\ line.seq = 0 /\ line.operation # "start" =>
                     /\ line.operation = "shutdown"
                     /\ at'[p]["main"] = "done" /\ at'[p]["beat"] = "off"
<1>1. at[p][t] \in InLock /\ at'[p] = Written(p, t) /\ AtShape
  BY Finished DEF Inv
<1>2. PICK e \in Events : text[p] = << e >>
  BY <1>1, InHand
<1>3. PICK line \in {e, Trail!Garbled} : log \o LinesOf(p, t) = Append(log, line)
  BY <1>1, <1>2, LineWritten
<1>4. log' = Append(log, line)
  BY <1>3 DEF WriteRest
<1>5. Trail!Garbled.readable = FALSE
  BY DEF Trail!Garbled
<1>6. e.instance = p /\ e.seq = chain[p].seq /\ e.operation = doing[p][t]
  BY <1>1, <1>2 DEF Inv, TextIsNext
<1>7. ASSUME e.seq = 0, e.operation # "start"
      PROVE  e.operation = "shutdown" /\ at'[p]["main"] = "done" /\ at'[p]["beat"] = "off"
  <2>1. at[p]["beat"] = "off" /\ doing[p]["main"] # "event"
    BY <1>6, <1>7 DEF Inv, Unstarted
  <2>2. t = "main"
    BY <1>1, <2>1 DEF InLock, Threads
  <2>3. doing[p]["main"] = "shutdown"
    BY <1>1, <1>6, <1>7, <2>1, <2>2 DEF AtShape
  <2> QED
    BY <1>1, <1>6, <2>1, <2>2, <2>3 DEF Written, AtShape, Places
<1> QED
  BY <1>3, <1>4, <1>5, <1>6, <1>7, SMTT(30)

LEMMA WriteRestKeeps ==
  ASSUME Inv, CountShape', NEW p \in Processes, NEW t \in Threads, WriteRest(p, t)
  PROVE  Inv'
<1>1. /\ UNCHANGED doing
      /\ AtShape' /\ TextShape' /\ ChainShape'
      /\ at[p][t] \in Holding /\ at[p][t] \in InLock
      /\ at'[p] = Written(p, t)
      /\ chain'[p] = [chain[p] EXCEPT !.seq = @ + 1, !.prev = text[p][1].hash, !.closed = ClosedBy(p, t)]
  BY Finished
<1>2. /\ OneInLock' /\ OneHolds' /\ FlockShape'
      /\ \A q \in Processes \ {p} : at'[q] = at[q] /\ text'[q] = text[q] /\ chain'[q] = chain[q]
      /\ text'[p] = << >> /\ \A u \in Threads : at'[p][u] \notin InLock
  BY FinishedInLock
<1>3. /\ \A q \in Processes : chain[q].seq \in Nat
      /\ chain'[p].seq = chain[p].seq + 1 /\ chain'[p].prev = text[p][1].hash
      /\ chain'[p].hashed = chain[p].hashed
  <2>1. chain[p] \in Chains /\ \A q \in Processes : chain[q].seq \in Nat
    BY DEF Inv, ChainShape, Chains
  <2> QED
    BY <1>1, <2>1 DEF Chains
<1>4. PICK line \in Events \cup {Trail!Garbled} :
        /\ log' = Append(log, line)
        /\ line.readable =>
             /\ line.instance = p /\ line.seq = chain[p].seq
             /\ line.seq = 0 /\ line.operation # "start" =>
                  /\ line.operation = "shutdown"
                  /\ at'[p]["main"] = "done" /\ at'[p]["beat"] = "off"
  BY LineAdded
<1>5. /\ log' \in Seq(Events \cup {Trail!Garbled})
      /\ Len(log') = Len(log) + 1 /\ Len(log) \in Nat /\ log'[Len(log) + 1] = line
      /\ \A k \in 1 .. Len(log) : log'[k] = log[k]
  BY <1>4, Appended DEF Inv
<1>6. \A k \in 1 .. Len(log') : k \in 1 .. Len(log) \/ k = Len(log) + 1
  BY <1>5
<1>7. LogShape'
  <2>1. cut' = << >>
    BY DEF WriteRest
  <2> QED
    BY <1>5, <2>1 DEF LogShape
<1>8. TextIsNext'
  BY <1>1, <1>2 DEF Inv, TextIsNext
<1>9. HashesKnown'
  <2>1. text[p] # << >>
    BY <1>1 DEF Inv, OneInLock
  <2>2. text[p][1].hash <= chain[p].hashed
    BY <2>1 DEF Inv, HashesKnown
  <2> QED
    BY <1>2, <1>3, <2>2 DEF Inv, HashesKnown
<1>10. LinesNeverInterleave'
  <2>1. \A q \in Processes \ {p}, u \in Threads : at[q][u] \notin Holding
    BY <1>1, NoneIsNoProcess DEF Inv, OneHolds
  <2> QED
    BY <1>2, <2>1 DEF LinesNeverInterleave, Holding, InLock
<1>11. Unstarted'
  <2>1. chain'[p].seq # 0
    <3>1. chain[p].seq \in Nat /\ chain'[p].seq = chain[p].seq + 1
      BY <1>3
    <3> QED
      BY ONLY <3>1
  <2>2. ASSUME NEW q \in Processes \ {p}, chain'[q].seq = 0
        PROVE  at'[q]["beat"] = "off" /\ at'[q]["main"] # "free" /\ doing'[q]["main"] # "event"
    <3>1. at'[q] = at[q] /\ chain'[q] = chain[q] /\ doing' = doing
      BY <1>1, <1>2
    <3> QED
      BY <2>2, <3>1 DEF Inv, Unstarted
  <2> QED
    BY <2>1, <2>2 DEF Unstarted
<1>12. LinesNumbered'
  <2> SUFFICES ASSUME NEW k \in 1 .. Len(log'), log'[k].readable
               PROVE  log'[k].seq < chain'[log'[k].instance].seq
    BY DEF LinesNumbered
  <2>1. CASE k \in 1 .. Len(log)
    <3>1. log'[k] = log[k] /\ log[k].instance \in Processes /\ log[k].seq \in Nat
      BY <1>5, <2>1, LineTyped DEF Inv
    <3>2. log[k].seq < chain[log[k].instance].seq
      BY <1>5, <2>1 DEF Inv, LinesNumbered
    <3>3. CASE log[k].instance = p
      BY <1>3, <3>1, <3>2, <3>3
    <3>4. CASE log[k].instance # p
      BY <1>2, <3>1, <3>2, <3>4
    <3> QED
      BY <3>3, <3>4
  <2>2. CASE k = Len(log) + 1
    BY <1>3, <1>4, <1>5, <2>2
  <2> QED
    BY <1>6, <2>1, <2>2
<1>13. \A k \in 1 .. Len(log) : IsLone(k) => log[k].instance \in Processes \ {p}
  BY <1>1, LineTyped, LoneIsOut DEF Inv, IsLone
<1>14. LoneEnds'
  <2> SUFFICES ASSUME NEW k \in 1 .. Len(log'), IsLone(k)'
               PROVE  /\ log'[k].operation = "shutdown"
                      /\ at'[log'[k].instance]["main"] \in {"done", "gone"}
                      /\ at'[log'[k].instance]["beat"] = "off"
    BY DEF LoneEnds
  <2>1. CASE k \in 1 .. Len(log)
    <3>1. log'[k] = log[k] /\ IsLone(k)
      BY <1>5, <2>1 DEF IsLone
    <3> QED
      BY <1>2, <1>13, <2>1, <3>1 DEF Inv, LoneEnds
  <2>2. CASE k = Len(log) + 1
    BY <1>4, <1>5, <2>2 DEF IsLone
  <2> QED
    BY <1>6, <2>1, <2>2
<1>15. StartOrLoneEnd'
  <2> SUFFICES ASSUME NEW k \in 1 .. Len(log'), NEW l \in 1 .. Len(log'), IsLone(k)'
               PROVE  /\ log'[k].operation = "shutdown"
                      /\ log'[l].readable /\ log'[l].instance = log'[k].instance => l = k
    BY DEF StartOrLoneEnd, IsLone
  <2>1. log'[k].operation = "shutdown"
    BY <1>14 DEF LoneEnds
  <2>2. ASSUME log'[l].readable, log'[l].instance = log'[k].instance
        PROVE  l = k
    <3>1. CASE k \in 1 .. Len(log) /\ l \in 1 .. Len(log)
      <4>1. log'[k] = log[k] /\ log'[l] = log[l] /\ IsLone(k)
        BY <1>5, <3>1 DEF IsLone
      <4> QED
        BY <2>2, <3>1, <4>1 DEF Inv, StartOrLoneEnd, IsLone
    <3>2. CASE k \in 1 .. Len(log) /\ l = Len(log) + 1
      <4>1. log'[k] = log[k] /\ IsLone(k) /\ log'[l].instance = p
        BY <1>4, <1>5, <2>2, <3>2 DEF IsLone
      <4> QED
        BY <1>13, <2>2, <3>2, <4>1
    <3>3. CASE k = Len(log) + 1 /\ l \in 1 .. Len(log)
      <4>1. line.readable /\ line.seq = 0 /\ line.instance = p /\ chain[p].seq = 0
        BY <1>4, <1>5, <3>3 DEF IsLone
      <4>2. log'[l] = log[l] /\ log[l].seq \in Nat /\ log[l].seq < chain[log[l].instance].seq
        BY <1>5, <2>2, <3>3, LineTyped DEF Inv, LinesNumbered
      <4>3. log[l].instance = p
        BY <1>5, <2>2, <3>3, <4>1, <4>2
      <4> QED
        BY <4>1, <4>2, <4>3
    <3>4. CASE k = Len(log) + 1 /\ l = Len(log) + 1
      BY <3>4
    <3> QED
      BY <1>6, <3>1, <3>2, <3>3, <3>4
  <2> QED
    BY <2>1, <2>2
<1> QED
  BY <1>1, <1>2, <1>7, <1>8, <1>9, <1>10, <1>11, <1>12, <1>14, <1>15, SMTT(30) DEF Inv

LEMMA EndedKeeps ==
  ASSUME Inv, CountShape', NEW gone \in SUBSET Processes, Ends(gone)
  PROVE  Inv'
<1>1. /\ UNCHANGED <<chain, doing, log, cut>>
      /\ AtShape' /\ TextShape' /\ flock' = IF flock \in gone THEN None ELSE flock
      /\ \A q \in gone : at'[q] = [main |-> "gone", beat |-> "off"] /\ text'[q] = << >>
      /\ \A q \in Processes \ gone : at'[q] = at[q] /\ text'[q] = text[q]
  BY Ended
<1>2. \A q \in gone : /\ at'[q]["main"] = "gone" /\ at'[q]["beat"] = "off"
                      /\ \A u \in Threads : at'[q][u] \notin InLock /\ at'[q][u] \notin Holding
                                            /\ at'[q][u] # "rest"
  BY <1>1 DEF InLock, Holding, Threads
<1>3. (ChainShape /\ LogShape /\ FlockShape /\ LinesNumbered /\ StartOrLoneEnd)'
  BY <1>1 DEF Inv, ChainShape, LogShape, FlockShape, LinesNumbered, StartOrLoneEnd
<1>4. OneInLock'
  BY <1>1, <1>2 DEF Inv, OneInLock, Threads
<1>5. OneHolds'
  BY <1>1, <1>2, NoneIsNoProcess DEF Inv, OneHolds
<1>6. TextIsNext'
  BY <1>1 DEF Inv, TextIsNext
<1>7. HashesKnown'
  BY <1>1 DEF Inv, HashesKnown
<1>8. LinesNeverInterleave'
  BY <1>1, <1>2 DEF Inv, LinesNeverInterleave
<1>9. Unstarted'
  BY <1>1, <1>2 DEF Inv, Unstarted
<1>10. LoneEnds'
  <2>1. \A k \in 1 .. Len(log) : IsLone(k) => log[k].instance \in Processes
    BY LineTyped DEF Inv, IsLone
  <2>2. \A k \in 1 .. Len(log) : IsLone(k)' => IsLone(k)
    BY <1>1 DEF IsLone
  <2> QED
    BY <1>1, <1>2, <2>1, <2>2 DEF Inv, LoneEnds
<1> QED
  BY <1>1, <1>3, <1>4, <1>5, <1>6, <1>7, <1>8, <1>9, <1>10 DEF Inv

-----------------------------------------------------------------------------
LEMMA InitInv == Init => Inv
<1> SUFFICES ASSUME Init PROVE Inv
  OBVIOUS
<1>1. ChainShape
  BY DEF Init, NewChain, ChainShape, Chains
<1>2. AtShape
  BY DEF Init, AtShape, Places, MainPlaces, BeatPlaces
<1>3. TextShape /\ LogShape /\ FlockShape
  BY DEF Init, TextShape, LogShape, FlockShape
<1>4. CountShape
  BY EmitterAssumption DEF Init, CountShape
<1>5. OneInLock /\ OneHolds /\ TextIsNext
  BY NoneIsNoProcess DEF Init, OneInLock, OneHolds, TextIsNext, InLock, Holding, Threads
<1>6. HashesKnown
  BY DEF Init, NewChain, HashesKnown
<1>7. LinesNeverInterleave /\ Unstarted
  BY DEF Init, LinesNeverInterleave, Unstarted, Threads
<1>8. Len(log) = 0
  BY DEF Init
<1>9. LinesNumbered /\ LoneEnds /\ StartOrLoneEnd
  BY <1>8 DEF LinesNumbered, LoneEnds, StartOrLoneEnd
<1> QED
  BY <1>1, <1>2, <1>3, <1>4, <1>5, <1>6, <1>7, <1>9 DEF Inv

LEMMA NextInv == Inv /\ [Next]_vars => Inv'
<1> SUFFICES ASSUME Inv, [Next]_vars PROVE Inv'
  OBVIOUS
<1>1. CountShape'
  BY CountKept DEF Inv
<1> QED
  BY <1>1, Steps, StutterKeeps, OutsideKeeps, TakeKeeps, WithinKeeps, DropKeeps, WriteRestKeeps, EndedKeeps

LEMMA InvHolds == Spec => []Inv
  BY InitInv, NextInv, PTL DEF Spec

(* Every variable keeps its values, whatever the processes do.             *)
THEOREM EmitterTypeCorrect == Spec => []TypeOK
<1>1. Inv => TypeOK
  <2> SUFFICES ASSUME Inv PROVE TypeOK
    OBVIOUS
  <2>1. ASSUME NEW p \in Processes
        PROVE  /\ chain[p].seq \in Nat /\ chain[p].hashed \in Nat
               /\ chain[p].prev \in 0 .. chain[p].hashed
               /\ {chain[p].started, chain[p].closing, chain[p].closed} \subseteq BOOLEAN
    <3>1. /\ chain[p].seq \in Nat /\ chain[p].hashed \in Nat /\ chain[p].prev \in Nat
          /\ {chain[p].started, chain[p].closing, chain[p].closed} \subseteq BOOLEAN
      BY DEF Inv, ChainShape, Chains
    <3>2. chain[p].prev <= chain[p].hashed
      BY DEF Inv, HashesKnown
    <3> QED
      BY <3>1, <3>2
  <2>2. ASSUME NEW p \in Processes
        PROVE  /\ at[p]["main"] \in {"new", "lock", "free", "failed", "done", "gone"} \cup InLock
               /\ at[p]["beat"] \in {"off", "free", "lock"} \cup InLock
               /\ doing[p]["main"] \in {"start", "event", "shutdown"} /\ doing[p]["beat"] = "heartbeat"
    BY DEF Inv, AtShape, Places, MainPlaces, BeatPlaces
  <2>3. ASSUME NEW p \in Processes PROVE Len(text[p]) <= 1
    <3>1. CASE text[p] = << >>
      BY <3>1
    <3>2. CASE \E e \in Events : text[p] = << e >>
      BY <3>2
    <3> QED
      BY <3>1, <3>2 DEF Inv, TextShape
  <2>4. flock \in Processes \cup {None} /\ parts \in 0 .. MaxParts /\ faults \in 0 .. MaxFaults
    BY DEF Inv, FlockShape, CountShape
  <2> QED
    BY <2>1, <2>2, <2>3, <2>4 DEF TypeOK
<1> QED
  BY <1>1, InvHolds, PTL

(* A line that is written in two parts is not broken into: the lock of the *)
(* stream is held by one process, and by one thread of it, from the first  *)
(* part to the last, through partial writes, timeouts and killed processes *)
(* (ContainerAuditStream.flush; AuditEmitter._append).                     *)
THEOREM EmitterLinesNeverInterleave == Spec => []LinesNeverInterleave
<1>1. Inv => LinesNeverInterleave
  BY DEF Inv
<1> QED
  BY <1>1, InvHolds, PTL

(* Every chain of the log begins with its start, or is a lone shutdown:    *)
(* before the first event is written nothing but start and shutdown is     *)
(* tried, and a process that wrote a shutdown first writes no more (start, *)
(* close, _append and serve).                                              *)
THEOREM EmitterStartOrLoneEnd == Spec => []StartOrLoneEnd
<1>1. Inv => StartOrLoneEnd
  BY DEF Inv
<1> QED
  BY <1>1, InvHolds, PTL


-----------------------------------------------------------------------------
(* What a reader finds in the log: the chains verify_chain checks.         *)
(* What verify_chain looks for holds of the log: the text in hand goes on  *)
(* where its chain is, and a closed chain has none in hand.                *)
TextGoesOn ==
  \A p \in Processes : text[p] # << >> => text[p][1].prev_hash = chain[p].prev /\ ~chain[p].closed

FromGenesis == \A p \in Processes : chain[p].seq = 0 => chain[p].prev = 0

SameChain(k, l) == log[k].readable /\ log[l].readable /\ log[k].instance = log[l].instance

(* Later lines of a chain have higher numbers; each names the hash of the  *)
(* one numbered before it, and the chain that of its last one.             *)
LinesClimb ==
  \A k, l \in 1 .. Len(log) : SameChain(k, l) /\ k < l => log[k].seq < log[l].seq

LinesFollow ==
  /\ \A k \in 1 .. Len(log) : log[k].readable /\ log[k].seq = 0 => log[k].prev_hash = 0
  /\ \A k, l \in 1 .. Len(log) :
       SameChain(k, l) /\ log[k].seq = log[l].seq + 1 => log[k].prev_hash = log[l].hash
  /\ \A k \in 1 .. Len(log) :
       log[k].readable /\ chain[log[k].instance].seq = log[k].seq + 1 =>
         chain[log[k].instance].prev = log[k].hash

(* A shutdown is the last event of its chain.                              *)
EndIsLast ==
  \A k \in 1 .. Len(log) : log[k].readable /\ log[k].operation = "shutdown" =>
    chain[log[k].instance].closed /\ chain[log[k].instance].seq = log[k].seq + 1

(* Only a line that cannot be read hides an event.                         *)
AllReadable == \A k \in 1 .. Len(log) : log[k].readable

NoneMissing ==
  AllReadable => \A p \in Processes : \A s \in 0 .. chain[p].seq - 1 :
    \E k \in 1 .. Len(log) : log[k].instance = p /\ log[k].seq = s

ChainInv == TextGoesOn /\ FromGenesis /\ LinesClimb /\ LinesFollow /\ EndIsLast /\ NoneMissing

(* A step that writes no line keeps it, as long as no chain goes on and no *)
(* text but the next of an open chain is taken up.                         *)
LEMMA NoLineKeeps ==
  ASSUME Inv, ChainInv, log' = log,
         \A p \in Processes : /\ chain'[p].seq = chain[p].seq /\ chain'[p].prev = chain[p].prev
                              /\ chain[p].closed => chain'[p].closed,
         TextGoesOn'
  PROVE  ChainInv'
<1>1. \A k \in 1 .. Len(log) : log[k].readable => log[k].instance \in Processes
  BY LineTyped DEF Inv
<1>2. FromGenesis'
  BY DEF ChainInv, FromGenesis
<1>3. LinesClimb'
  BY DEF ChainInv, LinesClimb, SameChain
<1>4. LinesFollow'
  BY <1>1 DEF ChainInv, LinesFollow, SameChain
<1>5. EndIsLast'
  BY <1>1 DEF ChainInv, EndIsLast
<1>6. NoneMissing'
  BY DEF ChainInv, NoneMissing, AllReadable
<1> QED
  BY <1>2, <1>3, <1>4, <1>5, <1>6 DEF ChainInv

(* The line of an event: the text that was in hand, or one nobody can read. *)
LEMMA LineIsText ==
  ASSUME Inv, ChainInv, NEW p \in Processes, NEW t \in Threads, WriteRest(p, t)
  PROVE  \E line \in Events \cup {Trail!Garbled} :
           /\ log' = Append(log, line)
           /\ ~line.readable \/ /\ line.readable /\ line.instance = p /\ line.seq = chain[p].seq
                                /\ line.prev_hash = chain[p].prev /\ line.hash = chain'[p].prev
                                /\ ~chain[p].closed
                                /\ line.operation = "shutdown" => chain'[p].closed
<1>1. /\ at[p][t] \in InLock
      /\ chain'[p] = [chain[p] EXCEPT !.seq = @ + 1, !.prev = text[p][1].hash, !.closed = ClosedBy(p, t)]
  BY Finished
<1>2. PICK e \in Events : text[p] = << e >>
  BY <1>1, InHand
<1>3. PICK line \in {e, Trail!Garbled} : log \o LinesOf(p, t) = Append(log, line)
  BY <1>1, <1>2, LineWritten
<1>4. log' = Append(log, line)
  BY <1>3 DEF WriteRest
<1>5. Trail!Garbled.readable = FALSE
  BY DEF Trail!Garbled
<1>6. text[p] # << >> /\ text[p][1] = e /\ e.readable
  BY <1>2, EventTyped
<1>7. e.instance = p /\ e.seq = chain[p].seq /\ e.operation = doing[p][t]
  BY <1>1, <1>6 DEF Inv, TextIsNext
<1>8. e.prev_hash = chain[p].prev /\ ~chain[p].closed
  BY <1>6 DEF ChainInv, TextGoesOn
<1>9. chain'[p].prev = e.hash /\ chain'[p].closed = ClosedBy(p, t)
  <2>1. chain[p] \in Chains
    BY DEF Inv, ChainShape
  <2> QED
    BY <1>1, <1>6, <2>1 DEF Chains
<1>10. doing[p][t] = "shutdown" => ClosedBy(p, t)
  BY DEF Inv, AtShape, ClosedBy, Threads
<1> QED
  BY <1>3, <1>4, <1>5, <1>6, <1>7, <1>8, <1>9, <1>10

LEMMA LineKeeps ==
  ASSUME Inv, ChainInv, NEW p \in Processes, NEW t \in Threads, WriteRest(p, t)
  PROVE  ChainInv'
<1>1. /\ \A q \in Processes \ {p} : text'[q] = text[q] /\ chain'[q] = chain[q]
      /\ text'[p] = << >>
      /\ chain'[p] = [chain[p] EXCEPT !.seq = @ + 1, !.prev = text[p][1].hash, !.closed = ClosedBy(p, t)]
  BY Finished, ZenonT(60)
<1>2. /\ \A q \in Processes : chain[q].seq \in Nat
      /\ chain'[p].seq = chain[p].seq + 1
  <2>1. chain[p] \in Chains /\ \A q \in Processes : chain[q].seq \in Nat
    BY DEF Inv, ChainShape, Chains
  <2> QED
    BY <1>1, <2>1 DEF Chains
<1>3. PICK line \in Events \cup {Trail!Garbled} :
        /\ log' = Append(log, line)
        /\ ~line.readable \/ /\ line.readable /\ line.instance = p /\ line.seq = chain[p].seq
                             /\ line.prev_hash = chain[p].prev /\ line.hash = chain'[p].prev
                             /\ ~chain[p].closed
                             /\ line.operation = "shutdown" => chain'[p].closed
  BY LineIsText
<1> DEFINE n == Len(log) + 1
<1>4. /\ Len(log') = n /\ n \in Nat /\ n >= 1 /\ Len(log) \in Nat /\ log'[n] = line
      /\ \A k \in 1 .. Len(log) : log'[k] = log[k]
  BY <1>3, Appended DEF Inv
<1> HIDE DEF n
<1>5. \A k \in 1 .. Len(log') : k \in 1 .. Len(log) \/ k = n
  BY <1>4 DEF n
<1>6. \A k \in 1 .. Len(log) : k < n
  BY <1>4 DEF n
<1>7. \A k \in 1 .. Len(log) : log[k].readable =>
        /\ log[k].instance \in Processes /\ log[k].seq \in Nat
        /\ log[k].seq < chain[log[k].instance].seq
  BY LineTyped DEF Inv, LinesNumbered
<1>8. \A k \in 1 .. Len(log) : log[k].readable /\ log[k].instance = p =>
        log[k].seq < chain[p].seq /\ log[k].seq + 1 # chain'[p].seq
  BY <1>2, <1>7
<1>9. TextGoesOn'
  BY <1>1 DEF ChainInv, TextGoesOn
<1>10. FromGenesis'
  <2>1. chain'[p].seq # 0
    BY <1>2
  <2> QED
    BY <1>1, <2>1 DEF ChainInv, FromGenesis
<1>11. LinesClimb'
  <2> SUFFICES ASSUME NEW k \in 1 .. Len(log'), NEW l \in 1 .. Len(log'), SameChain(k, l)', k < l
               PROVE  log'[k].seq < log'[l].seq
    BY DEF LinesClimb
  <2>1. k \in 1 .. Len(log)
    BY <1>4, <1>5, <1>6
  <2>2. log'[k] = log[k]
    BY <1>4, <2>1
  <2>3. CASE l \in 1 .. Len(log)
    <3>1. log'[l] = log[l] /\ SameChain(k, l)
      BY <1>4, <2>2, <2>3 DEF SameChain
    <3> QED
      BY <2>1, <2>2, <2>3, <3>1 DEF ChainInv, LinesClimb
  <2>4. CASE l = n
    BY <1>3, <1>4, <1>8, <2>1, <2>2, <2>4 DEF SameChain
  <2> QED
    BY <1>5, <2>3, <2>4
<1>12. LinesFollow'
  <2>1. ASSUME NEW k \in 1 .. Len(log'), log'[k].readable, log'[k].seq = 0
        PROVE  log'[k].prev_hash = 0
    <3>1. CASE k \in 1 .. Len(log)
      BY <1>4, <2>1, <3>1 DEF ChainInv, LinesFollow
    <3>2. CASE k = n
      BY <1>3, <1>4, <2>1, <3>2 DEF ChainInv, FromGenesis
    <3> QED
      BY <1>5, <3>1, <3>2
  <2>2. ASSUME NEW k \in 1 .. Len(log'), NEW l \in 1 .. Len(log'), SameChain(k, l)',
               log'[k].seq = log'[l].seq + 1
        PROVE  log'[k].prev_hash = log'[l].hash
    <3>1. CASE k \in 1 .. Len(log) /\ l \in 1 .. Len(log)
      <4>1. log'[k] = log[k] /\ log'[l] = log[l] /\ SameChain(k, l)
        BY <1>4, <2>2, <3>1 DEF SameChain
      <4> QED
        BY <2>2, <3>1, <4>1 DEF ChainInv, LinesFollow
    <3>2. CASE k = n /\ l \in 1 .. Len(log)
      <4>1. log'[l] = log[l] /\ log'[k] = line /\ log[l].readable /\ line.readable /\ log[l].instance = p
        BY <1>3, <1>4, <2>2, <3>2 DEF SameChain
      <4>2. chain[p].seq = log[l].seq + 1 /\ line.prev_hash = chain[p].prev
        BY <1>3, <2>2, <4>1
      <4>3. chain[p].prev = log[l].hash
        BY <3>2, <4>1, <4>2 DEF ChainInv, LinesFollow
      <4> QED
        BY <4>1, <4>2, <4>3
    <3>3. CASE k \in 1 .. Len(log) /\ l = n
      <4>1. log'[k] = log[k] /\ log'[l] = line /\ log[k].readable /\ log[k].instance = p /\ line.seq = chain[p].seq
        BY <1>3, <1>4, <2>2, <3>3 DEF SameChain
      <4>2. log[k].seq < chain[p].seq /\ log[k].seq = chain[p].seq + 1 /\ log[k].seq \in Nat
        BY <1>7, <1>8, <2>2, <3>3, <4>1
      <4> QED
        BY <1>2, <4>2
    <3>4. CASE k = n /\ l = n
      <4>1. log'[k].seq \in Nat
        BY <1>2, <1>3, <1>4, <2>2, <3>4 DEF SameChain
      <4> QED
        BY <2>2, <3>4, <4>1
    <3> QED
      BY <1>5, <3>1, <3>2, <3>3, <3>4
  <2>3. ASSUME NEW k \in 1 .. Len(log'), log'[k].readable,
               chain'[log'[k].instance].seq = log'[k].seq + 1
        PROVE  chain'[log'[k].instance].prev = log'[k].hash
    <3>1. CASE k \in 1 .. Len(log)
      <4>1. log'[k] = log[k] /\ log[k].instance # p
        BY <1>4, <1>8, <2>3, <3>1
      <4>2. chain'[log[k].instance] = chain[log[k].instance]
        BY <1>1, <1>7, <2>3, <3>1, <4>1
      <4> QED
        BY <2>3, <3>1, <4>1, <4>2 DEF ChainInv, LinesFollow
    <3>2. CASE k = n
      BY <1>3, <1>4, <2>3, <3>2
    <3> QED
      BY <1>5, <3>1, <3>2
  <2> QED
    BY <2>1, <2>2, <2>3 DEF LinesFollow
<1>13. EndIsLast'
  <2> SUFFICES ASSUME NEW k \in 1 .. Len(log'), log'[k].readable, log'[k].operation = "shutdown"
               PROVE  /\ chain'[log'[k].instance].closed
                      /\ chain'[log'[k].instance].seq = log'[k].seq + 1
    BY DEF EndIsLast
  <2>1. CASE k \in 1 .. Len(log)
    <3>1. log'[k] = log[k]
      BY <1>4, <2>1
    <3>2. chain[log[k].instance].closed /\ chain[log[k].instance].seq = log[k].seq + 1
      BY <2>1, <3>1 DEF ChainInv, EndIsLast
    <3>3. log[k].instance # p
      <4>1. at[p][t] \in InLock
        BY Finished
      <4>2. text[p] # << >>
        BY <4>1 DEF Inv, OneInLock
      <4> QED
        BY <3>2, <4>2 DEF ChainInv, TextGoesOn
    <3>4. chain'[log[k].instance] = chain[log[k].instance]
      BY <1>1, <1>7, <2>1, <3>1, <3>3
    <3> QED
      BY <3>1, <3>2, <3>4
  <2>2. CASE k = n
    BY <1>2, <1>3, <1>4, <2>2
  <2> QED
    BY <1>5, <2>1, <2>2
<1>14. NoneMissing'
  <2> SUFFICES ASSUME AllReadable', NEW q \in Processes, NEW s \in 0 .. chain'[q].seq - 1
               PROVE  \E k \in 1 .. Len(log') : log'[k].instance = q /\ log'[k].seq = s
    BY DEF NoneMissing
  <2>1. line.readable
    BY <1>4 DEF AllReadable
  <2>2. AllReadable
    BY <1>4, <1>6 DEF AllReadable, n
  <2>3. CASE s \in 0 .. chain[q].seq - 1
    <3>1. PICK k \in 1 .. Len(log) : log[k].instance = q /\ log[k].seq = s
      BY <2>2, <2>3 DEF ChainInv, NoneMissing
    <3>2. k \in 1 .. Len(log') /\ log'[k] = log[k]
      BY <1>4, <3>1 DEF n
    <3> QED
      BY <3>1, <3>2
  <2>4. CASE s \notin 0 .. chain[q].seq - 1
    <3>1. q = p
      BY <1>1, <2>4
    <3>2. s = chain[p].seq
      BY <1>2, <2>4, <3>1
    <3>3. n \in 1 .. Len(log')
      BY <1>4
    <3> QED
      BY <1>3, <1>4, <2>1, <3>1, <3>2, <3>3
  <2> QED
    BY <2>3, <2>4
<1> QED
  BY <1>9, <1>10, <1>11, <1>12, <1>13, <1>14, SMTT(30) DEF ChainInv

(* Every step keeps it.                                                    *)
LEMMA NextChainInv == Inv /\ ChainInv /\ [Next]_vars => ChainInv'
<1> SUFFICES ASSUME Inv, ChainInv, [Next]_vars
             PROVE  ChainInv'
  OBVIOUS
<1>1. ASSUME UNCHANGED <<chain, at, doing, text, flock, log, cut>>
      PROVE  ChainInv'
  <2>1. TextGoesOn'
    BY <1>1 DEF ChainInv, TextGoesOn
  <2> QED
    BY <1>1, <2>1, NoLineKeeps
<1>2. ASSUME NEW p \in Processes, Start(p) \/ Emit(p) \/ Beat(p) \/ Close(p)
      PROVE  ChainInv'
  <2>1. /\ text' = text /\ log' = log
        /\ \A q \in Processes : /\ chain'[q].seq = chain[q].seq /\ chain'[q].prev = chain[q].prev
                                /\ chain'[q].closed = chain[q].closed
    BY <1>2, Outside
  <2>2. TextGoesOn'
    BY <2>1 DEF ChainInv, TextGoesOn
  <2> QED
    BY <2>1, <2>2, NoLineKeeps
<1>3. ASSUME NEW p \in Processes, NEW t \in Threads, Take(p, t)
      PROVE  ChainInv'
  <2>1. /\ log' = log /\ text[p] = << >>
        /\ \A q \in Processes \ {p} : text'[q] = text[q] /\ chain'[q] = chain[q]
        /\ \/ UNCHANGED <<chain, text>>
           \/ /\ ~chain[p].closed /\ chain'[p] = [chain[p] EXCEPT !.hashed = @ + 1]
              /\ text'[p] = << NextEvent(p, doing[p][t]) >>
    BY <1>3, Taken
  <2>2. chain[p] \in Chains
    BY DEF Inv, ChainShape
  <2>3. \A q \in Processes : /\ chain'[q].seq = chain[q].seq /\ chain'[q].prev = chain[q].prev
                             /\ chain'[q].closed = chain[q].closed
    <3>1. /\ chain'[p].seq = chain[p].seq /\ chain'[p].prev = chain[p].prev
          /\ chain'[p].closed = chain[p].closed
      BY <2>1, <2>2 DEF Chains
    <3> QED
      BY <2>1, <3>1
  <2>4. NextEvent(p, doing[p][t]).prev_hash = chain[p].prev
    BY NextEventTyped DEF Inv
  <2>5. TextGoesOn'
    <3>1. CASE UNCHANGED <<chain, text>>
      BY <3>1 DEF ChainInv, TextGoesOn
    <3>2. CASE ~chain[p].closed /\ text'[p] = << NextEvent(p, doing[p][t]) >>
      <4>1. text'[p][1].prev_hash = chain'[p].prev /\ ~chain'[p].closed
        BY <2>3, <2>4, <3>2
      <4> QED
        BY <2>1, <4>1 DEF ChainInv, TextGoesOn
    <3> QED
      BY <2>1, <3>1, <3>2
  <2> QED
    BY <2>1, <2>3, <2>5, NoLineKeeps
<1>4. ASSUME NEW p \in Processes, NEW t \in Threads, Lock(p, t) \/ WritePart(p, t)
      PROVE  ChainInv'
  <2>1. UNCHANGED <<chain, text, log>>
    BY <1>4, MovedWithin
  <2>2. TextGoesOn'
    BY <2>1 DEF ChainInv, TextGoesOn
  <2> QED
    BY <2>1, <2>2, NoLineKeeps
<1>5. ASSUME NEW p \in Processes, NEW t \in Threads, Drop(p, t)
      PROVE  ChainInv'
  <2>1. /\ text'[p] = << >> /\ log' = log
        /\ chain'[p] = [chain[p] EXCEPT !.closed = ClosedBy(p, t)]
        /\ \A q \in Processes \ {p} : text'[q] = text[q] /\ chain'[q] = chain[q]
    BY <1>5, Finished DEF Drop
  <2>2. chain[p] \in Chains /\ (chain[p].closed => ClosedBy(p, t))
    BY DEF Inv, ChainShape, ClosedBy
  <2>3. /\ chain'[p].seq = chain[p].seq /\ chain'[p].prev = chain[p].prev
        /\ chain[p].closed => chain'[p].closed
    BY <2>1, <2>2 DEF Chains
  <2>4. TextGoesOn'
    BY <2>1 DEF ChainInv, TextGoesOn
  <2> QED
    BY <2>1, <2>3, <2>4, NoLineKeeps
<1>6. ASSUME NEW p \in Processes, NEW t \in Threads, WriteRest(p, t)
      PROVE  ChainInv'
  BY <1>6, LineKeeps
<1>7. ASSUME NEW gone \in SUBSET Processes, Ends(gone)
      PROVE  ChainInv'
  <2>1. /\ UNCHANGED <<chain, log>>
        /\ \A q \in gone : text'[q] = << >>
        /\ \A q \in Processes \ gone : text'[q] = text[q]
    BY <1>7, Ended
  <2>2. TextGoesOn'
    BY <2>1 DEF ChainInv, TextGoesOn
  <2> QED
    BY <2>1, <2>2, NoLineKeeps
<1> QED
  BY <1>1, <1>2, <1>3, <1>4, <1>5, <1>6, <1>7, Steps

LEMMA ChainInvHolds == Spec => [](Inv /\ ChainInv)
<1>1. Init => ChainInv
  <2> SUFFICES ASSUME Init PROVE ChainInv
    OBVIOUS
  <2>1. \A p \in Processes : text[p] = << >> /\ chain[p].seq = 0 /\ chain[p].prev = 0
    BY DEF Init, NewChain
  <2>2. Len(log) = 0
    BY DEF Init
  <2> QED
    BY <2>1, <2>2 DEF ChainInv, TextGoesOn, FromGenesis, LinesClimb, LinesFollow, EndIsLast, NoneMissing
<1> QED
  BY <1>1, InitInv, NextInv, NextChainInv, PTL DEF Spec


-----------------------------------------------------------------------------
(* What verify_chain says of the log.                                      *)

TrailFacts == INSTANCE VerifyChain_proofs WITH Instances <- Processes, Genesis <- 0

(* The emitter's instance of the checks is the one the facts are about.    *)
LEMMA SameJudge == Problems = TrailFacts!Verify(log, TrailFacts!NoHeads, 0, 0).problems
<1>1. \A p : Trail!ChainOf(log, p) = TrailFacts!ChainOf(log, p)
  BY Zenon DEF Trail!ChainOf, Trail!ByInstance, Trail!Place, Trail!Before, Trail!Cardinality,
       TrailFacts!ChainOf, TrailFacts!ByInstance, TrailFacts!Place, TrailFacts!Before,
       TrailFacts!Cardinality
<1>2. \A p, head, c : Trail!CheckChain(p, head, c) = TrailFacts!CheckChain(p, head, c)
  BY SMT DEF Trail!NoHead, Trail!CheckChain, Trail!ChainStart, Trail!CheckEvent, Trail!LeftOut,
       Trail!Faults, Trail!Unseen, Trail!ChainProblem,
       TrailFacts!NoHead, TrailFacts!CheckChain, TrailFacts!ChainStart, TrailFacts!CheckEvent,
       TrailFacts!LeftOut, TrailFacts!Faults, TrailFacts!Unseen, TrailFacts!ChainProblem
<1>3. Trail!NoHeads = TrailFacts!NoHeads
  BY Zenon DEF Trail!NoHeads, TrailFacts!NoHeads, Trail!NoHead, TrailFacts!NoHead
<1>4. \A head : Trail!Silent(head, 0, 0) <=> TrailFacts!Silent(head, 0, 0)
  BY Zenon DEF Trail!Silent, TrailFacts!Silent, Trail!NoHead, TrailFacts!NoHead
<1>5. \A i, n, kind : Trail!ChainProblem(i, n, kind) = TrailFacts!ChainProblem(i, n, kind)
  BY Zenon DEF Trail!ChainProblem, TrailFacts!ChainProblem
<1> QED
  BY <1>1, <1>2, <1>3, <1>4, <1>5 DEF Problems, Trail!Verify, TrailFacts!Verify

(* While every line can be read, each chain of the log is whole.           *)
LEMMA WholeChains ==
  ASSUME Inv, ChainInv, AllReadable, NEW p \in Processes
  PROVE  TrailFacts!Whole(log, p, chain[p].seq)
<1> DEFINE events == TrailFacts!ByInstance(log, p)
<1>1. /\ events \subseteq 1 .. Len(log)
      /\ \A k \in events : log[k].readable /\ log[k].instance = p
  BY DEF TrailFacts!ByInstance
<1>2. \A k \in 1 .. Len(log) : log[k].readable /\ (log[k].instance = p => k \in events)
  BY DEF AllReadable, TrailFacts!ByInstance
<1> HIDE DEF events
<1>3. Len(log) \in Nat /\ chain[p].seq \in Nat
  BY DEF Inv, LogShape, ChainShape, Chains
<1>4. \A k \in events : log[k] \in Events /\ log[k].seq \in Nat /\ log[k].seq < chain[p].seq
  BY <1>1, LineTyped DEF Inv, LinesNumbered
<1>5. \A k \in events : log[k].intact /\ log[k].ts \in Nat /\ log[k].service = "edge-plane"
  BY <1>4, EventTyped
<1>6. TrailFacts!EachOnce(log, p, 0, chain[p].seq)
  <2>1. \A k \in events : log[k].seq \in 0 .. chain[p].seq - 1
    BY <1>3, <1>4
  <2>2. ASSUME NEW k \in events, NEW l \in events, log[k].seq = log[l].seq
        PROVE  k = l
    <3>1. SameChain(k, l) /\ SameChain(l, k) /\ k \in 1 .. Len(log) /\ l \in 1 .. Len(log)
      BY <1>1 DEF SameChain
    <3>2. (k < l => log[k].seq < log[l].seq) /\ (l < k => log[l].seq < log[k].seq)
      BY <3>1 DEF ChainInv, LinesClimb
    <3>3. log[k].seq \in Nat /\ k \in Int /\ l \in Int
      BY <1>3, <1>4, <3>1
    <3> QED
      BY <2>2, <3>2, <3>3
  <2>3. \A s \in 0 .. chain[p].seq - 1 : \E k \in events : log[k].seq = s
    BY <1>2 DEF ChainInv, NoneMissing
  <2> QED
    BY <2>1, <2>2, <2>3 DEF TrailFacts!EachOnce, events
<1>7. \A k \in events : log[k].seq = 0 => log[k].prev_hash = 0
  BY <1>1 DEF ChainInv, LinesFollow
<1>8. ASSUME NEW k \in events, NEW l \in events, log[k].seq = log[l].seq + 1
      PROVE  log[k].prev_hash = log[l].hash /\ log[l].operation # "shutdown"
  <2>1. SameChain(k, l) /\ k \in 1 .. Len(log) /\ l \in 1 .. Len(log)
    BY <1>1 DEF SameChain
  <2>2. log[k].prev_hash = log[l].hash
    BY <1>8, <2>1 DEF ChainInv, LinesFollow
  <2>3. ASSUME log[l].operation = "shutdown" PROVE FALSE
    <3>1. chain[p].seq = log[l].seq + 1
      BY <1>1, <2>1, <2>3 DEF ChainInv, EndIsLast
    <3>2. log[k].seq < chain[p].seq /\ log[k].seq \in Nat
      BY <1>4
    <3> QED
      BY <1>3, <1>8, <3>1, <3>2
  <2> QED
    BY <2>2, <2>3
<1> QED
  BY <1>5, <1>6, <1>7, <1>8 DEF TrailFacts!Whole, events

(* As long as every line can be read, verify_chain finds no problem in the *)
(* log, at any moment: not after dropped events and lock timeouts, nor     *)
(* with a heartbeat racing close (_append: the chain goes on only after    *)
(* the write, and not past its shutdown).                                  *)
THEOREM EmitterLogVerifies == Spec => []LogVerifies
<1>1. ASSUME Inv, ChainInv, AllReadable
      PROVE  Problems = {}
  <2>1. \A p \in Processes : \E n \in Nat : TrailFacts!Whole(log, p, n)
    <3>1. \A p \in Processes : chain[p].seq \in Nat
      BY <1>1 DEF Inv, ChainShape, Chains
    <3> QED
      BY <1>1, <3>1, WholeChains
  <2>2. Len(log) \in Nat /\ \A k \in 1 .. Len(log) : log[k].readable
    BY <1>1 DEF Inv, LogShape, AllReadable
  <2>3. TrailFacts!Verify(log, TrailFacts!NoHeads, 0, 0).problems = {}
    BY <2>1, <2>2, TrailFacts!WholeLogPasses
  <2> QED
    BY <2>3, SameJudge
<1>2. Inv /\ ChainInv => LogVerifies
  BY <1>1 DEF LogVerifies, AllReadable
<1> QED
  BY <1>2, ChainInvHolds, PTL

(* An event whose emit returned is in the log, or verify_chain tells that  *)
(* there are lines it cannot read.                                         *)
THEOREM EmitterNothingLostUntold == Spec => []NothingLostUntold
<1>1. ASSUME Inv, ChainInv, ~AllReadable
      PROVE  Problems # {}
  <2>1. PICK n \in 1 .. Len(log) : ~log[n].readable
    BY <1>1 DEF AllReadable
  <2>2. TrailFacts!Verify(log, TrailFacts!NoHeads, 0, 0).problems # {}
    BY <2>1, TrailFacts!UnreadableIsTold
  <2> QED
    BY <2>2, SameJudge
<1>2. ASSUME Inv, ChainInv
      PROVE  NothingLostUntold
  <2>1. CASE AllReadable
    BY <1>2, <2>1 DEF ChainInv, NoneMissing, NothingLostUntold, AllReadable
  <2>2. CASE ~AllReadable
    BY <1>1, <1>2, <2>2 DEF NothingLostUntold
  <2> QED
    BY <2>1, <2>2
<1> QED
  BY <1>2, ChainInvHolds, PTL

=============================================================================
