-------------------------- MODULE ProcessorProofs --------------------------
(***************************************************************************)
(* For any number of processors, closures and pool workers: at most one    *)
(* closure of a processor is in the pool, nothing of it is left once       *)
(* join() has returned, and a processor implements SerialExecutor.         *)
(*                                                                         *)
(* The inductive invariant counts: the closures waiting in mTasks[p] carry *)
(* the last Len(mTasks[p]) tickets in order, the closure in flight carries *)
(* the ticket just before them, and every smaller ticket has been served.  *)
(***************************************************************************)
EXTENDS Processor, TLAPS

\* The tickets handed out on a processor are 1 .. enqueued[p], each once.
TicketsDistinct ==
    /\ \A t \in Tasks : ticket[t] <= enqueued[Owner[t]]
    /\ \A t, u \in Tasks : Owner[t] = Owner[u] /\ ticket[t] = ticket[u] /\ ticket[t] # 0 => t = u

\* The waiting closures carry the last tickets, in order.
QueueInOrder ==
    \A p \in Processors :
       /\ Len(mTasks[p]) <= enqueued[p]
       /\ \A i \in 1..Len(mTasks[p]) :
             /\ Owner[mTasks[p][i]] = p
             /\ ticket[mTasks[p][i]] = enqueued[p] - Len(mTasks[p]) + i

\* One closure of p is in flight, with the ticket before the waiting ones.
FlightInOrder ==
    /\ \A t \in Tasks : InFlight(t) => /\ mPending[Owner[t]]
                                       /\ ticket[t] # 0
                                       /\ ticket[t] = enqueued[Owner[t]] - Len(mTasks[Owner[t]])
    /\ \A t \in pool : /\ begun[Owner[t]] = ticket[t] - 1
                       /\ \A w \in Workers : held[w] # t
    /\ \A w \in Workers : held[w] # NoTask => begun[Owner[held[w]]] = ticket[held[w]]
    /\ \A v, w \in Workers : held[v] = held[w] /\ held[v] # NoTask => v = w
    /\ \A p \in Processors : mPending[p] => \E t \in Of(p) : InFlight(t)
    /\ \A p \in Processors : ~mPending[p] => mTasks[p] = <<>> /\ begun[p] = enqueued[p]

\* The closures that started are those with a ticket up to begun; all of them
\* have ended but the one whose bound() is executing.
ServedInOrder ==
    \A t \in Tasks :
       /\ began[t] = IF ticket[t] # 0 /\ ticket[t] <= begun[Owner[t]] THEN ticket[t] ELSE 0
       /\ t \in ended <=> /\ ticket[t] # 0 /\ ticket[t] <= begun[Owner[t]]
                          /\ \A w \in Workers : held[w] = t => phase[w] # "run"

JoinedIsDrained == \A p \in Processors : join[p] = "joined" => Drained(p)

IInv ==
    /\ TypeOK
    /\ TicketsDistinct
    /\ QueueInOrder
    /\ FlightInOrder
    /\ ServedInOrder
    /\ JoinedIsDrained
-----------------------------------------------------------------------------
USE DEF Of

\* The empty processors of the initial state satisfy the invariant.
LEMMA InitEstablishes == Init => IInv
  <1> SUFFICES ASSUME Init PROVE IInv
    OBVIOUS
  <1>1. TypeOK
    BY ProcessorAssumption DEF Init, TypeOK
  <1>2. TicketsDistinct /\ QueueInOrder /\ ServedInOrder /\ JoinedIsDrained
    BY ProcessorAssumption
    DEF Init, TicketsDistinct, QueueInOrder, ServedInOrder, JoinedIsDrained
  <1>3. FlightInOrder
    BY ProcessorAssumption DEF Init, FlightInOrder, InFlight
  <1>4. QED
    BY <1>1, <1>2, <1>3 DEF IInv

\* A waiting closure belongs to its processor and has been given a ticket.
LEMMA QueuedFacts ==
    ASSUME IInv, NEW q \in Processors
    PROVE  /\ mTasks[q] \in Seq(Tasks) /\ Len(mTasks[q]) \in Nat
           /\ \A i \in 1..Len(mTasks[q]) :
                 /\ mTasks[q][i] \in Tasks
                 /\ Owner[mTasks[q][i]] = q
                 /\ ticket[mTasks[q][i]] = enqueued[q] - Len(mTasks[q]) + i
                 /\ ticket[mTasks[q][i]] >= 1
  <1>1. mTasks[q] \in Seq(Tasks) /\ enqueued[q] \in Nat
    BY DEF IInv, TypeOK
  <1>2. Len(mTasks[q]) \in Nat /\ \A i \in 1..Len(mTasks[q]) : mTasks[q][i] \in Tasks
    BY <1>1
  <1>3. QED
    BY <1>1, <1>2 DEF IInv, QueueInOrder

\* Processor::enqueue() on an idle and on a busy processor.
LEMMA EnqueuePreserves ==
    ASSUME IInv, NEW t \in Tasks, Enqueue(t)
    PROVE  IInv'
  <1> USE ProcessorAssumption
  <1> TypeOK /\ TicketsDistinct /\ QueueInOrder /\ FlightInOrder /\ ServedInOrder /\ JoinedIsDrained
    BY DEF IInv
  <1> DEFINE p == Owner[t]
  <1>0. p \in Processors /\ ticket[t] = 0
    BY DEF Enqueue
  <1>1. CASE ~mPending[p]
    <2>1. /\ pool' = pool \cup {t}
          /\ mPending' = [mPending EXCEPT ![p] = TRUE]
          /\ UNCHANGED <<mTasks, held, phase, join, begun, began, ended>>
          /\ enqueued' = [enqueued EXCEPT ![p] = @ + 1]
          /\ ticket' = [ticket EXCEPT ![t] = enqueued[p] + 1]
      BY <1>1 DEF Enqueue, Post
    <2>a. \A u \in Tasks : ticket[u] # 0 => ticket'[u] = ticket[u]
      BY <1>0, <2>1 DEF TypeOK
    <2>2. TypeOK'
      BY <1>0, <2>1 DEF TypeOK
    <2>3. TicketsDistinct'
      BY SMTT(30), <1>0, <2>1 DEF TypeOK, TicketsDistinct
    <2>4. QueueInOrder'
      <3> SUFFICES ASSUME NEW q \in Processors
                   PROVE  /\ Len(mTasks[q]) <= enqueued'[q]
                          /\ \A i \in 1..Len(mTasks[q]) :
                                /\ Owner[mTasks[q][i]] = q
                                /\ ticket'[mTasks[q][i]] = enqueued'[q] - Len(mTasks[q]) + i
        BY <2>1 DEF QueueInOrder
      <3>1. CASE q = p
        <4>1. Len(mTasks[q]) = 0
          BY <1>0, <1>1, <3>1 DEF FlightInOrder
        <4>2. QED
          BY <1>0, <2>1, <3>1, <4>1 DEF TypeOK
      <3>2. CASE q # p
        <4>1. enqueued'[q] = enqueued[q] /\ Len(mTasks[q]) <= enqueued[q]
          BY <2>1, <3>2 DEF TypeOK, QueueInOrder
        <4>2. ASSUME NEW i \in 1..Len(mTasks[q]) PROVE ticket'[mTasks[q][i]] = ticket[mTasks[q][i]]
          <5>1. mTasks[q][i] \in Tasks /\ ticket[mTasks[q][i]] >= 1
            BY QueuedFacts
          <5>2. QED
            BY <1>0, <5>1, <2>a
        <4>3. QED
          BY <4>1, <4>2, QueuedFacts
      <3>3. QED
        BY <3>1, <3>2
    <2>5. FlightInOrder'
      BY <1>0, <1>1, <2>1 DEF TypeOK, QueueInOrder, FlightInOrder, TicketsDistinct, InFlight
    <2>6. ServedInOrder'
      BY <1>0, <1>1, <2>1 DEF TypeOK, ServedInOrder, FlightInOrder, TicketsDistinct, InFlight
    <2>7. JoinedIsDrained'
      BY <1>0, <1>1, <2>1 DEF Enqueue, Active, TypeOK, JoinedIsDrained, Drained
    <2>8. QED
      BY <2>2, <2>3, <2>4, <2>5, <2>6, <2>7 DEF IInv
  <1>2. CASE mPending[p]
    <2>1. /\ mTasks' = [mTasks EXCEPT ![p] = Append(@, t)]
          /\ UNCHANGED <<pool, mPending, held, phase, join, begun, began, ended>>
          /\ enqueued' = [enqueued EXCEPT ![p] = @ + 1]
          /\ ticket' = [ticket EXCEPT ![t] = enqueued[p] + 1]
      BY <1>2 DEF Enqueue, Post
    <2>2. TypeOK'
      BY SMTT(30), <1>0, <2>1 DEF TypeOK
    <2>a. /\ \A u \in Tasks : ticket'[u] = IF u = t THEN enqueued[p] + 1 ELSE ticket[u]
          /\ \A q \in Processors : enqueued'[q] = IF q = p THEN enqueued[q] + 1 ELSE enqueued[q]
          /\ \A q \in Processors : q # p => mTasks'[q] = mTasks[q]
      BY <1>0, <2>1 DEF TypeOK
    <2>b. /\ mTasks'[p] = Append(mTasks[p], t)
          /\ Len(mTasks'[p]) = Len(mTasks[p]) + 1
          /\ mTasks'[p][Len(mTasks[p]) + 1] = t
          /\ \A i \in 1..Len(mTasks[p]) : mTasks'[p][i] = mTasks[p][i]
      <3>1. mTasks'[p] = Append(mTasks[p], t) /\ mTasks[p] \in Seq(Tasks)
        BY <1>0, <2>1 DEF TypeOK
      <3>2. QED
        BY <3>1
    <2>3. TicketsDistinct'
      <3> SUFFICES ASSUME NEW u \in Tasks, NEW v \in Tasks
                   PROVE  /\ ticket'[u] <= enqueued'[Owner[u]]
                          /\ Owner[u] = Owner[v] /\ ticket'[u] = ticket'[v] /\ ticket'[u] # 0 => u = v
        BY DEF TicketsDistinct
      <3>1. /\ Owner[u] \in Processors /\ enqueued[Owner[u]] \in Nat
            /\ ticket[u] \in Nat /\ ticket[u] <= enqueued[Owner[u]]
            /\ ticket[v] \in Nat /\ ticket[v] <= enqueued[Owner[v]]
        BY DEF TypeOK, TicketsDistinct
      <3>2. QED
        BY <1>0, <2>a, <3>1 DEF TicketsDistinct
    <2>4. QueueInOrder'
      <3> SUFFICES ASSUME NEW q \in Processors
                   PROVE  /\ Len(mTasks'[q]) <= enqueued'[q]
                          /\ \A i \in 1..Len(mTasks'[q]) :
                                /\ Owner[mTasks'[q][i]] = q
                                /\ ticket'[mTasks'[q][i]] = enqueued'[q] - Len(mTasks'[q]) + i
        BY DEF QueueInOrder
      <3>0. enqueued[q] \in Nat /\ Len(mTasks[q]) <= enqueued[q]
        BY DEF TypeOK, QueueInOrder
      <3>1. CASE q = p
        <4>1. ASSUME NEW i \in 1..Len(mTasks[p])
              PROVE  /\ Owner[mTasks'[p][i]] = p
                     /\ ticket'[mTasks'[p][i]] = enqueued[p] - Len(mTasks[p]) + i
          BY SMTT(30), <1>0, <2>a, <2>b, QueuedFacts
        <4>2. QED
          <5>1. Len(mTasks[p]) \in Nat
            BY <1>0, QueuedFacts
          <5>2. enqueued'[p] = enqueued[p] + 1 /\ ticket'[t] = enqueued[p] + 1
            BY <1>0, <2>a
          <5>3. \A i \in 1..(Len(mTasks[p]) + 1) : i \in 1..Len(mTasks[p]) \/ i = Len(mTasks[p]) + 1
            BY <5>1
          <5>4. Len(mTasks'[p]) <= enqueued'[p]
            BY <2>b, <3>0, <3>1, <5>1, <5>2
          <5>5. ASSUME NEW i \in 1..(Len(mTasks[p]) + 1)
                PROVE  /\ Owner[mTasks'[p][i]] = p
                       /\ ticket'[mTasks'[p][i]] = enqueued'[p] - (Len(mTasks[p]) + 1) + i
            <6>1. CASE i \in 1..Len(mTasks[p])
              BY <3>0, <3>1, <4>1, <5>1, <5>2, <6>1
            <6>2. CASE i = Len(mTasks[p]) + 1
              BY <1>0, <2>b, <3>0, <3>1, <5>1, <5>2, <6>2
            <6>3. QED
              BY <5>3, <6>1, <6>2
          <5>6. QED
            BY ZenonT(30), <2>b, <3>1, <5>4, <5>5
      <3>2. CASE q # p
        <4>1. ASSUME NEW i \in 1..Len(mTasks[q]) PROVE ticket'[mTasks[q][i]] = ticket[mTasks[q][i]]
          BY <1>0, <2>a, QueuedFacts
        <4>2. QED
          BY <2>a, <3>0, <3>2, <4>1, QueuedFacts
      <3>3. QED
        BY <3>1, <3>2
    <2>5. FlightInOrder'
      <3>0. \A u \in Tasks : InFlight(u)' <=> InFlight(u)
        BY <2>1 DEF InFlight
      <3>1. \A u \in Tasks : InFlight(u) => u # t
        BY <1>0 DEF FlightInOrder
      <3>2. \A u \in Tasks : InFlight(u) =>
               /\ mPending[Owner[u]]
               /\ ticket'[u] # 0
               /\ ticket'[u] = enqueued'[Owner[u]] - Len(mTasks'[Owner[u]])
        <4> SUFFICES ASSUME NEW u \in Tasks, InFlight(u)
                     PROVE  /\ mPending[Owner[u]] /\ ticket'[u] # 0
                            /\ ticket'[u] = enqueued'[Owner[u]] - Len(mTasks'[Owner[u]])
          OBVIOUS
        <4>1. mPending[Owner[u]] /\ ticket'[u] = ticket[u] /\ ticket[u] # 0
          BY <2>a, <3>1 DEF FlightInOrder
        <4>2. enqueued'[Owner[u]] - Len(mTasks'[Owner[u]]) = enqueued[Owner[u]] - Len(mTasks[Owner[u]])
          <5>1. enqueued[p] \in Nat /\ Len(mTasks[p]) \in Nat
            BY <1>0, QueuedFacts DEF TypeOK
          <5>2. CASE Owner[u] = p
            <6>1. enqueued'[p] = enqueued[p] + 1
              BY <1>0, <2>a
            <6>2. QED
              BY SMTT(30), <2>b, <5>1, <5>2, <6>1
          <5>3. CASE Owner[u] # p
            BY <2>a, <5>3
          <5>4. QED
            BY <5>2, <5>3
        <4>3. QED
          BY <4>1, <4>2 DEF FlightInOrder
      <3>3. \A u \in pool : begun[Owner[u]] = ticket'[u] - 1 /\ \A w \in Workers : held[w] # u
        <4> SUFFICES ASSUME NEW u \in pool
                     PROVE  begun[Owner[u]] = ticket'[u] - 1 /\ \A w \in Workers : held[w] # u
          OBVIOUS
        <4>1. u \in Tasks /\ u # t
          BY <3>1 DEF TypeOK, InFlight
        <4>2. QED
          BY <2>a, <4>1 DEF FlightInOrder
      <3>4. \A w \in Workers : held[w] # NoTask => begun[Owner[held[w]]] = ticket'[held[w]]
        BY <2>a, <3>1 DEF FlightInOrder, InFlight, TypeOK
      <3>5. \A q \in Processors : ~mPending[q] => mTasks'[q] = <<>> /\ begun[q] = enqueued'[q]
        BY <1>2, <2>a DEF FlightInOrder
      <3>6. QED
        BY <2>1, <3>0, <3>2, <3>3, <3>4, <3>5 DEF FlightInOrder
    <2>6. ServedInOrder'
      <3>1. begun[p] \in Nat /\ enqueued[p] \in Nat /\ begun[p] <= enqueued[p]
        <4>1. PICK u \in Tasks : Owner[u] = p /\ InFlight(u)
          BY <1>0, <1>2 DEF FlightInOrder
        <4>2. begun[p] = ticket[u] - 1 \/ begun[p] = ticket[u]
          BY <4>1 DEF FlightInOrder, InFlight
        <4>3. QED
          BY <1>0, <4>1, <4>2 DEF TypeOK, TicketsDistinct
      <3>2. \A w \in Workers : held[w] # t
        BY <1>0 DEF FlightInOrder, InFlight
      <3>3. QED
        BY <1>0, <2>1, <2>a, <3>1, <3>2 DEF TypeOK, ServedInOrder
    <2>7. JoinedIsDrained'
      BY <1>0, <1>2, <2>1 DEF Enqueue, Active, TypeOK, JoinedIsDrained, Drained
    <2>8. QED
      BY <2>2, <2>3, <2>4, <2>5, <2>6, <2>7 DEF IInv
  <1>3. QED
    BY <1>0, <1>1, <1>2 DEF TypeOK

\* A worker takes a closure from the pool.
LEMMA TakePreserves ==
    ASSUME IInv, NEW w \in Workers, NEW t \in Tasks, Take(w, t)
    PROVE  IInv'
  <1> USE ProcessorAssumption
  <1> TypeOK /\ TicketsDistinct /\ QueueInOrder /\ FlightInOrder /\ ServedInOrder /\ JoinedIsDrained
    BY DEF IInv
  <1>1. TypeOK'
    BY DEF TypeOK, Take
  <1>2. TicketsDistinct' /\ QueueInOrder' /\ JoinedIsDrained'
    BY DEF TicketsDistinct, QueueInOrder, JoinedIsDrained, Drained, Take
  <1>3. FlightInOrder'
    <2>1. /\ pool' = pool \ {t} /\ t \in pool /\ held[w] = NoTask
          /\ UNCHANGED <<mTasks, mPending, enqueued, ticket>>
          /\ \A v \in Workers : held'[v] = IF v = w THEN t ELSE held[v]
          /\ \A q \in Processors : begun'[q] = IF q = Owner[t] THEN begun[q] + 1 ELSE begun[q]
      BY DEF TypeOK, Take
    <2>2. \A u \in Tasks : InFlight(u)' <=> InFlight(u)
      BY <2>1 DEF InFlight
    <2>3. /\ t \in Tasks /\ Owner[t] \in Processors /\ InFlight(t) /\ ticket[t] \in Nat
          /\ begun[Owner[t]] = ticket[t] - 1 /\ \A v \in Workers : held[v] # t
      BY <2>1 DEF FlightInOrder, InFlight, TypeOK
    <2>4. \A u \in Tasks : InFlight(u) /\ Owner[u] = Owner[t] => u = t
      BY <2>3 DEF FlightInOrder, TicketsDistinct
    <2>5. \A u \in Tasks : InFlight(u) =>
             /\ mPending[Owner[u]] /\ ticket[u] # 0
             /\ ticket[u] = enqueued[Owner[u]] - Len(mTasks[Owner[u]])
      BY DEF FlightInOrder
    <2>6. \A u \in pool' : begun'[Owner[u]] = ticket[u] - 1 /\ \A v \in Workers : held'[v] # u
      <3> SUFFICES ASSUME NEW u \in pool \ {t}
                   PROVE  begun'[Owner[u]] = ticket[u] - 1 /\ \A v \in Workers : held'[v] # u
        BY <2>1
      <3>1. u \in Tasks /\ InFlight(u) /\ Owner[u] # Owner[t] /\ Owner[u] \in Processors
        BY <2>4 DEF TypeOK, InFlight
      <3>2. QED
        BY <2>1, <3>1 DEF FlightInOrder
    <2>7. \A v \in Workers : held'[v] # NoTask => begun'[Owner[held'[v]]] = ticket[held'[v]]
      <3> SUFFICES ASSUME NEW v \in Workers, held'[v] # NoTask
                   PROVE  begun'[Owner[held'[v]]] = ticket[held'[v]]
        OBVIOUS
      <3>1. CASE v = w
        BY <2>1, <2>3, <3>1
      <3>2. CASE v # w
        <4>1. held'[v] = held[v] /\ held[v] \in Tasks /\ InFlight(held[v]) /\ held[v] # t
          BY <2>1, <2>3, <3>2 DEF TypeOK, InFlight
        <4>2. Owner[held[v]] # Owner[t] /\ Owner[held[v]] \in Processors
          BY <2>4, <4>1
        <4>3. QED
          BY <2>1, <4>1, <4>2 DEF FlightInOrder
      <3>3. QED
        BY <3>1, <3>2
    <2>8. \A v, x \in Workers : held'[v] = held'[x] /\ held'[v] # NoTask => v = x
      BY <2>1, <2>3 DEF FlightInOrder
    <2>9. \A q \in Processors : mPending[q] => \E u \in Of(q) : InFlight(u)
      BY DEF FlightInOrder
    <2>10. \A q \in Processors : ~mPending[q] => mTasks[q] = <<>> /\ begun'[q] = enqueued[q]
      BY <2>1, <2>3, <2>5 DEF FlightInOrder
    <2>11. QED
      BY <2>1, <2>2, <2>5, <2>6, <2>7, <2>8, <2>9, <2>10 DEF FlightInOrder
  <1>4. ServedInOrder'
    BY SMTT(30) DEF TypeOK, FlightInOrder, ServedInOrder, TicketsDistinct, InFlight, Take
  <1>5. QED
    BY <1>1, <1>2, <1>3, <1>4 DEF IInv

\* The closure returns or throws.
LEMMA ReturnPreserves ==
    ASSUME IInv, NEW w \in Workers, Return(w)
    PROVE  IInv'
  <1> USE ProcessorAssumption
  <1> TypeOK /\ TicketsDistinct /\ QueueInOrder /\ FlightInOrder /\ ServedInOrder /\ JoinedIsDrained
    BY DEF IInv
  <1>1. TypeOK'
    BY DEF TypeOK, Return
  <1>2. TicketsDistinct' /\ QueueInOrder' /\ JoinedIsDrained'
    BY DEF TicketsDistinct, QueueInOrder, JoinedIsDrained, Drained, Return
  <1>3. FlightInOrder'
    BY DEF TypeOK, FlightInOrder, InFlight, Return
  <1>4. ServedInOrder'
    BY SMTT(30) DEF TypeOK, FlightInOrder, ServedInOrder, InFlight, Return
  <1>5. QED
    BY <1>1, <1>2, <1>3, <1>4 DEF IInv

\* Processor::schedule() with and without a waiting closure.
LEMMA SchedulePreserves ==
    ASSUME IInv, NEW w \in Workers, Schedule(w)
    PROVE  IInv'
  <1> USE ProcessorAssumption
  <1> TypeOK /\ TicketsDistinct /\ QueueInOrder /\ FlightInOrder /\ ServedInOrder /\ JoinedIsDrained
    BY DEF IInv
  <1> DEFINE p == Owner[held[w]]
  <1>0. /\ held[w] \in Tasks /\ p \in Processors /\ phase[w] = "chain"
        /\ begun[p] = ticket[held[w]] /\ mPending[p]
        /\ ticket[held[w]] = enqueued[p] - Len(mTasks[p])
    BY ZenonT(30) DEF Schedule, TypeOK, FlightInOrder, InFlight
  <1>1. CASE mTasks[p] # <<>>
    <2> DEFINE h == Head(mTasks[p])
    <2>1. /\ pool' = pool \cup {h}
          /\ mTasks' = [mTasks EXCEPT ![p] = Tail(@)]
          /\ UNCHANGED <<mPending, join, enqueued, begun, ticket, began, ended>>
          /\ held' = [held EXCEPT ![w] = NoTask]
          /\ phase' = [phase EXCEPT ![w] = "idle"]
      BY <1>1 DEF Schedule, Chain
    <2>2. /\ mTasks[p] \in Seq(Tasks) /\ Len(mTasks[p]) >= 1
          /\ h \in Tasks /\ h = mTasks[p][1] /\ Owner[h] = p
          /\ ticket[h] = enqueued[p] - Len(mTasks[p]) + 1
          /\ Tail(mTasks[p]) \in Seq(Tasks) /\ Len(Tail(mTasks[p])) = Len(mTasks[p]) - 1
          /\ \A i \in 1..Len(Tail(mTasks[p])) : Tail(mTasks[p])[i] = mTasks[p][i + 1]
      BY SMTT(30), <1>0, <1>1 DEF TypeOK, QueueInOrder
    <2>3. TypeOK'
      BY SMTT(30), <1>0, <2>1, <2>2 DEF TypeOK
    <2>4. TicketsDistinct'
      BY <2>1 DEF TicketsDistinct
    <2>a. /\ mTasks'[p] = Tail(mTasks[p])
          /\ \A q \in Processors : q # p => mTasks'[q] = mTasks[q]
          /\ \A v \in Workers : held'[v] = IF v = w THEN NoTask ELSE held[v]
          /\ \A v \in Workers : v # w => phase'[v] = phase[v]
      BY <1>0, <2>1 DEF TypeOK
    <2>b. enqueued[p] \in Nat /\ Len(mTasks[p]) \in Nat /\ Len(mTasks[p]) <= enqueued[p]
      BY <1>0, QueuedFacts DEF TypeOK, QueueInOrder
    <2>5. QueueInOrder'
      <3> SUFFICES ASSUME NEW q \in Processors
                   PROVE  /\ Len(mTasks'[q]) <= enqueued[q]
                          /\ \A i \in 1..Len(mTasks'[q]) :
                                /\ Owner[mTasks'[q][i]] = q
                                /\ ticket[mTasks'[q][i]] = enqueued[q] - Len(mTasks'[q]) + i
        BY <2>1 DEF QueueInOrder
      <3>1. CASE q = p
        <4>1. ASSUME NEW i \in 1..(Len(mTasks[p]) - 1)
              PROVE  /\ Owner[mTasks[p][i + 1]] = p
                     /\ ticket[mTasks[p][i + 1]] = enqueued[p] - (Len(mTasks[p]) - 1) + i
          <5>1. i + 1 \in 1..Len(mTasks[p])
            BY <2>b
          <5>2. /\ Owner[mTasks[p][i + 1]] = p
                /\ ticket[mTasks[p][i + 1]] = enqueued[p] - Len(mTasks[p]) + (i + 1)
            BY <1>0, <5>1, QueuedFacts
          <5>3. i \in Nat
            BY <2>b
          <5>4. \A a, b, c \in Nat : a - b + (c + 1) = a - (b - 1) + c
            OBVIOUS
          <5>5. QED
            BY ZenonT(30), <2>b, <5>2, <5>3, <5>4
        <4>2. Len(mTasks'[p]) = Len(mTasks[p]) - 1
          BY <2>2, <2>a
        <4>3. \A i \in 1..(Len(mTasks[p]) - 1) : mTasks'[p][i] = mTasks[p][i + 1]
          BY <2>2, <2>a
        <4>4. Len(mTasks'[p]) <= enqueued[p]
          BY <2>b, <4>2
        <4>5. ASSUME NEW i \in 1..Len(mTasks'[p])
              PROVE  /\ Owner[mTasks'[p][i]] = p
                     /\ ticket[mTasks'[p][i]] = enqueued[p] - Len(mTasks'[p]) + i
          <5>1. i \in 1..(Len(mTasks[p]) - 1)
            BY <4>2
          <5>2. QED
            BY <4>1, <4>2, <4>3, <5>1
        <4>6. QED
          BY <3>1, <4>4, <4>5
      <3>2. CASE q # p
        BY SMTT(30), <2>a, <3>2 DEF QueueInOrder
      <3>3. QED
        BY <3>1, <3>2
    <2>6. FlightInOrder'
      <3>1. InFlight(held[w]) /\ ~InFlight(h) /\ ticket[h] = ticket[held[w]] + 1
        BY <1>0, <2>2, <2>b DEF FlightInOrder, InFlight
      <3>2. \A u \in Tasks : InFlight(u) /\ Owner[u] = p => u = held[w]
        BY SMTT(30), <1>0 DEF FlightInOrder, TicketsDistinct
      <3>3. \A u \in Tasks : InFlight(u)' <=> (InFlight(u) /\ u # held[w]) \/ u = h
        BY <1>0, <2>1, <2>2, <2>a DEF FlightInOrder, InFlight
      <3>4. \A u \in Tasks : InFlight(u)' =>
               /\ mPending[Owner[u]] /\ ticket[u] # 0
               /\ ticket[u] = enqueued[Owner[u]] - Len(mTasks'[Owner[u]])
        <4> SUFFICES ASSUME NEW u \in Tasks, InFlight(u)'
                     PROVE  /\ mPending[Owner[u]] /\ ticket[u] # 0
                            /\ ticket[u] = enqueued[Owner[u]] - Len(mTasks'[Owner[u]])
          OBVIOUS
        <4>1. CASE u = h
          <5>1. Len(mTasks'[p]) = Len(mTasks[p]) - 1 /\ Owner[u] = p
            BY SMTT(30), <2>2, <2>a, <4>1
          <5>2. ticket[u] = enqueued[p] - Len(mTasks[p]) + 1
            BY <2>2, <4>1
          <5>3. QED
            BY SMTT(30), <1>0, <2>b, <5>1, <5>2
        <4>2. CASE u # h
          <5>1. InFlight(u) /\ Owner[u] # p /\ Owner[u] \in Processors
            BY SMTT(30), <3>2, <3>3, <4>2
          <5>2. QED
            BY <2>a, <5>1 DEF FlightInOrder
        <4>3. QED
          BY <4>1, <4>2
      <3>5. \A u \in pool' : begun[Owner[u]] = ticket[u] - 1 /\ \A v \in Workers : held'[v] # u
        <4>1. begun[p] = ticket[h] - 1 /\ \A v \in Workers : held'[v] # h
          <5>1. ticket[held[w]] \in Nat
            BY <1>0 DEF TypeOK
          <5>2. begun[p] = ticket[h] - 1
            BY SMTT(30), <1>0, <3>1, <5>1
          <5>3. ASSUME NEW v \in Workers PROVE held'[v] # h
            BY <2>2, <2>a, <3>1 DEF InFlight
          <5>4. QED
            BY <5>2, <5>3
        <4>2. \A u \in pool : begun[Owner[u]] = ticket[u] - 1 /\ \A v \in Workers : held'[v] # u
          BY <2>a DEF FlightInOrder, TypeOK
        <4>3. QED
          BY <2>1, <2>2, <4>1, <4>2
      <3>6. \A v \in Workers : held'[v] # NoTask => begun[Owner[held'[v]]] = ticket[held'[v]]
        BY <2>a DEF FlightInOrder
      <3>7. \A v, x \in Workers : held'[v] = held'[x] /\ held'[v] # NoTask => v = x
        BY SMTT(30), <2>a DEF FlightInOrder
      <3>8. \A q \in Processors : mPending[q] => \E u \in Of(q) : InFlight(u)'
        BY <1>0, <2>2, <3>3 DEF FlightInOrder
      <3>9. \A q \in Processors : ~mPending[q] => mTasks'[q] = <<>> /\ begun[q] = enqueued[q]
        BY SMTT(30), <1>0, <2>a DEF FlightInOrder
      <3>10. QED
        BY SMTT(30), <2>1, <3>4, <3>5, <3>6, <3>7, <3>8, <3>9 DEF FlightInOrder
    <2>7. ServedInOrder'
      <3>1. \A u \in Tasks : (\A v \in Workers : held[v] = u => phase[v] # "run")
                       <=> (\A v \in Workers : held'[v] = u => phase'[v] # "run")
        BY <1>0, <2>a
      <3>2. QED
        BY <2>1, <3>1 DEF ServedInOrder
    <2>8. JoinedIsDrained'
      BY <1>0, <2>1 DEF TypeOK, JoinedIsDrained, Drained
    <2>9. QED
      BY <2>3, <2>4, <2>5, <2>6, <2>7, <2>8 DEF IInv
  <1>2. CASE mTasks[p] = <<>>
    <2>1. /\ mPending' = [mPending EXCEPT ![p] = FALSE]
          /\ UNCHANGED <<pool, mTasks, join, enqueued, begun, ticket, began, ended>>
          /\ held' = [held EXCEPT ![w] = NoTask]
          /\ phase' = [phase EXCEPT ![w] = "idle"]
      BY <1>2 DEF Schedule, Chain
    <2>2. Len(mTasks[p]) = 0
      BY <1>2
    <2>3. TypeOK'
      BY <1>0, <2>1 DEF TypeOK
    <2>4. TicketsDistinct' /\ QueueInOrder'
      BY <2>1 DEF TicketsDistinct, QueueInOrder
    <2>6. FlightInOrder'
      BY SMTT(30), <1>0, <1>2, <2>1, <2>2 DEF TypeOK, FlightInOrder, TicketsDistinct, InFlight
    <2>7. ServedInOrder'
      <3>0. /\ \A v \in Workers : held'[v] = IF v = w THEN NoTask ELSE held[v]
            /\ \A v \in Workers : v # w => phase'[v] = phase[v]
        BY <2>1 DEF TypeOK
      <3>1. \A u \in Tasks : (\A v \in Workers : held[v] = u => phase[v] # "run")
                       <=> (\A v \in Workers : held'[v] = u => phase'[v] # "run")
        BY <1>0, <3>0
      <3>2. QED
        BY <2>1, <3>1 DEF ServedInOrder
    <2>8. JoinedIsDrained'
      BY <1>0, <2>1 DEF TypeOK, JoinedIsDrained, Drained
    <2>9. QED
      BY <2>3, <2>4, <2>6, <2>7, <2>8 DEF IInv
  <1>3. QED
    BY <1>1, <1>2

\* Processor::join(), both of its steps.
LEMMA JoinPreserves ==
    ASSUME IInv, NEW p \in Processors, JoinStart(p) \/ JoinReturn(p)
    PROVE  IInv'
  <1> USE ProcessorAssumption
  <1> TypeOK /\ TicketsDistinct /\ QueueInOrder /\ FlightInOrder /\ ServedInOrder /\ JoinedIsDrained
    BY DEF IInv
  <1>1. TypeOK' /\ JoinedIsDrained'
    BY ZenonT(30) DEF TypeOK, JoinedIsDrained, Drained, JoinStart, JoinReturn
  <1>2. TicketsDistinct' /\ QueueInOrder' /\ FlightInOrder' /\ ServedInOrder'
    BY DEF TicketsDistinct, QueueInOrder, FlightInOrder, InFlight, ServedInOrder, JoinStart, JoinReturn
  <1>3. QED
    BY <1>1, <1>2 DEF IInv

\* The invariant is inductive.
LEMMA NextPreserves == IInv /\ [Next]_vars => IInv'
  <1> SUFFICES ASSUME IInv, [Next]_vars PROVE IInv'
    OBVIOUS
  <1>1. CASE UNCHANGED vars
    BY <1>1 DEF vars, IInv, TypeOK, TicketsDistinct, QueueInOrder, FlightInOrder, InFlight,
                ServedInOrder, JoinedIsDrained, Drained
  <1>2. CASE Next
    BY <1>2, EnqueuePreserves, TakePreserves, ReturnPreserves, SchedulePreserves, JoinPreserves
    DEF Next, Worker
  <1>3. QED
    BY <1>1, <1>2

\* Every reachable state of the processors satisfies the inductive invariant.
THEOREM Invariance == Spec => []IInv
  BY InitEstablishes, NextPreserves, PTL DEF Spec

\* The processors' state keeps its types, and a worker holds a closure exactly
\* while it executes one.
THEOREM TypeCorrect == Spec => []TypeOK
  <1>1. IInv => TypeOK
    BY DEF IInv
  <1>2. QED
    BY Invariance, <1>1, PTL

\* processor.hpp:43 for any number of processors and workers: mPending is true
\* exactly while one closure of the processor is in the pool, and never two are.
THEOREM PendingCorrect == Spec => []PendingIffInFlight
  <1>1. IInv => PendingIffInFlight
    <2> SUFFICES ASSUME IInv, NEW p \in Processors
                 PROVE  /\ mPending[p] <=> \E t \in Of(p) : InFlight(t)
                        /\ \A t, u \in Of(p) : InFlight(t) /\ InFlight(u) => t = u
                        /\ \A v, w \in Workers : held[v] \in Of(p) /\ held[v] = held[w] => v = w
      BY ZenonT(30) DEF PendingIffInFlight
    <2>1. (mPending[p] => \E t \in Of(p) : InFlight(t)) /\ ((\E t \in Of(p) : InFlight(t)) => mPending[p])
      BY DEF IInv, FlightInOrder
    <2>2. \A t, u \in Of(p) : InFlight(t) /\ InFlight(u) => t = u
      BY DEF IInv, FlightInOrder, TicketsDistinct
    <2>3. \A v, w \in Workers : held[v] \in Of(p) /\ held[v] = held[w] => v = w
      BY ProcessorAssumption DEF IInv, FlightInOrder
    <2>4. mPending[p] \in BOOLEAN
      BY DEF IInv, TypeOK
    <2>5. QED
      BY <2>1, <2>2, <2>3, <2>4
  <1>2. QED
    BY Invariance, <1>1, PTL

\* A processor whose join() has returned is out of every worker's reach.
THEOREM JoinSafe == Spec => []NothingAfterJoin
  <1>1. IInv => NothingAfterJoin
    BY ProcessorAssumption
    DEF IInv, TypeOK, FlightInOrder, JoinedIsDrained, Drained, InFlight, NothingAfterJoin
  <1>2. QED
    BY Invariance, <1>1, PTL

\* A worker takes a closure only when every earlier one of its processor has
\* returned, and the closure it takes is the next one.
LEMMA TakeIsBegin ==
    ASSUME IInv, NEW w \in Workers, NEW t \in Tasks, Take(w, t)
    PROVE  Serial!Begin(t)
  <1> USE ProcessorAssumption
  <1>1. /\ t \in pool /\ InFlight(t) /\ ticket[t] \in Nat /\ ticket[t] # 0
        /\ Owner[t] \in Processors /\ begun[Owner[t]] = ticket[t] - 1
    BY ZenonT(30) DEF Take, IInv, TypeOK, FlightInOrder, InFlight
  <1>2. began[t] = 0
    BY <1>1 DEF IInv, ServedInOrder
  <1>3. ASSUME NEW u \in Tasks, Owner[u] = Owner[t], 0 < ticket[u], ticket[u] < ticket[t]
        PROVE  u \in ended
    <2>1. ~InFlight(u)
      BY <1>1, <1>3 DEF IInv, FlightInOrder
    <2>2. ticket[u] \in Nat
      BY DEF IInv, TypeOK
    <2>3. ticket[u] # 0 /\ ticket[u] <= begun[Owner[u]]
      BY <1>1, <1>3, <2>2
    <2>4. QED
      BY <2>1, <2>3 DEF IInv, ServedInOrder, InFlight
  <1>4. began' = [began EXCEPT ![t] = ticket[t]]
    <2>1. began' = [began EXCEPT ![t] = begun[Owner[t]] + 1]
      BY DEF Take
    <2>2. begun[Owner[t]] + 1 = ticket[t]
      BY <1>1
    <2>3. QED
      BY ZenonT(30), <2>1, <2>2
  <1>5. UNCHANGED <<enqueued, ticket, ended>>
    BY DEF Take
  <1>6. QED
    BY <1>1, <1>2, <1>3, <1>4, <1>5 DEF Serial!Begin, Serial!Of

\* A closure that returns had begun and had not returned before.
LEMMA ReturnIsEnd ==
    ASSUME IInv, NEW w \in Workers, Return(w)
    PROVE  held[w] \in Tasks /\ Serial!End(held[w])
  <1> USE ProcessorAssumption
  <1>1. held[w] \in Tasks /\ InFlight(held[w]) /\ phase[w] = "run"
    BY DEF Return, IInv, TypeOK, InFlight
  <1>2. /\ ticket[held[w]] # 0 /\ ticket[held[w]] \in Nat
        /\ begun[Owner[held[w]]] = ticket[held[w]]
    BY ZenonT(30), <1>1 DEF IInv, TypeOK, FlightInOrder
  <1>3. began[held[w]] # 0 /\ held[w] \notin ended
    BY <1>1, <1>2 DEF IInv, ServedInOrder
  <1>4. QED
    BY <1>1, <1>3 DEF Return, Serial!End

\* processor.hpp:24 for any number of processors, closures and workers: whatever
\* the interleaving of the pool, each processor runs its closures one at a time
\* and in the order of the enqueue() calls.
THEOREM ProcessorImplementsSerial == Spec => SerialInOrder
  <1>1. Init => Serial!AbstractInit
    BY DEF Init, Serial!AbstractInit
  <1>2. IInv /\ [Next]_vars => [Serial!AbstractNext]_Serial!abstractVars
    <2> SUFFICES ASSUME IInv, [Next]_vars
                 PROVE  [Serial!AbstractNext]_Serial!abstractVars
      OBVIOUS
    <2> USE DEF Serial!abstractVars
    <2>1. CASE UNCHANGED vars
      BY <2>1 DEF vars
    <2>2. ASSUME NEW t \in Tasks, Enqueue(t) PROVE Serial!AbstractNext
      <3>1. Serial!Submit(t)
        BY <2>2 DEF Enqueue, Serial!Submit
      <3>2. QED
        BY <3>1 DEF Serial!AbstractNext
    <2>3. ASSUME NEW w \in Workers, NEW t \in Tasks, Take(w, t) PROVE Serial!AbstractNext
      BY <2>3, TakeIsBegin DEF Serial!AbstractNext
    <2>4. ASSUME NEW w \in Workers, Return(w) PROVE Serial!AbstractNext
      BY <2>4, ReturnIsEnd DEF Serial!AbstractNext
    <2>5. ASSUME NEW w \in Workers, Schedule(w) PROVE UNCHANGED Serial!abstractVars
      BY <2>5 DEF Schedule
    <2>6. ASSUME NEW p \in Processors, JoinStart(p) \/ JoinReturn(p)
          PROVE  UNCHANGED Serial!abstractVars
      BY <2>6 DEF JoinStart, JoinReturn
    <2>7. QED
      BY <2>1, <2>2, <2>3, <2>4, <2>5, <2>6 DEF Next, Worker
  <1>3. QED
    BY <1>1, <1>2, Invariance, PTL DEF Spec, SerialInOrder, Serial!AbstractSpec
=============================================================================
