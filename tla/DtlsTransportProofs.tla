------------------------- MODULE DtlsTransportProofs -------------------------
(***************************************************************************)
(* For every build, and any number of packets, limits and timeouts: a call *)
(* of enqueueRecv() that posts nothing is covered by a posted call, no     *)
(* thread is in incoming() once stop() has unregistered it, and the null   *)
(* message is the last one passed up.                                      *)
(*                                                                         *)
(* SkipIsCovered is inductive.  The other two need to know who holds the   *)
(* lock of the receive callback, and that the call of doRecv() which reads *)
(* a packet is inside an open transport.                                   *)
(***************************************************************************)
EXTENDS DtlsTransport, TLAPS

InCall == {"push", "test", "post"}

\* The places a thread passes through, and the values the other proofs rely on.
PlacesOK ==
    /\ at \in [Threads -> Places]
    /\ at["lower"] \in {"idle", "call"} \cup InCall
    /\ at["starter"] \in {"idle", "call", "replay", "handshake", "started"} \cup InCall
    /\ at["stopper"] \in {"idle", "unregister", "stop", "test", "post", "stopped"}
    /\ lock \in {"none", "lower", "starter"}
    /\ mPendingRecvCount \in Int /\ tasks \in Nat

\* Who is in incoming() holds the lock of the callback; start() also posts without it.
LockHeld ==
    /\ at["lower"] \in InCall <=> lock = "lower"
    /\ lock = "starter" => at["starter"] \in InCall
    /\ at["starter"] = "push" => lock = "starter"

\* stop() follows start(), and incoming() is not registered again.
StopFollows ==
    /\ at["stopper"] # "idle" => at["starter"] = "started"
    /\ at["stopper"] \notin {"idle", "unregister"} => ~registered

\* Once the transport ended it does not open again, and nobody reads.
EndedStays ==
    /\ closures \in Nat
    /\ mState \in States
    /\ inside # "no" => Open
    /\ closures > 0 => ~Open /\ at["starter"] \notin {"idle", "call", "replay"}
    /\ Open => at["starter"] \notin {"idle", "call", "replay"}
    /\ lock = "starter" => ~Open /\ closures = 0

IInv ==
    /\ PlacesOK
    /\ SkipIsCovered
    /\ LockHeld
    /\ StopFollows
    /\ QuietAfterStop
    /\ EndedStays

-----------------------------------------------------------------------------

USE DEF Threads, InCall, Open, Goto

\* Nothing has begun in the initial state.
LEMMA InitEstablishes == Init => IInv
  BY DEF Init, IInv, PlacesOK, SkipIsCovered, LockHeld, StopFollows, QuietAfterStop, EndedStays,
         Places, States

\* A step of the lower transport outside of incoming() moves that thread only.
LEMMA RecvPreserves == IInv /\ Recv => IInv'
  <1> SUFFICES ASSUME IInv, Recv PROVE IInv'
    OBVIOUS
  <1> PlacesOK /\ SkipIsCovered /\ LockHeld /\ StopFollows /\ QuietAfterStop /\ EndedStays
    BY DEF IInv
  <1>1. /\ UNCHANGED <<mState, registered, lock, mPendingRecvCount, tasks, inside, closures>>
        /\ lock = "none"
        /\ \/ at' = at
           \/ registered /\ at["lower"] = "idle" /\ at' = [at EXCEPT !["lower"] = "call"]
    BY DEF Recv, upper
  <1>2. PlacesOK'
    BY <1>1 DEF PlacesOK, Places
  <1>3. SkipIsCovered'
    BY <1>1 DEF SkipIsCovered
  <1>4. LockHeld' /\ StopFollows' /\ QuietAfterStop'
    BY <1>1 DEF PlacesOK, LockHeld, StopFollows, QuietAfterStop
  <1>5. EndedStays'
    BY <1>1 DEF PlacesOK, EndedStays
  <1> QED
    BY <1>2, <1>3, <1>4, <1>5 DEF IInv

\* A thread enters incoming() with the lock of the callback, and only while it is registered.
LEMMA CallPreserves == ASSUME NEW t \in Threads PROVE IInv /\ CallIncoming(t) => IInv'
  <1> SUFFICES ASSUME IInv, CallIncoming(t) PROVE IInv'
    OBVIOUS
  <1> PlacesOK /\ SkipIsCovered /\ LockHeld /\ StopFollows /\ QuietAfterStop /\ EndedStays
    BY DEF IInv
  <1>1. /\ UNCHANGED <<mState, registered, mPendingRecvCount, tasks, inside, closures>>
        /\ lock = "none" /\ at[t] = "call" /\ t \in {"lower", "starter"}
        /\ \/ registered /\ lock' = t /\ at' = [at EXCEPT ![t] = "push"]
           \/ lock' = lock /\ at' = [at EXCEPT ![t] = IF t = "lower" THEN "idle" ELSE "replay"]
    BY DEF CallIncoming, upper, PlacesOK
  <1>2. PlacesOK'
    BY <1>1 DEF PlacesOK, Places
  <1>3. SkipIsCovered'
    BY <1>1 DEF SkipIsCovered
  <1>4. LockHeld' /\ StopFollows' /\ QuietAfterStop'
    BY <1>1 DEF PlacesOK, LockHeld, StopFollows, QuietAfterStop
  <1>5. EndedStays'
    BY <1>1 DEF PlacesOK, EndedStays
  <1> QED
    BY <1>2, <1>3, <1>4, <1>5 DEF IInv

\* A thread in incoming() goes on to enqueueRecv() with the lock, or returns and releases it.
LEMMA IncomingPreserves == ASSUME NEW t \in Threads PROVE IInv /\ Incoming(t) => IInv'
  <1> SUFFICES ASSUME IInv, Incoming(t) PROVE IInv'
    OBVIOUS
  <1> PlacesOK /\ SkipIsCovered /\ LockHeld /\ StopFollows /\ QuietAfterStop /\ EndedStays
    BY DEF IInv
  <1>1. /\ UNCHANGED <<mState, registered, mPendingRecvCount, tasks, inside, closures>>
        /\ at[t] = "push" /\ t \in {"lower", "starter"} /\ lock = t
        /\ \/ lock' = lock /\ at' = [at EXCEPT ![t] = "test"]
           \/ lock' = "none" /\ at' = [at EXCEPT ![t] = IF t = "lower" THEN "idle" ELSE "replay"]
    BY DEF Incoming, upper, PlacesOK, LockHeld, After, Unlock
  <1>2. PlacesOK'
    BY <1>1 DEF PlacesOK, Places
  <1>3. SkipIsCovered'
    BY <1>1 DEF SkipIsCovered, PlacesOK
  <1>4. LockHeld' /\ StopFollows' /\ QuietAfterStop'
    BY <1>1 DEF PlacesOK, LockHeld, StopFollows, QuietAfterStop
  <1>5. EndedStays'
    BY <1>1 DEF PlacesOK, EndedStays, LockHeld, States
  <1> QED
    BY <1>2, <1>3, <1>4, <1>5 DEF IInv

\* What a thread does when its call of incoming() or of enqueueRecv() returns.
ReturnsFrom(t) ==
    \/ t = "lower" /\ lock = "lower" /\ lock' = "none" /\ at' = [at EXCEPT !["lower"] = "idle"]
    \/ t = "starter" /\ lock = "starter" /\ lock' = "none" /\ at' = [at EXCEPT !["starter"] = "replay"]
    \/ t = "starter" /\ lock # "starter" /\ lock' = lock /\ at' = [at EXCEPT !["starter"] = "started"]
    \/ t = "stopper" /\ lock' = lock /\ at' = [at EXCEPT !["stopper"] = "stopped"]

\* A thread that leaves enqueueRecv() returns in one of those ways.
LEMMA ReturnShape ==
    ASSUME NEW t \in Threads, PlacesOK, LockHeld, at[t] \in InCall,
           at' = [at EXCEPT ![t] = After(t)], Unlock(t)
    PROVE  ReturnsFrom(t)
  <1>1. CASE t = "lower"
    BY <1>1 DEF LockHeld, After, Unlock, ReturnsFrom
  <1>2. CASE t = "starter"
    BY <1>2 DEF After, Unlock, ReturnsFrom
  <1>3. CASE t = "stopper"
    BY <1>3 DEF PlacesOK, After, Unlock, ReturnsFrom
  <1> QED
    BY <1>1, <1>2, <1>3

\* enqueueRecv() skips the call or goes on to post it.
LEMMA TestPreserves == ASSUME NEW t \in Threads PROVE IInv /\ TestPending(t) => IInv'
  <1> SUFFICES ASSUME IInv, TestPending(t) PROVE IInv'
    OBVIOUS
  <1> PlacesOK /\ SkipIsCovered /\ LockHeld /\ StopFollows /\ QuietAfterStop /\ EndedStays
    BY DEF IInv
  <1>1. /\ UNCHANGED <<mState, registered, mPendingRecvCount, tasks, inside, closures>>
        /\ at[t] = "test"
        /\ \/ lock' = lock /\ at' = [at EXCEPT ![t] = "post"]
           \/ ReturnsFrom(t)
    BY ReturnShape DEF TestPending, upper
  <1>2. PlacesOK'
    BY <1>1 DEF ReturnsFrom, PlacesOK, Places
  <1>3. SkipIsCovered'
    BY <1>1 DEF ReturnsFrom, SkipIsCovered, PlacesOK
  <1>4. LockHeld' /\ StopFollows' /\ QuietAfterStop'
    BY <1>1 DEF ReturnsFrom, PlacesOK, LockHeld, StopFollows, QuietAfterStop
  <1>5. EndedStays'
    BY <1>1 DEF ReturnsFrom, PlacesOK, EndedStays, LockHeld, States
  <1> QED
    BY <1>2, <1>3, <1>4, <1>5 DEF IInv

\* enqueueRecv() posts a call and counts it.
LEMMA PostPreserves == ASSUME NEW t \in Threads PROVE IInv /\ PostRecv(t) => IInv'
  <1> SUFFICES ASSUME IInv, PostRecv(t) PROVE IInv'
    OBVIOUS
  <1> PlacesOK /\ SkipIsCovered /\ LockHeld /\ StopFollows /\ QuietAfterStop /\ EndedStays
    BY DEF IInv
  <1>1. /\ UNCHANGED <<mState, registered, inside, closures>>
        /\ mPendingRecvCount' = mPendingRecvCount + 1 /\ tasks' = tasks + 1
        /\ at[t] = "post"
        /\ ReturnsFrom(t)
    BY ReturnShape DEF PostRecv, upper
  <1>2. PlacesOK'
    BY <1>1 DEF ReturnsFrom, PlacesOK, Places
  <1>3. SkipIsCovered'
    BY <1>1 DEF ReturnsFrom, SkipIsCovered, PlacesOK
  <1>4. LockHeld' /\ StopFollows' /\ QuietAfterStop'
    BY <1>1 DEF ReturnsFrom, PlacesOK, LockHeld, StopFollows, QuietAfterStop
  <1>5. EndedStays'
    BY <1>1 DEF ReturnsFrom, PlacesOK, EndedStays, LockHeld, States
  <1> QED
    BY <1>2, <1>3, <1>4, <1>5 DEF IInv

\* start() registers incoming() before the transport opens, and opens it after the replay.
LEMMA StartPreserves == IInv /\ Start => IInv'
  <1> SUFFICES ASSUME IInv, Start PROVE IInv'
    OBVIOUS
  <1> PlacesOK /\ SkipIsCovered /\ LockHeld /\ StopFollows /\ QuietAfterStop /\ EndedStays
    BY DEF IInv
  <1>1. /\ UNCHANGED <<lock, mPendingRecvCount, tasks, inside, closures>>
        /\ \/ /\ at["starter"] = "idle" /\ at' = [at EXCEPT !["starter"] = "replay"]
              /\ registered' = TRUE /\ mState' = mState
           \/ /\ at["starter"] = "replay" /\ at' = [at EXCEPT !["starter"] = "call"]
              /\ UNCHANGED <<registered, mState>>
           \/ /\ at["starter"] = "replay"
              /\ at' = [at EXCEPT !["starter"] = IF BeginsRecv THEN "test" ELSE "handshake"]
              /\ registered' = registered /\ mState' = "Connecting"
           \/ /\ at["starter"] = "handshake" /\ at' = [at EXCEPT !["starter"] = "started"]
              /\ UNCHANGED <<registered, mState>>
    BY DEF Start, Register, Replay, Connect, Handshake, upper
  <1>2. PlacesOK'
    BY <1>1 DEF PlacesOK, Places
  <1>3. SkipIsCovered'
    BY <1>1 DEF SkipIsCovered, PlacesOK
  <1>4. LockHeld' /\ StopFollows' /\ QuietAfterStop'
    BY <1>1 DEF PlacesOK, LockHeld, StopFollows, QuietAfterStop
  <1>5. EndedStays'
    BY <1>1 DEF PlacesOK, EndedStays, LockHeld, States
  <1> QED
    BY <1>2, <1>3, <1>4, <1>5 DEF IInv

\* stop() unregisters incoming() while nobody holds the lock of the callback.
LEMMA StopPreserves == IInv /\ Stop => IInv'
  <1> SUFFICES ASSUME IInv, Stop PROVE IInv'
    OBVIOUS
  <1> PlacesOK /\ SkipIsCovered /\ LockHeld /\ StopFollows /\ QuietAfterStop /\ EndedStays
    BY DEF IInv
  <1>1. /\ UNCHANGED <<lock, mPendingRecvCount, tasks, inside, closures, mState>>
        /\ \/ /\ at["starter"] = "started" /\ registered' = registered
              /\ at["stopper"] = "idle" /\ at' = [at EXCEPT !["stopper"] = "unregister"]
           \/ /\ lock = "none" /\ registered' = FALSE
              /\ at["stopper"] = "unregister" /\ at' = [at EXCEPT !["stopper"] = "stop"]
           \/ /\ registered' = registered
              /\ at["stopper"] = "stop" /\ at' = [at EXCEPT !["stopper"] = "test"]
    BY DEF Stop, CallStop, Unregister, MayUnregister, StopQueue, upper
  <1>2. PlacesOK'
    BY <1>1 DEF PlacesOK, Places
  <1>3. SkipIsCovered'
    BY <1>1 DEF SkipIsCovered, PlacesOK
  <1>4. LockHeld' /\ StopFollows' /\ QuietAfterStop'
    BY <1>1 DEF PlacesOK, LockHeld, StopFollows, QuietAfterStop
  <1>5. EndedStays'
    BY <1>1 DEF PlacesOK, EndedStays, LockHeld, States
  <1> QED
    BY <1>2, <1>3, <1>4, <1>5 DEF IInv

\* doRecv() leaves the callback and the threads alone; it reads only while the transport is open.
LEMMA DoRecvPreserves == IInv /\ DoRecv => IInv'
  <1> SUFFICES ASSUME IInv, DoRecv PROVE IInv'
    OBVIOUS
  <1> PlacesOK /\ SkipIsCovered /\ LockHeld /\ StopFollows /\ QuietAfterStop /\ EndedStays
    BY DEF IInv
  <1>1. /\ UNCHANGED <<at, lock, registered>>
        /\ \/ /\ mPendingRecvCount' = mPendingRecvCount - 1
              /\ tasks' = tasks \/ (tasks > 0 /\ tasks' = tasks - 1)
              /\ inside' = IF Open THEN "loop" ELSE "no"
              /\ UNCHANGED <<mState, closures>>
           \/ /\ UNCHANGED <<mPendingRecvCount, tasks, closures>>
              /\ inside # "no"
              /\ mState' = mState \/ mState' = "Connected"
           \/ /\ UNCHANGED <<mPendingRecvCount, tasks>>
              /\ inside # "no" /\ inside' = "no"
              /\ mState' \in {"Disconnected", "Failed"}
              /\ closures' \in {closures, closures + 1}
    <2>1. CASE BeginPosted \/ BeginTimer
      <3>1. /\ BeginRecv
            /\ tasks' = tasks \/ (tasks > 0 /\ tasks' = tasks - 1)
        BY <2>1 DEF BeginPosted, BeginTimer
      <3> QED
        BY <3>1 DEF BeginRecv, CountDown, calls, upper
    <2>2. CASE Process
      BY <2>2 DEF Process, Negotiate, Read, calls
    <2>3. CASE Drained \/ Stopped
      BY <2>3 DEF Drained, Stopped, calls, upper
    <2>4. CASE End
      BY <2>4 DEF End, EndState, calls
    <2> QED
      BY <2>1, <2>2, <2>3, <2>4 DEF DoRecv
  <1>2. PlacesOK'
    BY <1>1 DEF PlacesOK, Places
  <1>3. SkipIsCovered'
    BY <1>1 DEF SkipIsCovered, PlacesOK
  <1>4. LockHeld' /\ StopFollows' /\ QuietAfterStop'
    BY <1>1 DEF PlacesOK, LockHeld, StopFollows, QuietAfterStop
  <1>5. EndedStays'
    BY <1>1 DEF PlacesOK, EndedStays, LockHeld, States
  <1> QED
    BY <1>2, <1>3, <1>4, <1>5 DEF IInv

-----------------------------------------------------------------------------

\* Every step preserves the invariant.
LEMMA NextPreserves == IInv /\ [Next]_vars => IInv'
  <1> SUFFICES ASSUME IInv, [Next]_vars PROVE IInv'
    OBVIOUS
  <1>1. CASE Recv
    BY <1>1, RecvPreserves
  <1>2. CASE \E t \in Threads : CallIncoming(t) \/ Incoming(t) \/ EnqueueRecv(t)
    BY <1>2, CallPreserves, IncomingPreserves, TestPreserves, PostPreserves DEF EnqueueRecv
  <1>3. CASE Start
    BY <1>3, StartPreserves
  <1>4. CASE Stop
    BY <1>4, StopPreserves
  <1>5. CASE DoRecv
    BY <1>5, DoRecvPreserves
  <1>6. CASE UNCHANGED vars
    BY <1>6 DEF IInv, PlacesOK, SkipIsCovered, LockHeld, StopFollows, QuietAfterStop, EndedStays, vars,
                calls, upper
  <1> QED
    BY <1>1, <1>2, <1>3, <1>4, <1>5, <1>6 DEF Next

\* The inductive invariant holds in every reachable state.
THEOREM Invariance == Spec => []IInv
  BY InitEstablishes, NextPreserves, PTL DEF Spec

\* enqueueRecv() never skips a call that nobody else will make, although the calls of the
\* handshake's timer count down as well.
THEOREM SkipSafe == Spec => []SkipIsCovered
  <1>1. IInv => SkipIsCovered
    BY DEF IInv
  <1> QED
    BY <1>1, Invariance, PTL

\* Once stop() has unregistered incoming(), no thread is in it.
THEOREM StopSafe == Spec => []QuietAfterStop
  <1>1. IInv => QuietAfterStop
    BY DEF IInv
  <1> QED
    BY <1>1, Invariance, PTL

\* doRecv() passes the null message up once, and nothing after it.
THEOREM ClosureSafe == Spec => ClosedLast
  <1>1. IInv /\ [Next]_vars => [closures > 0 => UNCHANGED upper]_vars
    <2> SUFFICES ASSUME IInv, Next, closures > 0 PROVE UNCHANGED upper
      OBVIOUS
    <2>1. inside = "no"
      BY DEF IInv, EndedStays
    <2>2. CASE Recv \/ Start \/ Stop
      BY <2>2 DEF Recv, Start, Register, Replay, Connect, Handshake, Stop, CallStop, Unregister,
                  StopQueue, upper
    <2>3. CASE \E t \in Threads : CallIncoming(t) \/ Incoming(t) \/ EnqueueRecv(t)
      BY <2>3 DEF CallIncoming, Incoming, EnqueueRecv, TestPending, PostRecv, upper
    <2>4. CASE DoRecv
      BY <2>1, <2>4 DEF DoRecv, BeginPosted, BeginTimer, BeginRecv, Process, Drained, Stopped, End, upper
    <2> QED
      BY <2>2, <2>3, <2>4 DEF Next
  <1> QED
    BY <1>1, Invariance, PTL DEF Spec, ClosedLast

=============================================================================
