-------------------------------- MODULE Init --------------------------------
(***************************************************************************)
(* impl::Init (src/impl/init.cpp): the global resources (thread pool, poll *)
(* service, usrsctp, TLS and SRTP libraries) are loaded when the first     *)
(* init token is taken and unloaded by a detached cleanup thread that the  *)
(* destructor of the last token starts.  Every PeerConnection, transport,  *)
(* WebSocket and certificate holds a token as long as it lives.            *)
(*                                                                         *)
(* A generation g is one TokenPayload; its tokens are the references to    *)
(* it.  Everything between a lock and an unlock of mMutex is one step; the *)
(* destructor of a token and the cleanup thread run at any later time.     *)
(***************************************************************************)
EXTENDS Naturals

CONSTANTS Objects,        \* the objects that hold a token while they exist
          MaxGenerations, \* bound on the payloads created
          Settings,       \* values of SctpSettings
          Default,        \* the initial settings
          WaitForCleanup  \* TRUE: cleanup() is not called again before its last future is ready

ASSUME InitAssumption ==
    /\ MaxGenerations \in Nat
    /\ Default \in Settings
    /\ WaitForCleanup \in BOOLEAN

VARIABLES mGlobal,        \* the generation mGlobal refers to, 0 when empty
          mWeak,          \* the generation mWeak refers to, 0 at first
          mInitialized,
          mCleanupFuture, \* the generation whose promise it waits for, 0: ready at once
          created,        \* number of payloads created
          holds,          \* holds[o]: the generation of o's token, 0 before o exists
          gone,           \* the objects that were destroyed
          promise,        \* promise[g]: "unset", "spawned" (cleanup thread started) or "set"
          asked,          \* the generations whose future cleanup() has returned
          covered,        \* covered[g]: objects that existed when cleanup() returned g's future
          mCurrentSctpSettings,
          applied,        \* the settings in force in the SCTP stack
          missed          \* settings were set while mGlobal was empty and the resources loaded

vars == <<mGlobal, mWeak, mInitialized, mCleanupFuture, created, holds, gone, promise, asked,
          covered, mCurrentSctpSettings, applied, missed>>

Generations == 1..MaxGenerations

Alive(o) == holds[o] # 0 /\ o \notin gone

Held(g) == \E o \in Objects : holds[o] = g /\ o \notin gone

\* A payload exists while mGlobal or a token refers to it.
Exists(g) == g # 0 /\ (mGlobal = g \/ Held(g))

Ready(g) == g = 0 \/ promise[g] = "set"

Init ==
    /\ mGlobal = 0
    /\ mWeak = 0
    /\ mInitialized = FALSE
    /\ mCleanupFuture = 0
    /\ created = 0
    /\ holds = [o \in Objects |-> 0]
    /\ gone = {}
    /\ promise = [g \in Generations |-> "unset"]
    /\ asked = {}
    /\ covered = [g \in Generations |-> {}]
    /\ mCurrentSctpSettings = Default
    /\ applied = Default
    /\ missed = FALSE

-----------------------------------------------------------------------------
\* Mutant: the resources are loaded with the settings of the last time.
doInitKeepsSettings ==
    /\ mInitialized' = TRUE
    /\ missed' = (missed /\ mInitialized)
    /\ UNCHANGED applied

\* doInit(): loads the resources unless they are still loaded.
doInit ==
    /\ mInitialized' = TRUE
    /\ missed' = (missed /\ mInitialized)
    /\ applied' = IF mInitialized THEN applied ELSE mCurrentSctpSettings

\* make_shared<TokenPayload>(&mCleanupFuture)
NewPayload ==
    /\ created < MaxGenerations
    /\ created' = created + 1
    /\ mGlobal' = created'
    /\ mWeak' = created'
    /\ mCleanupFuture' = created'
    /\ doInit

\* Init::token(), called by the constructor of o.
Token(o) ==
    /\ holds[o] = 0
    /\ \/ /\ Exists(mWeak)
          /\ UNCHANGED <<created, mGlobal, mWeak, mCleanupFuture, mInitialized, applied, missed>>
       \/ /\ ~Exists(mWeak)
          /\ NewPayload
    /\ holds' = [holds EXCEPT ![o] = mWeak']
    /\ UNCHANGED <<gone, promise, asked, covered, mCurrentSctpSettings>>

\* Init::preload()
Preload ==
    /\ mGlobal = 0
    /\ NewPayload
    /\ UNCHANGED <<holds, gone, promise, asked, covered, mCurrentSctpSettings>>

\* Mutant: the cleanup thread is only started when the global reference goes.
SpawnIfGlobal(g) == IF mGlobal = g THEN [promise EXCEPT ![g] = "spawned"] ELSE promise

\* ~TokenPayload(): the promise moves into a detached thread.
Spawn(g) == [promise EXCEPT ![g] = "spawned"]

\* The object o is destroyed and with it its token.
Release(o) ==
    LET g == holds[o] IN
    /\ Alive(o)
    /\ gone' = gone \cup {o}
    /\ promise' = IF mGlobal = g \/ \E x \in Objects \ {o} : holds[x] = g /\ x \notin gone
                  THEN promise
                  ELSE Spawn(g)
    /\ UNCHANGED <<mGlobal, mWeak, mInitialized, mCleanupFuture, created, holds, asked, covered,
                   mCurrentSctpSettings, applied, missed>>

\* Mutant: the promise is fulfilled as soon as the global reference is dropped.
DropGlobalFulfils ==
    /\ mGlobal' = 0
    /\ promise' = IF mGlobal = 0 THEN promise ELSE [promise EXCEPT ![mGlobal] = "set"]

\* mGlobal.reset()
DropGlobal ==
    /\ mGlobal' = 0
    /\ promise' = IF mGlobal = 0 \/ Held(mGlobal) THEN promise ELSE Spawn(mGlobal)

\* The payload whose future cleanup() returns, if there was one.
Awaited == {mCleanupFuture} \ {0}

\* Init::cleanup()
Cleanup ==
    /\ WaitForCleanup => \A g \in asked : Ready(g)
    /\ DropGlobal
    /\ asked' = asked \cup Awaited
    /\ covered' = [g \in Generations |-> IF g = mCleanupFuture
                                          THEN covered[g] \cup {o \in Objects : Alive(o)}
                                          ELSE covered[g]]
    /\ UNCHANGED <<mWeak, mInitialized, mCleanupFuture, created, holds, gone,
                   mCurrentSctpSettings, applied, missed>>

\* Mutant: the resources go although a new payload is in use.
UnloadAlways == mInitialized' = FALSE

\* doCleanup(): nothing while a newer payload is in mGlobal.
doCleanup == mInitialized' = IF mGlobal # 0 THEN mInitialized ELSE FALSE

\* The detached thread of a destroyed payload.
CleanupThread(g) ==
    /\ promise[g] = "spawned"
    /\ doCleanup
    /\ promise' = [promise EXCEPT ![g] = "set"]
    /\ UNCHANGED <<mGlobal, mWeak, mCleanupFuture, created, holds, gone, asked, covered,
                   mCurrentSctpSettings, applied, missed>>

\* Init::setSctpSettings(): in force at once while mGlobal is set, else stored for doInit().
SetSctpSettings(s) ==
    /\ mCurrentSctpSettings' = s
    /\ applied' = IF mGlobal # 0 THEN s ELSE applied
    /\ missed' = (mGlobal = 0 /\ mInitialized)
    /\ UNCHANGED <<mGlobal, mWeak, mInitialized, mCleanupFuture, created, holds, gone, promise,
                   asked, covered>>

Next ==
    \/ \E o \in Objects : Token(o) \/ Release(o)
    \/ Preload
    \/ Cleanup
    \/ \E g \in Generations : CleanupThread(g)
    \/ \E s \in Settings : SetSctpSettings(s)

Spec == Init /\ [][Next]_vars

\* A started thread gets to run.
Fairness == \A g \in Generations : WF_vars(CleanupThread(g))

FairSpec == Spec /\ Fairness

-----------------------------------------------------------------------------
\* Two promises of Init.  The resources are loaded as long as an object that holds a token exists,
\* although cleanup threads of earlier generations run at arbitrary times, and the stack has the settings that were
\* set last (DOC.md:1615, "SCTP settings apply to newly-created PeerConnections only").  The
\* exception are settings set after cleanup() while objects live, which wait for the next doInit().
\* And DOC.md:55, rtcCleanup() "requires all Peer Connections, Data Channels, Tracks, and WebSockets
\* to be destroyed before returning": when the future cleanup() returned is ready, the objects that
\* existed at the call are gone.
LoadedWhileNeeded ==
    /\ (\E o \in Objects : Alive(o)) => mInitialized /\ (missed \/ applied = mCurrentSctpSettings)
    /\ \A g \in asked : Ready(g) => covered[g] \subseteq gone

\* The future of a generation nobody holds any more becomes ready.
CleanupEnds == \A g \in Generations : (g \in asked /\ ~Held(g)) ~> Ready(g)
=============================================================================
