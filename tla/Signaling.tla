----------------------------- MODULE Signaling ------------------------------
(***************************************************************************)
(* Offer and answer between two peers (src/src/peerconnection.cpp, the     *)
(* signaling half of src/src/impl/peerconnection.cpp and the descriptions  *)
(* of src/src/impl/icetransport.cpp).  On each peer a user thread creates  *)
(* channels and tracks while a second thread applies what the other peer   *)
(* sent; both negotiate automatically.  What runs under the signaling      *)
(* mutex is one step, but for setLocalDescription(), which is two.         *)
(*                                                                         *)
(* The signaling path is reliable and in order.  When two offers cross,    *)
(* the application of peer "a" refuses the one it gets, that of peer "b"   *)
(* accepts it.                                                             *)
(***************************************************************************)
EXTENDS Naturals, Sequences, SequencesExt, FiniteSetsExt

CONSTANTS Plans,       \* what the applications do: [channel, track, drop : SUBSET Peers, keep : BOOLEAN]
          Candidates,  \* the candidates each peer gathers
          Unresolved   \* those with a name for an address

VARIABLES plan, sig, role, local, current, remote, channels, tracks, lines, gathering, found, agent, lookups,
          draft,    \* the description setLocalDescription() is making, with the signaling mutex held
          callStack,    \* what is left of the calls of a thread, the next one first
          wire,     \* what was sent to a peer and is not delivered yet
          lost,     \* candidates that could not be added
          collided  \* two offers crossed

negotiation == <<sig, role, local, current, remote>>
ice == <<gathering, found, agent, lookups, lost>>
media == <<channels, tracks, lines>>
sigVars == <<plan, negotiation, ice, media, draft, callStack, wire, collided>>

Peers == {"a", "b"}
Other(p) == IF p = "a" THEN "b" ELSE "a"
Workers == {"user", "signal"}
Mid == [a |-> 10, b |-> 20]   \* the mids of the tracks the two applications add
Mids == {Mid[p] : p \in Peers}

NoDescription == [type |-> "none", role |-> "none", media |-> <<>>, cands |-> {}]
NoDraft == [by |-> "none", desc |-> NoDescription, next |-> "none"]
There(d) == d.type # "none"
HasMid(d, m) == \E i \in DOMAIN d.media : d.media[i].mid = m
HasApplication(d) == \E i \in DOMAIN d.media : d.media[i].app /\ ~d.media[i].removed

SigInitWith(s) ==
    /\ plan = s
    /\ sig = [p \in Peers |-> "Stable"] /\ role = [p \in Peers |-> "ActPass"]
    /\ local = [p \in Peers |-> NoDescription] /\ current = local /\ remote = local
    /\ channels = [p \in Peers |-> FALSE]
    /\ tracks = [p \in Peers |-> [m \in Mids |-> "none"]] /\ lines = [p \in Peers |-> <<>>]
    /\ gathering = [p \in Peers |-> "New"]
    /\ found = [p \in Peers |-> {}] /\ agent = found /\ lookups = found /\ lost = found
    /\ draft = [p \in Peers |-> NoDraft]
    /\ callStack = [p \in Peers |-> [t \in Workers |-> <<>>]]
    /\ wire = [p \in Peers |-> <<>>]
    /\ collided = FALSE

SigInit == \E s \in Plans : SigInitWith(s)

\* The next call of thread t of peer p, and the calls it becomes; an exception drops them all.
Calling(p, t, c) == callStack[p][t] # <<>> /\ callStack[p][t][1][1] = c
GoesOn(p, t, more) == callStack' = [callStack EXCEPT ![p][t] = more \o Tail(@)]
Unwinds(p, t) == callStack' = [callStack EXCEPT ![p][t] = <<>>]
Free(p) == draft[p].by = "none"
Send(p, m) == wire' = [wire EXCEPT ![Other(p)] = Append(@, m)]

-----------------------------------------------------------------------------
\* negotiationNeeded(): a channel without application, a track that is not in the description, or a
\* description with a track that is gone or closed.
NegotiationNeeded(p) ==
    \/ channels[p] /\ ~HasApplication(local[p])
    \/ \E m \in Mids : tracks[p][m] \in {"live", "closed", "removed"} /\ ~HasMid(local[p], m)
    \/ \E i \in DOMAIN local[p].media :
        LET e == local[p].media[i]
        IN  ~e.app /\ ~e.removed /\ tracks[p][e.mid] \in {"dead", "closed", "removed"}

\* The state after a local description of a type: "throw" if it is unexpected, "ignore" if the
\* other side has to answer first.
LocalState(s, type) ==
    CASE s = "Stable" -> (IF type = "Offer" THEN "HaveLocalOffer" ELSE "throw")
      [] s = "HaveRemoteOffer" -> (IF type = "Answer" THEN "Stable" ELSE "throw")
      [] OTHER -> "ignore"

\* setLocalDescription(), first half: IceTransport::getLocalDescription() lists what was gathered.
StartLocal(p, t) ==
    /\ Calling(p, t, "local") /\ Free(p)
    /\ LET asked == callStack[p][t][1][2]
           type == IF asked # "Unspec" THEN asked ELSE IF sig[p] = "HaveRemoteOffer" THEN "Answer" ELSE "Offer"
           next == LocalState(sig[p], type)
       IN  CASE next = "throw"  -> Unwinds(p, t) /\ UNCHANGED draft
             [] next = "ignore" -> GoesOn(p, t, <<>>) /\ UNCHANGED draft
             [] OTHER -> /\ draft' = [draft EXCEPT ![p] =
                              [by |-> t, next |-> next,
                               desc |-> [type |-> type, role |-> IF type = "Offer" THEN "ActPass" ELSE role[p],
                                         media |-> <<>>, cands |-> found[p]]]]
                         /\ GoesOn(p, t, <<<<"populate">>>>)
    /\ UNCHANGED <<plan, negotiation, ice, media, wire, collided>>

Line(m, app, removed) == [mid |-> m, app |-> app, removed |-> removed]

\* Mutant: a dropped track keeps its line.
ReciprocatedAsIs(p) ==
    [i \in DOMAIN remote[p].media |->
        LET e == remote[p].media[i]
        IN  IF e.app THEN Line(e.mid, TRUE, IF channels[p] THEN FALSE ELSE e.removed)
            ELSE Line(e.mid, FALSE, e.removed)]

\* populateLocalDescription(): the lines of the remote description, then, in an offer, the tracks and
\* the application that are not among them.
Reciprocated(p) ==
    [i \in DOMAIN remote[p].media |->
        LET e == remote[p].media[i]
        IN  IF e.app THEN Line(e.mid, TRUE, IF channels[p] THEN FALSE ELSE e.removed)
            ELSE Line(e.mid, FALSE, tracks[p][e.mid] \notin {"live", "closed"})]

PopulatedMedia(p, type) ==
    LET known == Reciprocated(p)
        Has(s, m) == \E i \in DOMAIN s : s[i].mid = m
        added == SelectSeq(lines[p], LAMBDA m : ~Has(known, m) /\ tracks[p][m] # "dead")
        tracked == known \o [i \in DOMAIN added |-> Line(added[i], FALSE, tracks[p][added[i]] = "removed")]
        free == Min({m \in 0..Len(tracked) : ~Has(tracked, m)})
    IN  IF type # "Offer" THEN known
        ELSE IF channels[p] /\ ~HasApplication([media |-> tracked]) THEN Append(tracked, Line(free, TRUE, FALSE))
        ELSE tracked

\* processLocalDescription(): the candidates stay with the description that is kept; the callback
\* is given the one that was made.
ProcessLocalDescription(p, desc) ==
    /\ current' = IF There(local[p]) THEN [current EXCEPT ![p] = [local[p] EXCEPT !.cands = {}]] ELSE current
    /\ local' = [local EXCEPT ![p] = [desc EXCEPT !.cands = @ \cup local[p].cands]]
    /\ Send(p, [kind |-> "description", desc |-> desc, cand |-> 0])

\* Mutant: no new negotiation is considered after an answer.
FinishLocalOnly(p, t) ==
    /\ Calling(p, t, "populate") /\ draft[p].by = t
    /\ draft' = [draft EXCEPT ![p] = NoDraft]
    /\ LET desc == [draft[p].desc EXCEPT !.media = PopulatedMedia(p, draft[p].desc.type)]
       IN  IF desc.media = <<>> THEN Unwinds(p, t) /\ UNCHANGED <<negotiation, wire>>
           ELSE /\ ProcessLocalDescription(p, desc)
                /\ sig' = [sig EXCEPT ![p] = draft[p].next]
                /\ GoesOn(p, t, <<<<"gather">>>>)
                /\ UNCHANGED <<role, remote>>
    /\ UNCHANGED <<plan, ice, media, collided>>

\* setLocalDescription(), second half, with the calls that follow: a new offer if one is needed and
\* the gathering of candidates.
FinishLocal(p, t) ==
    /\ Calling(p, t, "populate") /\ draft[p].by = t
    /\ draft' = [draft EXCEPT ![p] = NoDraft]
    /\ LET desc == [draft[p].desc EXCEPT !.media = PopulatedMedia(p, draft[p].desc.type)]
       IN  IF desc.media = <<>> THEN Unwinds(p, t) /\ UNCHANGED <<negotiation, wire>>
           ELSE /\ ProcessLocalDescription(p, desc)
                /\ sig' = [sig EXCEPT ![p] = draft[p].next]
                /\ GoesOn(p, t, (IF draft[p].next = "Stable" THEN <<<<"needed">>>> ELSE <<>>) \o <<<<"gather">>>>)
                /\ UNCHANGED <<role, remote>>
    /\ UNCHANGED <<plan, ice, media, collided>>

\* createDataChannel() after the channel is there, and the end of the two calls above.
CheckStable(p, t) ==
    /\ Calling(p, t, "stable?")
    /\ GoesOn(p, t, IF sig[p] = "Stable" THEN <<<<"needed">>>> ELSE <<>>)
    /\ UNCHANGED <<plan, negotiation, ice, media, draft, wire, collided>>

CheckNeeded(p, t) ==
    /\ Calling(p, t, "needed")
    /\ GoesOn(p, t, IF NegotiationNeeded(p) THEN <<<<"local", "Offer">>>> ELSE <<>>)
    /\ UNCHANGED <<plan, negotiation, ice, media, draft, wire, collided>>

\* IceTransport::gatherLocalCandidates(), once.
GatherLocalCandidates(p, t) ==
    /\ Calling(p, t, "gather")
    /\ gathering' = IF gathering[p] = "New" THEN [gathering EXCEPT ![p] = "InProgress"] ELSE gathering
    /\ GoesOn(p, t, <<>>)
    /\ UNCHANGED <<plan, negotiation, found, agent, lookups, lost, media, draft, wire, collided>>

-----------------------------------------------------------------------------
\* rollbackLocalDescription(): only if there was one before.
RolledBack(p) ==
    IF There(current[p]) THEN [current[p] EXCEPT !.cands = local[p].cands] ELSE local[p]

\* validateRemoteDescription(): some line is active; a media line with a direction counts.
Validated(d) == \E i \in DOMAIN d.media : ~(d.media[i].app /\ d.media[i].removed)

RemoteState(s, type) ==
    CASE type = "Offer" /\ s \in {"Stable", "HaveLocalOffer"} -> "HaveRemoteOffer"
      [] type = "Answer" /\ s = "HaveLocalOffer" -> "Stable"
      [] OTHER -> "throw"

\* IceTransport::setRemoteDescription(): the role is settled by the first description.
SettledRole(p, d) ==
    IF role[p] # "ActPass" THEN role[p] ELSE IF d.role = "Active" THEN "Passive" ELSE "Active"
IceRejects(p, d) == (d.type = "Answer" /\ d.role = "ActPass") \/ SettledRole(p, d) = d.role

\* processRemoteDescription(): a track for each new line; it is closed if the line is removed.
NewLines(p, d) == SelectSeq(d.media, LAMBDA e : ~e.app /\ tracks[p][e.mid] = "none")
ProcessRemoteDescription(p, d) ==
    /\ tracks' = [tracks EXCEPT ![p] = [m \in Mids |->
            IF \E e \in Range(NewLines(p, d)) : e.mid = m
            THEN (IF \E e \in Range(NewLines(p, d)) : e.mid = m /\ e.removed THEN "removed" ELSE "live") ELSE @[m]]]
    /\ lines' = [lines EXCEPT ![p] = @ \o [i \in DOMAIN NewLines(p, d) |-> NewLines(p, d)[i].mid]]
    /\ remote' = [remote EXCEPT ![p] = [d EXCEPT !.cands = remote[p].cands]]

\* setRemoteDescription(): its candidates are added after it, then it is answered, or a new offer
\* is made if one is needed.  An offer rolls back the local one.
SetRemoteDescription(p, t, d) ==
    LET next == RemoteState(sig[p], d.type)
        rolls == d.type = "Offer" /\ sig[p] = "HaveLocalOffer"
    IN  IF ~Validated(d) \/ next = "throw" THEN UNCHANGED <<negotiation, media, callStack>>
        ELSE /\ local' = IF rolls THEN [local EXCEPT ![p] = RolledBack(p)] ELSE local
             /\ current' = IF rolls THEN [current EXCEPT ![p] = NoDescription] ELSE current
             /\ role' = IF d.type = "Answer" /\ d.role = "ActPass" THEN role
                        ELSE [role EXCEPT ![p] = SettledRole(p, d)]
             /\ IF IceRejects(p, d)
                THEN /\ sig' = IF rolls THEN [sig EXCEPT ![p] = "Stable"] ELSE sig
                     /\ UNCHANGED <<remote, media, callStack>>
                ELSE /\ sig' = [sig EXCEPT ![p] = next]
                     /\ ProcessRemoteDescription(p, d)
                     /\ callStack' = [callStack EXCEPT ![p][t] = SetToSeq({<<"candidate", c>> : c \in d.cands}) \o
                            (IF next = "Stable" THEN <<<<"needed">>>> ELSE <<<<"local", "Answer">>>>)]
                     /\ UNCHANGED channels

\* setLocalDescription() of the type Rollback.
Rollback(p) ==
    /\ local' = [local EXCEPT ![p] = RolledBack(p)]
    /\ current' = [current EXCEPT ![p] = NoDescription]
    /\ sig' = [sig EXCEPT ![p] = "Stable"]

\* processRemoteCandidate(): a candidate that is a name is looked up in a thread of its own.
AddRemoteCandidate(p, t) ==
    /\ Calling(p, t, "candidate") /\ Free(p)
    /\ LET c == callStack[p][t][1][2]
       IN  IF ~There(remote[p])
           THEN lost' = [lost EXCEPT ![p] = @ \cup {c}] /\ Unwinds(p, t) /\ UNCHANGED <<remote, agent, lookups>>
           ELSE /\ GoesOn(p, t, <<>>)
                /\ remote' = [remote EXCEPT ![p].cands = @ \cup {c}]
                /\ LET new == {c} \ remote[p].cands
                   IN  /\ agent' = [agent EXCEPT ![p] = @ \cup (new \ Unresolved)]
                       /\ lookups' = [lookups EXCEPT ![p] = @ \cup (new \cap Unresolved)]
                /\ UNCHANGED lost
    /\ UNCHANGED <<plan, sig, role, local, current, gathering, found, media, draft, wire, collided>>

Lookup(p, c) ==
    /\ c \in lookups[p]
    /\ lookups' = [lookups EXCEPT ![p] = @ \ {c}]
    /\ agent' = [agent EXCEPT ![p] = @ \cup {c}]
    /\ UNCHANGED <<plan, negotiation, gathering, found, lost, media, draft, callStack, wire, collided>>

\* processLocalCandidate(), by the agent's thread.
LocalCandidate(p, c) ==
    /\ gathering[p] = "InProgress" /\ c \in Candidates[p] \ found[p]
    /\ found' = [found EXCEPT ![p] = @ \cup {c}]
    /\ local' = [local EXCEPT ![p].cands = @ \cup {c}]
    /\ Send(p, [kind |-> "candidate", desc |-> NoDescription, cand |-> c])
    /\ UNCHANGED <<plan, sig, role, current, remote, gathering, agent, lookups, lost, media, draft, callStack, collided>>

\* processGatheringDone().
GatheringDone(p) ==
    /\ gathering[p] = "InProgress" /\ found[p] = Candidates[p]
    /\ gathering' = [gathering EXCEPT ![p] = "Complete"]
    /\ UNCHANGED <<plan, negotiation, found, agent, lookups, lost, media, draft, callStack, wire, collided>>

-----------------------------------------------------------------------------
\* The applications.  Peer "b" may also roll its offer back itself before it accepts the other one.
Deliver(p) ==
    /\ wire[p] # <<>> /\ callStack[p]["signal"] = <<>> /\ Free(p)
    /\ wire' = [wire EXCEPT ![p] = Tail(@)]
    /\ LET m == Head(wire[p])
           crossed == m.desc.type = "Offer" /\ sig[p] = "HaveLocalOffer"
       IN  /\ collided' = (collided \/ crossed)
           /\ \/ /\ m.kind = "candidate"
                 /\ callStack' = [callStack EXCEPT ![p]["signal"] = <<<<"candidate", m.cand>>>>]
                 /\ UNCHANGED <<negotiation, media>>
              \/ /\ m.kind = "description" /\ crossed /\ p = "a"
                 /\ UNCHANGED <<negotiation, media, callStack>>
              \/ /\ m.kind = "description" /\ ~(crossed /\ p = "a")
                 /\ SetRemoteDescription(p, "signal", m.desc)
    /\ UNCHANGED <<plan, ice, draft>>

RollbackFirst(p) ==
    /\ p = "b" /\ wire[p] # <<>> /\ callStack[p]["signal"] = <<>> /\ Free(p)
    /\ Head(wire[p]).desc.type = "Offer" /\ sig[p] = "HaveLocalOffer"
    /\ Rollback(p)
    /\ collided' = TRUE
    /\ UNCHANGED <<plan, role, remote, ice, media, draft, callStack, wire>>

Begins(p, what) ==
    /\ p \in plan[what] /\ callStack[p]["user"] = <<>>
    /\ plan' = [plan EXCEPT ![what] = @ \ {p}]

CreateDataChannel(p) ==
    /\ Begins(p, "channel")
    /\ channels' = [channels EXCEPT ![p] = TRUE]
    /\ callStack' = [callStack EXCEPT ![p]["user"] = <<<<"stable?">>>>]
    /\ UNCHANGED <<negotiation, ice, tracks, lines, draft, wire, collided>>

AddTrack(p) ==
    /\ Begins(p, "track")
    /\ tracks' = [tracks EXCEPT ![p][Mid[p]] = "live"]
    /\ lines' = [lines EXCEPT ![p] = Append(@, Mid[p])]
    /\ callStack' = [callStack EXCEPT ![p]["user"] = <<<<"local", "Unspec">>>>]
    /\ UNCHANGED <<negotiation, ice, channels, draft, wire, collided>>

\* The application closes its track, and keeps it or lets go of it.
CloseTrack(p) ==
    /\ Begins(p, "drop") /\ tracks[p][Mid[p]] = "live"
    /\ tracks' = [tracks EXCEPT ![p][Mid[p]] = IF plan.keep THEN "closed" ELSE "dead"]
    /\ callStack' = [callStack EXCEPT ![p]["user"] = <<<<"local", "Unspec">>>>]
    /\ UNCHANGED <<negotiation, ice, channels, lines, draft, wire, collided>>

Works(p, t) ==
    \/ StartLocal(p, t) \/ FinishLocal(p, t) \/ CheckStable(p, t) \/ CheckNeeded(p, t)
    \/ GatherLocalCandidates(p, t) \/ AddRemoteCandidate(p, t)

Environment(p) == Deliver(p) \/ GatheringDone(p) \/ \E c \in Candidates[p] : LocalCandidate(p, c)
LooksUp(p) == \E c \in Unresolved : Lookup(p, c)

SigNext ==
    \/ \E p \in Peers, t \in Workers : Works(p, t)
    \/ \E p \in Peers : Environment(p) \/ LooksUp(p) \/ RollbackFirst(p) \/ CreateDataChannel(p) \/ AddTrack(p) \/ CloseTrack(p)

\* Threads run, what is sent arrives, candidates are gathered and looked up.
SigFairness ==
    \A p \in Peers : /\ \A t \in Workers : WF_sigVars(Works(p, t))
                     /\ WF_sigVars(Environment(p)) /\ WF_sigVars(LooksUp(p))

SigSpec == SigInit /\ [][SigNext]_sigVars /\ SigFairness

-----------------------------------------------------------------------------
Rest ==
    /\ \A p \in Peers : wire[p] = <<>> /\ Free(p) /\ \A t \in Workers : callStack[p][t] = <<>>
    /\ \A p \in Peers : lookups[p] = {} /\ found[p] \in {{}, Candidates[p]}

\* A remote description was answered.
Negotiated == \E p \in Peers : There(local[p])

(***************************************************************************)
(* Whenever the peers are at rest they agree: nothing is pending, both     *)
(* have the same lines in the same order, one is active and the other      *)
(* passive, and no channel or track was forgotten by either, whatever the  *)
(* moment it was created at and however offers crossed.  Every candidate a *)
(* peer gathered has reached the agent of the other, as part of a          *)
(* description or on its own, unless offers crossed: then the other peer   *)
(* may still be without a remote description.                              *)
(***************************************************************************)
PeersAgree ==
    Rest /\ Negotiated =>
        /\ \A p \in Peers :
            /\ sig[p] = "Stable" /\ ~NegotiationNeeded(p)
            /\ [i \in DOMAIN local[p].media |-> local[p].media[i].mid]
                 = [i \in DOMAIN remote[p].media |-> remote[p].media[i].mid]
            /\ found[p] \subseteq agent[Other(p)] \/ collided
        /\ {role[p] : p \in Peers} = {"Active", "Passive"}

\* Negotiation comes to an end: the peers do not go on making offers.
NegotiationSettles == <>[]Rest
=============================================================================
