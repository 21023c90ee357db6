----------------------- MODULE SubagentMessageProofs -----------------------
(***************************************************************************)
(* Proofs about the messages to active children of SubagentCoordinator,    *)
(* for every value of its constants.                                       *)
(*                                                                         *)
(* MessageInv relates four pieces of state that different turns change:    *)
(* the place of a message, its lease, the admission counter of the child   *)
(* it was admitted to and the free permits.  The counter is exactly the    *)
(* number of futures in flight, which is why a child that finishes with    *)
(* its counter at zero strands no message.                                 *)
(***************************************************************************)
EXTENDS SubagentRecordProofs

-----------------------------------------------------------------------------
(***************************************************************************)
(* The inductive invariant.                                                *)
(***************************************************************************)
MessageTypes ==
  /\ inFlight \in [Children -> Nat]
  /\ msgState \in [Messages -> {"idle", "ingress", "parked", "inflight", "lost", "replied"}]
  /\ msgTo \in [Messages -> Children] /\ msgFrom \in [Messages -> Owners]
  /\ msgReply \in [Messages -> {"none", "accepted", "not_found", "not_active", "saturated",
                                "uncertain", "not_before_deadline", "unsupported", "closed"}]
  /\ lease \in [Messages -> {"none", "open", "claimed", "committed", "revoked"}]
  /\ permits \in 0..MaxPermits

\* A lease exists from the admission on, and is open only while the future runs.
LeaseFollowsFuture ==
  \A m \in Messages :
    /\ msgState[m] \in {"idle", "ingress", "parked"} => lease[m] = "none" /\ msgReply[m] = "none"
    /\ msgState[m] = "inflight" =>
         lease[m] \in {"open", "claimed", "committed"} /\ msgReply[m] = "none"
    /\ msgState[m] = "replied" => lease[m] # "open"

InFlightTo(c) == {m \in Messages : msgState[m] = "inflight" /\ msgTo[m] = c}

\* in_flight counts the message futures of the child.
InFlightCounted == \A c \in Children : inFlight[c] = Cardinality(InFlightTo(c))

Occupied == {m \in Messages : msgState[m] \in {"ingress", "inflight", "lost"}}

MessageInv ==
  /\ MessageTypes
  /\ LeaseFollowsFuture
  /\ DefiniteAnswer
  /\ NoLostCompletion
  /\ InFlightCounted
  /\ PermitsAccounted

\* What MessageInv says of one message.
Told(m) ==
  /\ msgState[m] \in {"idle", "ingress", "parked"} => lease[m] = "none" /\ msgReply[m] = "none"
  /\ msgState[m] = "inflight" =>
       /\ lease[m] \in {"open", "claimed", "committed"} /\ msgReply[m] = "none"
       /\ msgTo[m] \in active
  /\ msgState[m] = "replied" => lease[m] # "open"
  /\ msgState[m] # "lost"
  /\ msgState[m] = "parked" => OwnedSpawning(m)
  /\ msgReply[m] = "accepted" => lease[m] = "committed"
  /\ msgReply[m] \notin {"none", "accepted", "uncertain"} => lease[m] \in {"none", "revoked"}

PermitsCounted == permits + Cardinality(Occupied) = MaxPermits

\* The invariant is what it says of each message, and the two counts.
LEMMA MessageInvParts ==
  MessageInv <=> /\ MessageTypes /\ \A m \in Messages : Told(m)
                 /\ InFlightCounted /\ PermitsCounted
BY DEF MessageInv, LeaseFollowsFuture, DefiniteAnswer, NoLostCompletion, PermitsAccounted,
       Told, PermitsCounted, Occupied

\* ... and the same of the next state.
LEMMA MessageInvNext ==
  ASSUME MessageTypes', \A m \in Messages : Told(m)', InFlightCounted', PermitsCounted'
  PROVE  MessageInv'
BY DEF MessageInv, LeaseFollowsFuture, DefiniteAnswer, NoLostCompletion, PermitsAccounted,
       Told, PermitsCounted, Occupied

\* A set of messages is finite, and changes its size by one with one message.
LEMMA MessageCount ==
  ASSUME NEW S \in SUBSET Messages
  PROVE  /\ IsFiniteSet(S) /\ Cardinality(S) \in Nat
         /\ \A m : m \notin S => Cardinality(S \cup {m}) = Cardinality(S) + 1
         /\ \A m \in S : Cardinality(S \ {m}) = Cardinality(S) - 1
         /\ Cardinality(S) = 0 <=> S = {}
<1>1. IsFiniteSet(S)
  BY MessagesAssumption, FS_Subset
<1> QED
  BY <1>1, FS_CardinalityType, FS_AddElement, FS_RemoveElement, FS_EmptySet

\* The sets that are counted stay, and with them the counts.
LEMMA SameCounts ==
  ASSUME InFlightCounted, PermitsCounted, inFlight' = inFlight, permits' = permits,
         \A m \in Messages : /\ msgState'[m] = "inflight" <=> msgState[m] = "inflight"
                             /\ msgState[m] = "inflight" => msgTo'[m] = msgTo[m]
                             /\ m \in Occupied' <=> m \in Occupied
  PROVE  InFlightCounted' /\ PermitsCounted'
<1>1. Occupied' = Occupied
  BY DEF Occupied
<1>2. \A c : InFlightTo(c)' = InFlightTo(c)
  BY DEF InFlightTo
<1>3. Cardinality(Occupied)' = Cardinality(Occupied)
  BY <1>1, Zenon
<1>4. \A c : Cardinality(InFlightTo(c))' = Cardinality(InFlightTo(c))
  BY <1>2, Zenon
<1> QED
  BY <1>3, <1>4 DEF InFlightCounted, PermitsCounted

-----------------------------------------------------------------------------
(***************************************************************************)
(* Turns that are about the children.                                      *)
(***************************************************************************)

\* Turns that touch no message and leave its child where it is.
Unmessaged ==
  /\ UNCHANGED <<msgState, msgTo, msgFrom, msgReply, lease, permits, inFlight>>
  /\ active' = active
  /\ \A c \in pending \cup queued : c \in pending' \cup queued' /\ req'[c] = req[c]

\* Turns that answer the messages parked on the children they take away.
Rejecting ==
  \E ids :
    /\ RejectSpawnReady(ids, {})
    /\ UNCHANGED <<msgTo, msgFrom, lease, permits, inFlight, req>>
    /\ active' = active
    /\ (pending \cup queued) \ ids \subseteq pending' \cup queued'

\* A turn that leaves the messages and leases alone keeps MessageInv.
LEMMA UnmessagedKeeps ==
  ASSUME MessageInv, Unmessaged
  PROVE  MessageInv'
<1>1. MessageTypes'
  BY DEF MessageInv, MessageTypes, Unmessaged
<1>2. \A m \in Messages : Told(m)'
  <2> SUFFICES ASSUME NEW m \in Messages PROVE Told(m)'
    OBVIOUS
  <2>1. Told(m)
    BY MessageInvParts
  <2> QED
    BY <2>1 DEF Told, Unmessaged, OwnedSpawning
<1>3. InFlightCounted' /\ PermitsCounted'
  BY SameCounts, MessageInvParts DEF Unmessaged, Occupied
<1> QED
  BY <1>1, <1>2, <1>3, MessageInvNext

\* Replying to parked messages moves no permit and no admission.
LEMMA RejectingKeeps ==
  ASSUME MessageInv, Rejecting
  PROVE  MessageInv'
<1>1. PICK ids :
        /\ RejectSpawnReady(ids, {})
        /\ UNCHANGED <<msgTo, msgFrom, lease, permits, inFlight, req>>
        /\ active' = active
        /\ (pending \cup queued) \ ids \subseteq pending' \cup queued'
  BY DEF Rejecting
<1>2. MessageTypes /\ MessageTypes'
  BY <1>1 DEF MessageInv, MessageTypes, RejectSpawnReady
<1>3. ASSUME NEW m \in Messages
      PROVE  /\ msgState[m] = "parked" /\ msgTo[m] \in ids =>
                  msgState'[m] = "replied" /\ msgReply'[m] = "not_active"
             /\ ~(msgState[m] = "parked" /\ msgTo[m] \in ids) =>
                  msgState'[m] = msgState[m] /\ msgReply'[m] = msgReply[m]
  BY <1>1 DEF RejectSpawnReady
<1>4. ASSUME NEW m \in Messages PROVE Told(m)'
  <2>1. Told(m)
    BY MessageInvParts
  <2> QED
    BY <1>1, <1>3, <2>1 DEF Told, OwnedSpawning
<1>5. InFlightCounted' /\ PermitsCounted'
  BY <1>1, <1>3, SameCounts, MessageInvParts DEF Occupied
<1> QED
  BY <1>2, <1>4, <1>5, MessageInvNext

-----------------------------------------------------------------------------
(***************************************************************************)
(* A child's promotion and the end of its run.                             *)
(***************************************************************************)

\* A promotion admits some of the parked messages, each with a permit, and
\* answers the others.
LEMMA StartedKeeps ==
  ASSUME RegistryInv, MessageInv, NEW c \in Children, NEW background, Started(c, background)
  PROVE  MessageInv'
<1>1. PICK A \in SUBSET Parked(c) :
        /\ Cardinality(A) = Least(Cardinality(Parked(c)), Least(permits, MaxInFlight))
        /\ msgState' = [m \in Messages |-> IF m \in A THEN "inflight"
                                           ELSE IF m \in Parked(c) THEN "replied"
                                           ELSE msgState[m]]
        /\ msgReply' = [m \in Messages |-> IF m \in Parked(c) \ A THEN "saturated"
                                           ELSE msgReply[m]]
        /\ lease' = [m \in Messages |-> IF m \in A THEN "open" ELSE lease[m]]
        /\ permits' = permits - Cardinality(A)
        /\ inFlight' = [inFlight EXCEPT ![c] = Cardinality(A)]
  BY DEF Started
<1>2. /\ active' = active \cup {c} /\ pending' = pending \ {c} /\ queued' = queued
      /\ req' = req /\ msgTo' = msgTo /\ msgFrom' = msgFrom
      /\ c \in pending /\ c \notin active /\ c \notin queued
  BY DEF Started, RegistryInv, RegistryConsistent
<1>3. MessageTypes /\ Parked(c) \in SUBSET Messages /\ A \in SUBSET Messages
      /\ \A m \in Parked(c) : msgState[m] = "parked" /\ msgTo[m] = c
  BY DEF MessageInv, Parked
<1>4. /\ Cardinality(A) \in Nat /\ Cardinality(A) <= permits
      /\ permits \in Nat /\ permits <= MaxPermits /\ MaxPermits \in Nat
  <2>1. Cardinality(A) \in Nat /\ Cardinality(Parked(c)) \in Nat
    BY <1>3, MessageCount
  <2> QED
    BY <1>1, <1>3, <2>1, BoundsAssumption DEF Least, MessageTypes
<1>5. MessageTypes'
  <2>1. permits' \in 0..MaxPermits
    BY <1>1, <1>4
  <2>2. inFlight' \in [Children -> Nat]
    BY <1>1, <1>3, <1>4 DEF MessageTypes
  <2> QED
    BY <1>1, <1>2, <1>3, <2>1, <2>2 DEF MessageTypes
<1>6. ASSUME NEW m \in Messages PROVE Told(m)'
  <2>1. Told(m)
    BY MessageInvParts
  <2>2. CASE m \in Parked(c)
    BY <1>1, <1>2, <1>3, <2>1, <2>2 DEF Told, OwnedSpawning
  <2>3. CASE m \notin Parked(c)
    BY <1>1, <1>2, <1>3, <2>1, <2>3 DEF Told, OwnedSpawning, Parked
  <2> QED
    BY <2>2, <2>3
<1>7. InFlightTo(c) = {}
  BY <1>2, MessageInvParts DEF InFlightTo, Told
<1>8. InFlightTo(c)' = A /\ \A d \in Children \ {c} : InFlightTo(d)' = InFlightTo(d)
  BY <1>1, <1>2, <1>3, <1>7 DEF InFlightTo
<1>9. InFlightCounted'
  <2> SUFFICES ASSUME NEW d \in Children
               PROVE  inFlight'[d] = Cardinality(InFlightTo(d))'
    BY DEF InFlightCounted
  <2>1. CASE d = c
    <3>1. Cardinality(InFlightTo(c))' = Cardinality(A)
      BY <1>8, Zenon
    <3> QED
      BY <1>1, <1>3, <2>1, <3>1 DEF MessageTypes
  <2>2. CASE d # c
    <3>1. Cardinality(InFlightTo(d))' = Cardinality(InFlightTo(d))
      BY <1>8, <2>2, Zenon
    <3> QED
      BY <1>1, <1>3, <2>2, <3>1 DEF MessageTypes, MessageInv, InFlightCounted
  <2> QED
    BY <2>1, <2>2
<1>10. PermitsCounted'
  <2>1. Occupied' = Occupied \cup A /\ Occupied \cap A = {} /\ Occupied \in SUBSET Messages
    BY <1>1, <1>3 DEF Occupied
  <2>2. Cardinality(Occupied') = Cardinality(Occupied \cup A)
    BY <2>1, Zenon
  <2>3. Cardinality(Occupied \cup A) = Cardinality(Occupied) + Cardinality(A)
    <3>1. IsFiniteSet(Occupied) /\ IsFiniteSet(A) /\ Cardinality(Occupied) \in Nat
      BY <1>3, <2>1, MessageCount
    <3>2. Cardinality(Occupied \cup A)
            = Cardinality(Occupied) + Cardinality(A) - Cardinality(Occupied \cap A)
      BY <3>1, FS_Union
    <3>3. Cardinality(Occupied \cap A) = 0
      BY <2>1, FS_EmptySet
    <3> QED
      BY <1>4, <3>1, <3>2, <3>3
  <2>4. permits + Cardinality(Occupied) = MaxPermits /\ Cardinality(Occupied) \in Nat
    BY <2>1, MessageInvParts, MessageCount DEF PermitsCounted
  <2>5. permits' + Cardinality(Occupied') = MaxPermits
    BY <1>1, <1>4, <2>2, <2>3, <2>4
  <2> QED
    BY <2>5 DEF PermitsCounted
<1> QED
  BY <1>5, <1>6, <1>9, <1>10, MessageInvNext

\* A run that returns with the counter at zero strands no future: there is none.
LEMMA RunReturnsKeeps ==
  ASSUME RegistryInv, MessageInv, NEW c \in Children, NEW out, RunReturns(c, out)
  PROVE  MessageInv'
<1> DEFINE ids == {c} \cup CancelledQueued
<1>1. /\ RejectSpawnReady(ids, {c})
      /\ UNCHANGED <<msgTo, msgFrom, lease, permits, inFlight, req>>
      /\ RunSettled(c)
  BY DEF RunReturns, FinishTerminalizedChild
<1>2. \E o : FinishChild({c}, CancelledQueued, o, Now)
  BY Zenon DEF RunReturns, FinishTerminalizedChild
<1>3. active' = active \ ids /\ pending' \cup queued' = (pending \cup queued) \ ids
  BY <1>2, FinishTables
<1>4. CancelledQueued \cap active = {}
  BY DEF RegistryInv, RegistryConsistent, CancelledQueued
<1>5. MessageTypes /\ MessageTypes'
  BY <1>1 DEF MessageInv, MessageTypes, RejectSpawnReady
<1>6. \A m \in Messages : ~(msgState[m] = "inflight" /\ msgTo[m] = c)
  <2>1. CASE c \notin active
    BY <2>1, MessageInvParts DEF Told
  <2>2. CASE c \in active
    <3>1. Cardinality(InFlightTo(c)) = 0 /\ InFlightTo(c) \in SUBSET Messages
      BY <1>1, <2>2 DEF RunSettled, MessageInv, InFlightCounted, InFlightTo
    <3>2. InFlightTo(c) = {}
      BY <3>1, MessageCount
    <3> QED
      BY <3>2 DEF InFlightTo
  <2> QED
    BY <2>1, <2>2
<1>7. ASSUME NEW m \in Messages
      PROVE  /\ msgState[m] = "parked" /\ msgTo[m] \in ids =>
                  msgState'[m] = "replied" /\ msgReply'[m] = "not_active"
             /\ ~(msgState[m] = "parked" /\ msgTo[m] \in ids) =>
                  msgState'[m] = msgState[m] /\ msgReply'[m] = msgReply[m]
  BY <1>1, <1>6 DEF RejectSpawnReady
<1> HIDE DEF ids
<1>8. ASSUME NEW m \in Messages PROVE Told(m)'
  <2>1. Told(m)
    BY MessageInvParts
  <2>2. msgState[m] = "inflight" => msgTo[m] \in active \ ids
    BY <1>4, <1>6, <2>1 DEF Told, ids
  <2> QED
    BY <1>1, <1>3, <1>7, <2>1, <2>2 DEF Told, OwnedSpawning
<1>9. InFlightCounted' /\ PermitsCounted'
  BY <1>1, <1>7, SameCounts, MessageInvParts DEF Occupied
<1> QED
  BY <1>5, <1>8, <1>9, MessageInvNext

-----------------------------------------------------------------------------
(***************************************************************************)
(* The steps of a message.                                                 *)
(***************************************************************************)

\* A permit and an admission come back with the future that held them.
LEMMA FutureReturnsBoth ==
  ASSUME MessageInv, NEW m \in Messages, NEW c \in Children,
         msgState[m] = "inflight", msgTo[m] = c, msgState'[m] = "replied",
         msgTo' = msgTo, permits' = permits + 1, FinishAdmission(c),
         \A n \in Messages \ {m} : /\ msgState'[n] = "inflight" <=> msgState[n] = "inflight"
                                   /\ n \in Occupied' <=> n \in Occupied
  PROVE  /\ InFlightCounted' /\ PermitsCounted'
         /\ permits' \in 0..MaxPermits /\ inFlight' \in [Children -> Nat]
<1>1. MessageTypes /\ MaxPermits \in Nat
  BY BoundsAssumption DEF MessageInv
<1>2. /\ Occupied \in SUBSET Messages /\ m \in Occupied /\ Occupied' = Occupied \ {m}
  BY DEF Occupied
<1>3. Cardinality(Occupied') = Cardinality(Occupied) - 1 /\ Cardinality(Occupied) \in Nat
      /\ Cardinality(Occupied) # 0
  <2>1. Cardinality(Occupied') = Cardinality(Occupied \ {m})
    BY <1>2, Zenon
  <2> QED
    BY <1>2, <2>1, MessageCount
<1>4. permits + Cardinality(Occupied) = MaxPermits
  BY MessageInvParts DEF PermitsCounted
<1>5. PermitsCounted' /\ permits' \in 0..MaxPermits
  BY <1>1, <1>3, <1>4 DEF PermitsCounted, MessageTypes
<1>6. /\ \A d : InFlightTo(d) \in SUBSET Messages
      /\ m \in InFlightTo(c) /\ InFlightTo(c)' = InFlightTo(c) \ {m}
      /\ \A d \in Children \ {c} : InFlightTo(d)' = InFlightTo(d)
  BY DEF InFlightTo
<1>7. /\ Cardinality(InFlightTo(c))' = Cardinality(InFlightTo(c)) - 1
      /\ Cardinality(InFlightTo(c)) \in Nat /\ Cardinality(InFlightTo(c)) # 0
  <2>1. Cardinality(InFlightTo(c))' = Cardinality(InFlightTo(c) \ {m})
    BY <1>6, Zenon
  <2>2. InFlightTo(c) # {}
    BY <1>6
  <2> QED
    BY <1>6, <2>1, <2>2, MessageCount
<1>8. inFlight'[c] = inFlight[c] - 1 /\ \A d \in Children \ {c} : inFlight'[d] = inFlight[d]
  BY <1>1 DEF FinishAdmission, MessageTypes
<1>9. inFlight' \in [Children -> Nat]
  <2>1. inFlight[c] - 1 \in Nat
    BY <1>7 DEF MessageInv, InFlightCounted
  <2> QED
    BY <1>1, <2>1 DEF FinishAdmission, MessageTypes
<1>10. ASSUME NEW d \in Children PROVE inFlight'[d] = Cardinality(InFlightTo(d))'
  <2>1. CASE d = c
    BY <1>7, <1>8, <2>1 DEF MessageInv, InFlightCounted
  <2>2. CASE d # c
    <3>1. Cardinality(InFlightTo(d))' = Cardinality(InFlightTo(d))
      BY <1>6, <2>2, Zenon
    <3> QED
      BY <1>8, <2>2, <3>1 DEF MessageInv, InFlightCounted
  <2> QED
    BY <2>1, <2>2
<1> QED
  BY <1>5, <1>9, <1>10 DEF InFlightCounted

\* protocol_outcome_from_completion: what each kind of completion tells.
LEMMA OutcomeTold ==
  ASSUME NEW how \in Ready, NEW settled \in BOOLEAN
  PROVE  /\ ~settled => ProtocolOutcome(how, settled) = "uncertain"
         /\ settled /\ how = "admitted" => ProtocolOutcome(how, settled) = "accepted"
         /\ settled /\ how # "admitted" =>
              ProtocolOutcome(how, settled)
                \in {"not_active", "unsupported", "closed", "not_before_deadline"}
<1>1. ~settled => ProtocolOutcome(how, settled) = "uncertain"
  BY DEF ProtocolOutcome
<1>2. settled /\ how = "admitted" => ProtocolOutcome(how, settled) = "accepted"
  BY DEF ProtocolOutcome
<1>3. settled /\ how = "rejected" => ProtocolOutcome(how, settled) = "not_active"
  BY DEF ProtocolOutcome
<1>4. settled /\ how = "unsupported" => ProtocolOutcome(how, settled) = "unsupported"
  BY DEF ProtocolOutcome
<1>5. settled /\ how = "channel_closed" => ProtocolOutcome(how, settled) = "closed"
  BY DEF ProtocolOutcome
<1>6. settled /\ how \in {"cancelled", "deadline"} =>
        ProtocolOutcome(how, settled) = "not_before_deadline"
  BY DEF ProtocolOutcome
<1> QED
  BY <1>1, <1>2, <1>3, <1>4, <1>5, <1>6 DEF Ready

\* settle and revoke: a definite answer leaves no lease the host could still
\* insert under, whatever the host did in the meantime.
LEMMA SettledTold ==
  ASSUME MessageInv, NEW m \in Messages, NEW how \in Ready, msgState[m] = "inflight",
         SettleFuture(m, how), msgState'[m] = "replied",
         msgReply'[m] = ProtocolOutcome(how, Settles(m, how))
  PROVE  /\ Told(m)'
         /\ lease' \in [Messages -> {"none", "open", "claimed", "committed", "revoked"}]
         /\ lease'[m] = "claimed" => ~Settles(m, how)
         /\ lease'[m] # "open"
         /\ \A n \in Messages \ {m} : lease'[n] = lease[n]
         /\ msgReply'[m] \in {"uncertain", "accepted", "not_active", "unsupported", "closed",
                              "not_before_deadline"}
<1>1. /\ lease \in [Messages -> {"none", "open", "claimed", "committed", "revoked"}]
      /\ lease[m] \in {"open", "claimed", "committed"}
  BY MessageInvParts DEF MessageTypes, Told
<1>2. /\ lease' \in [Messages -> {"none", "open", "claimed", "committed", "revoked"}]
      /\ lease'[m] = IF lease[m] = "open" THEN "revoked" ELSE lease[m]
      /\ \A n \in Messages \ {m} : lease'[n] = lease[n]
  BY <1>1 DEF SettleFuture
<1>3. PICK settled \in BOOLEAN : settled <=> Settles(m, how)
  OBVIOUS
<1>4. Settles(m, how) \in BOOLEAN
  <2>1. (lease[m] = "committed") \in BOOLEAN /\ (lease[m] \in {"open", "revoked"}) \in BOOLEAN
    OBVIOUS
  <2> QED
    BY <2>1, Zenon DEF Settles
<1>5. settled = Settles(m, how)
  BY <1>3, <1>4
<1>6. msgReply'[m] = ProtocolOutcome(how, settled)
  BY <1>5, Zenon
<1>7. /\ ~settled => msgReply'[m] = "uncertain"
      /\ settled /\ how = "admitted" => msgReply'[m] = "accepted"
      /\ settled /\ how # "admitted" =>
           msgReply'[m] \in {"not_active", "unsupported", "closed", "not_before_deadline"}
  BY <1>6, OutcomeTold
<1>8. /\ settled /\ how = "admitted" => lease[m] = "committed"
      /\ settled /\ how # "admitted" => lease[m] = "open"
  BY <1>1, <1>3 DEF Settles
<1> QED
  BY <1>1, <1>2, <1>3, <1>7, <1>8 DEF Told

\* finish_active_message that leaves the child as it is.
LEMMA FinishActiveKeeps ==
  ASSUME MessageInv, NEW m \in Messages, NEW how \in Ready, FinishActiveMessage(m, how)
  PROVE  MessageInv'
<1> DEFINE c == msgTo[m]
<1>1. /\ msgState[m] = "inflight" /\ SettleFuture(m, how) /\ FinishAdmission(c)
      /\ msgState' = [msgState EXCEPT ![m] = "replied"]
      /\ msgReply' = [msgReply EXCEPT ![m] = ProtocolOutcome(how, Settles(m, how))]
      /\ UNCHANGED <<active, pending, queued, req, msgTo, msgFrom>>
  BY DEF FinishActiveMessage, Reply, registry, records
<1>2. MessageTypes /\ c \in Children
  BY DEF MessageInv, MessageTypes
<1>3. /\ msgState'[m] = "replied" /\ msgReply'[m] = ProtocolOutcome(how, Settles(m, how))
      /\ \A n \in Messages \ {m} : msgState'[n] = msgState[n] /\ msgReply'[n] = msgReply[n]
  BY <1>1, <1>2 DEF MessageTypes
<1>4. /\ Told(m)' /\ \A n \in Messages \ {m} : lease'[n] = lease[n]
      /\ lease' \in [Messages -> {"none", "open", "claimed", "committed", "revoked"}]
      /\ msgReply'[m] \in {"uncertain", "accepted", "not_active", "unsupported", "closed",
                           "not_before_deadline"}
  BY <1>1, <1>3, SettledTold
<1>5. permits' = permits + 1
  BY <1>1 DEF SettleFuture
<1> HIDE DEF c
<1>6. /\ InFlightCounted' /\ PermitsCounted'
      /\ permits' \in 0..MaxPermits /\ inFlight' \in [Children -> Nat]
  BY <1>1, <1>2, <1>3, <1>5, FutureReturnsBoth DEF Occupied, c
<1>7. MessageTypes'
  BY <1>1, <1>2, <1>3, <1>4, <1>6 DEF MessageTypes
<1>8. ASSUME NEW n \in Messages PROVE Told(n)'
  <2>1. Told(n)
    BY MessageInvParts
  <2> QED
    BY <1>1, <1>3, <1>4, <2>1 DEF Told, OwnedSpawning
<1> QED
  BY <1>6, <1>7, <1>8, MessageInvNext

\* finish_active_message of the last message a buffered output waited for: the
\* child leaves the active table with no other future in flight.
LEMMA FinishLastKeeps ==
  ASSUME RegistryInv, MessageInv, NEW m \in Messages, NEW how \in Ready,
         FinishLastActiveMessage(m, how)
  PROVE  MessageInv'
<1> DEFINE c == msgTo[m]
           ids == {c} \cup CancelledQueued
           freed == {n \in Messages : msgState[n] = "parked" /\ msgTo[n] \in ids}
<1>1. /\ msgState[m] = "inflight" /\ SettleFuture(m, how) /\ FinishAdmission(c)
      /\ inFlight[c] = 1
      /\ msgState' = [n \in Messages |-> IF n = m \/ n \in freed THEN "replied" ELSE msgState[n]]
      /\ msgReply' = [n \in Messages |-> IF n = m THEN ProtocolOutcome(how, Settles(m, how))
                                         ELSE IF n \in freed THEN "not_active" ELSE msgReply[n]]
      /\ UNCHANGED <<msgTo, msgFrom, req>>
  BY DEF FinishLastActiveMessage, FinishTerminalizedChild
<1>2. \E o : FinishChild({c}, CancelledQueued, o, Now)
  BY Zenon DEF FinishLastActiveMessage, FinishTerminalizedChild
<1>3. active' = active \ ids /\ pending' \cup queued' = (pending \cup queued) \ ids
  BY <1>2, FinishTables
<1>4. MessageTypes /\ c \in Children /\ CancelledQueued \cap active = {}
  BY DEF MessageInv, MessageTypes, RegistryInv, RegistryConsistent, CancelledQueued
<1>5. m \notin freed
  BY <1>1
<1>6. /\ msgState'[m] = "replied" /\ msgReply'[m] = ProtocolOutcome(how, Settles(m, how))
      /\ \A n \in freed : msgState'[n] = "replied" /\ msgReply'[n] = "not_active"
      /\ \A n \in Messages : n # m /\ n \notin freed =>
           msgState'[n] = msgState[n] /\ msgReply'[n] = msgReply[n]
  BY <1>1, <1>5
<1>7. /\ Told(m)' /\ \A n \in Messages \ {m} : lease'[n] = lease[n]
      /\ lease' \in [Messages -> {"none", "open", "claimed", "committed", "revoked"}]
      /\ msgReply'[m] \in {"uncertain", "accepted", "not_active", "unsupported", "closed",
                           "not_before_deadline"}
  BY <1>1, <1>6, SettledTold
<1>8. permits' = permits + 1
  BY <1>1 DEF SettleFuture
<1>9. \A n \in Messages : msgState[n] = "inflight" /\ msgTo[n] = c => n = m
  <2>1. /\ Cardinality(InFlightTo(c)) = 1 /\ InFlightTo(c) \in SUBSET Messages
        /\ m \in InFlightTo(c)
    BY <1>1, <1>4 DEF MessageInv, InFlightCounted, InFlightTo
  <2>2. Cardinality(InFlightTo(c) \ {m}) = 0 /\ InFlightTo(c) \ {m} \in SUBSET Messages
    BY <2>1, MessageCount
  <2>3. InFlightTo(c) \ {m} = {}
    BY <2>2, MessageCount
  <2> QED
    BY <2>3 DEF InFlightTo
<1> HIDE DEF c
<1>10. \A n \in Messages \ {m} : /\ msgState'[n] = "inflight" <=> msgState[n] = "inflight"
                                 /\ n \in Occupied' <=> n \in Occupied
  BY <1>6 DEF Occupied
<1>11. /\ InFlightCounted' /\ PermitsCounted'
       /\ permits' \in 0..MaxPermits /\ inFlight' \in [Children -> Nat]
  BY <1>1, <1>4, <1>6, <1>8, <1>10, FutureReturnsBoth DEF c
<1>12. MessageTypes'
  <2>1. /\ msgState' \in [Messages -> {"idle", "ingress", "parked", "inflight", "lost", "replied"}]
        /\ msgTo' = msgTo /\ msgFrom' = msgFrom
    BY <1>1, <1>4 DEF MessageTypes
  <2>2. msgReply' \in [Messages -> {"none", "accepted", "not_found", "not_active", "saturated",
                                    "uncertain", "not_before_deadline", "unsupported", "closed"}]
    BY <1>1, <1>4, <1>6, <1>7 DEF MessageTypes
  <2> QED
    BY <1>4, <1>7, <1>11, <2>1, <2>2 DEF MessageTypes
<1>13. ASSUME NEW n \in Messages PROVE Told(n)'
  <2>1. Told(n)
    BY MessageInvParts
  <2>2. CASE n = m
    BY <1>7, <2>2
  <2>3. CASE n \in freed
    BY <1>5, <1>6, <1>7, <2>1, <2>3 DEF Told
  <2>4. CASE n # m /\ n \notin freed
    <3>1. msgState[n] = "inflight" => msgTo[n] \in active \ ids
      BY <1>4, <1>9, <2>1, <2>4 DEF Told
    <3>2. msgState[n] = "parked" => msgTo[n] \notin ids
      BY <2>4
    <3> HIDE DEF ids
    <3> QED
      BY <1>1, <1>3, <1>6, <1>7, <2>1, <2>4, <3>1, <3>2 DEF Told, OwnedSpawning
  <2> QED
    BY <2>2, <2>3, <2>4
<1> QED
  BY <1>11, <1>12, <1>13, MessageInvNext

\* A reply to a parked message, on its deadline.
LEMMA ExpiryKeeps ==
  ASSUME MessageInv, NEW m \in Messages, SpawnReadyExpires(m)
  PROVE  MessageInv'
<1>1. /\ msgState[m] = "parked"
      /\ msgState' = [msgState EXCEPT ![m] = "replied"]
      /\ msgReply' = [msgReply EXCEPT ![m] = "not_before_deadline"]
      /\ UNCHANGED <<active, pending, queued, req, msgTo, msgFrom, lease, permits, inFlight>>
  BY DEF SpawnReadyExpires, Reply, registry, records, lanes
<1>2. MessageTypes /\ MessageTypes'
  BY <1>1 DEF MessageInv, MessageTypes
<1>3. /\ msgState'[m] = "replied" /\ msgReply'[m] = "not_before_deadline"
      /\ \A n \in Messages \ {m} : msgState'[n] = msgState[n] /\ msgReply'[n] = msgReply[n]
  BY <1>1, <1>2 DEF MessageTypes
<1>4. ASSUME NEW n \in Messages PROVE Told(n)'
  <2>1. Told(n)
    BY MessageInvParts
  <2> QED
    BY <1>1, <1>3, <2>1 DEF Told, OwnedSpawning
<1>5. InFlightCounted' /\ PermitsCounted'
  BY <1>1, <1>3, SameCounts, MessageInvParts DEF Occupied
<1> QED
  BY <1>2, <1>4, <1>5, MessageInvNext

\* The host's compare-exchange and store run under a lease that is in flight,
\* or already answered as uncertain.
LEMMA HostKeeps ==
  ASSUME MessageInv, NEW m \in Messages, HostClaims(m) \/ HostCommits(m)
  PROVE  MessageInv'
<1>1. /\ \/ lease[m] = "open" /\ lease' = [lease EXCEPT ![m] = "claimed"]
         \/ lease[m] = "claimed" /\ lease' = [lease EXCEPT ![m] = "committed"]
      /\ UNCHANGED <<active, pending, queued, req, msgState, msgReply, msgTo, msgFrom,
                     permits, inFlight>>
  BY DEF HostClaims, HostCommits, registry, records, lanes
<1>2. MessageTypes /\ MessageTypes'
  BY <1>1 DEF MessageInv, MessageTypes
<1>3. /\ \/ lease[m] = "open" /\ lease'[m] = "claimed"
         \/ lease[m] = "claimed" /\ lease'[m] = "committed"
      /\ \A n \in Messages \ {m} : lease'[n] = lease[n]
  BY <1>1, <1>2 DEF MessageTypes
<1>4. ASSUME NEW n \in Messages PROVE Told(n)'
  <2>1. Told(n)
    BY MessageInvParts
  <2> QED
    BY <1>1, <1>2, <1>3, <2>1 DEF Told, OwnedSpawning, MessageTypes
<1>5. InFlightCounted' /\ PermitsCounted'
  BY <1>1, SameCounts, MessageInvParts DEF Occupied
<1> QED
  BY <1>2, <1>4, <1>5, MessageInvNext

\* A message that is not in flight takes one permit, or gives its own back.
LEMMA OnePermit ==
  ASSUME MessageInv, NEW m \in Messages, permits' \in Nat,
         \A n \in Messages \ {m} : msgState'[n] = msgState[n] /\ msgTo'[n] = msgTo[n],
         msgState[m] # "inflight", msgState'[m] # "inflight",
         \/ m \notin Occupied /\ m \in Occupied' /\ permits' = permits - 1
         \/ m \in Occupied /\ m \notin Occupied' /\ permits' = permits + 1
         \/ (m \in Occupied <=> m \in Occupied') /\ permits' = permits,
         inFlight' = inFlight
  PROVE  InFlightCounted' /\ PermitsCounted' /\ permits' \in 0..MaxPermits
<1>1. /\ Occupied \in SUBSET Messages /\ Occupied' \in SUBSET Messages
      /\ \A n \in Messages \ {m} : n \in Occupied' <=> n \in Occupied
  BY DEF Occupied
<1>2. permits + Cardinality(Occupied) = MaxPermits /\ permits \in Nat /\ MaxPermits \in Nat
  BY MessageInvParts, BoundsAssumption DEF PermitsCounted, MessageTypes
<1>3. permits' + Cardinality(Occupied') = MaxPermits /\ Cardinality(Occupied') \in Nat
  <2>0. PICK B : B = Occupied'
    OBVIOUS
  <2>1. B \in SUBSET Messages
    BY <1>1, <2>0
  <2>2. CASE m \notin Occupied /\ m \in Occupied' /\ permits' = permits - 1
    <3>1. B = Occupied \cup {m}
      BY <1>1, <2>0, <2>2
    <3> QED
      BY <1>1, <1>2, <2>0, <2>1, <2>2, <3>1, MessageCount
  <2>3. CASE m \in Occupied /\ m \notin Occupied' /\ permits' = permits + 1
    <3>1. B = Occupied \ {m}
      BY <1>1, <2>0, <2>3
    <3> QED
      BY <1>1, <1>2, <2>0, <2>1, <2>3, <3>1, MessageCount
  <2>4. CASE (m \in Occupied <=> m \in Occupied') /\ permits' = permits
    <3>0. \A n \in Messages : n \in B <=> n \in Occupied
      BY <1>1, <2>0, <2>4
    <3>1. B = Occupied
      BY <1>1, <2>1, <3>0
    <3> QED
      BY <1>1, <1>2, <2>0, <2>1, <2>4, <3>1, MessageCount
  <2> QED
    BY <2>2, <2>3, <2>4
<1>4. \A c : InFlightTo(c)' = InFlightTo(c)
  BY DEF InFlightTo
<1>5. \A c : Cardinality(InFlightTo(c))' = Cardinality(InFlightTo(c))
  BY <1>4, Zenon
<1>6. InFlightCounted'
  BY <1>5 DEF MessageInv, InFlightCounted
<1>7. permits' \in 0..MaxPermits
  BY <1>2, <1>3
<1> QED
  BY <1>3, <1>6, <1>7 DEF PermitsCounted

\* send_active_message: a permit is taken before the send, or the sender is told.
LEMMA SendKeeps ==
  ASSUME MessageInv, NEW m \in Messages, NEW c \in Children, NEW from \in HostSessions,
         SendActiveMessage(m, c, from)
  PROVE  MessageInv'
<1>1. /\ msgState[m] = "idle"
      /\ msgTo' = [msgTo EXCEPT ![m] = c] /\ msgFrom' = [msgFrom EXCEPT ![m] = from]
      /\ UNCHANGED <<active, pending, queued, req, lease, inFlight>>
      /\ \/ /\ msgState' = [msgState EXCEPT ![m] = "ingress"]
            /\ permits > 0 /\ permits' = permits - 1 /\ msgReply' = msgReply
         \/ /\ msgState' = [msgState EXCEPT ![m] = "replied"] /\ permits' = permits
            /\ \E o \in {"saturated", "closed"} : msgReply' = [msgReply EXCEPT ![m] = o]
  BY DEF SendActiveMessage, Reply, registry, records, lanes
<1>2. MessageTypes /\ from \in Owners
  BY HostSessionsAssumption DEF MessageInv
<1>3. permits \in Nat /\ permits' \in Nat
  BY <1>1, <1>2 DEF MessageTypes
<1>4. /\ \/ /\ msgState'[m] = "ingress" /\ permits' = permits - 1 /\ msgReply' = msgReply
         \/ /\ msgState'[m] = "replied" /\ permits' = permits
            /\ msgReply'[m] \in {"saturated", "closed"}
      /\ \A n \in Messages \ {m} : /\ msgState'[n] = msgState[n] /\ msgReply'[n] = msgReply[n]
                                   /\ msgTo'[n] = msgTo[n] /\ msgFrom'[n] = msgFrom[n]
  BY <1>1, <1>2 DEF MessageTypes
<1>5. InFlightCounted' /\ PermitsCounted' /\ permits' \in 0..MaxPermits
  <2>1. /\ msgState[m] # "inflight" /\ msgState'[m] # "inflight" /\ inFlight' = inFlight
        /\ \/ m \notin Occupied /\ m \in Occupied' /\ permits' = permits - 1
           \/ m \in Occupied /\ m \notin Occupied' /\ permits' = permits + 1
           \/ (m \in Occupied <=> m \in Occupied') /\ permits' = permits
    BY <1>1, <1>4 DEF Occupied
  <2> QED
    BY <1>3, <1>4, <2>1, OnePermit
<1>6. MessageTypes'
  BY <1>1, <1>2, <1>5 DEF MessageTypes
<1>7. ASSUME NEW n \in Messages PROVE Told(n)'
  <2>1. Told(n)
    BY MessageInvParts
  <2> QED
    BY <1>1, <1>4, <2>1 DEF Told, OwnedSpawning
<1> QED
  BY <1>5, <1>6, <1>7, MessageInvNext

\* handle_send_active_message admits only to an active child, and parks only on
\* a child of the sender that is on its way.
LEMMA RoutedWay ==
  ASSUME NEW m
  PROVE  /\ Routed(m) \in {"inflight", "parked", "not_found", "not_active", "saturated"}
         /\ Routed(m) = "inflight" => msgTo[m] \in active /\ phase[msgTo[m]] # "finalizing"
         /\ Routed(m) = "parked" => OwnedSpawning(m)
BY DEF Routed

\* The coordinator's handling of a send, admitted or refused, keeps MessageInv.
LEMMA HandleKeeps ==
  ASSUME MessageInv, NEW m \in Messages, HandleSendActiveMessage(m)
  PROVE  MessageInv'
<1>0. PICK c \in Children : c = msgTo[m]
  BY DEF MessageInv, MessageTypes
<1>1. /\ msgState[m] = "ingress"
      /\ UNCHANGED <<active, pending, queued, req, msgTo, msgFrom>>
  BY DEF HandleSendActiveMessage, registry, records
<1>2. MessageTypes /\ permits + 1 \in Nat /\ permits \in Nat
  BY DEF MessageInv, MessageTypes
<1>3. \A n \in Messages : Told(n)
  BY MessageInvParts
<1>4. CASE /\ Routed(m) = "inflight"
           /\ msgState' = [msgState EXCEPT ![m] = "inflight"]
           /\ lease' = [lease EXCEPT ![m] = "open"]
           /\ inFlight' = [inFlight EXCEPT ![c] = @ + 1]
           /\ UNCHANGED <<msgReply, permits>>
  <2>1. /\ msgState'[m] = "inflight" /\ lease'[m] = "open"
        /\ inFlight'[c] = inFlight[c] + 1
        /\ \A n \in Messages \ {m} : msgState'[n] = msgState[n] /\ lease'[n] = lease[n]
        /\ \A d \in Children \ {c} : inFlight'[d] = inFlight[d]
    BY <1>2, <1>4 DEF MessageTypes
  <2>2. c \in active
    BY <1>0, <1>4, RoutedWay
  <2>3. MessageTypes'
    BY <1>1, <1>2, <1>4 DEF MessageTypes
  <2>4. \A n \in Messages : Told(n)'
    BY <1>0, <1>1, <1>3, <1>4, <2>1, <2>2 DEF Told, OwnedSpawning
  <2>5. Occupied' = Occupied
    BY <1>1, <2>1 DEF Occupied
  <2>6. PermitsCounted'
    <3>1. Cardinality(Occupied)' = Cardinality(Occupied)
      BY <2>5, Zenon
    <3> QED
      BY <1>4, <3>1, MessageInvParts DEF PermitsCounted
  <2>7. /\ InFlightTo(c)' = InFlightTo(c) \cup {m} /\ m \notin InFlightTo(c)
        /\ InFlightTo(c) \in SUBSET Messages
        /\ \A d \in Children \ {c} : InFlightTo(d)' = InFlightTo(d)
    BY <1>0, <1>1, <2>1 DEF InFlightTo
  <2>8. Cardinality(InFlightTo(c))' = Cardinality(InFlightTo(c)) + 1
    <3>1. Cardinality(InFlightTo(c))' = Cardinality(InFlightTo(c) \cup {m})
      BY <2>7, Zenon
    <3> QED
      BY <2>7, <3>1, MessageCount
  <2>9. ASSUME NEW d \in Children PROVE inFlight'[d] = Cardinality(InFlightTo(d))'
    <3>1. CASE d = c
      BY <2>1, <2>8, <3>1 DEF MessageInv, InFlightCounted
    <3>2. CASE d # c
      <4>1. Cardinality(InFlightTo(d))' = Cardinality(InFlightTo(d))
        BY <2>7, <3>2, Zenon
      <4> QED
        BY <2>1, <3>2, <4>1 DEF MessageInv, InFlightCounted
    <3> QED
      BY <3>1, <3>2
  <2> QED
    BY <2>3, <2>4, <2>6, <2>9, MessageInvNext DEF InFlightCounted
<1>5. CASE /\ permits' = permits + 1 /\ UNCHANGED <<lease, inFlight>>
           /\ \/ /\ Routed(m) = "parked" /\ msgReply' = msgReply
                 /\ msgState' = [msgState EXCEPT ![m] = "parked"]
              \/ /\ Routed(m) \in {"not_found", "not_active", "saturated"}
                 /\ Reply(m, Routed(m))
  <2>1. /\ \/ msgState'[m] = "parked" /\ OwnedSpawning(m) /\ msgReply'[m] = msgReply[m]
           \/ /\ msgState'[m] = "replied"
              /\ msgReply'[m] \in {"not_found", "not_active", "saturated"}
        /\ \A n \in Messages \ {m} : msgState'[n] = msgState[n] /\ msgReply'[n] = msgReply[n]
    BY <1>2, <1>5, RoutedWay DEF MessageTypes, Reply
  <2>2. InFlightCounted' /\ PermitsCounted' /\ permits' \in 0..MaxPermits
    <3>1. /\ msgState[m] # "inflight" /\ msgState'[m] # "inflight" /\ inFlight' = inFlight
          /\ m \in Occupied /\ m \notin Occupied' /\ permits' = permits + 1 /\ permits' \in Nat
          /\ \A n \in Messages \ {m} : msgState'[n] = msgState[n] /\ msgTo'[n] = msgTo[n]
      BY <1>1, <1>2, <1>5, <2>1 DEF Occupied
    <3> QED
      BY <3>1, OnePermit
  <2>3. MessageTypes'
    BY <1>1, <1>2, <1>5, <2>2 DEF MessageTypes, Reply
  <2>4. \A n \in Messages : Told(n)'
    BY <1>1, <1>3, <1>5, <2>1 DEF Told, OwnedSpawning
  <2> QED
    BY <2>2, <2>3, <2>4, MessageInvNext
<1> QED
  BY <1>0, <1>4, <1>5, RoutedWay DEF HandleSendActiveMessage

\* Drop for SubagentCoordinator: every open message is answered, and with
\* certainty only where the host holds no claim.
LEMMA DropKeeps ==
  ASSUME MessageInv, NEW how, DropCoordinator(how)
  PROVE  MessageInv'
<1> DEFINE open == {m \in Messages : msgState[m] \in {"ingress", "parked", "inflight", "lost"}}
<1>1. /\ msgState' = [m \in Messages |-> IF m \in open THEN "replied" ELSE msgState[m]]
      /\ msgReply' = [m \in Messages |->
                        IF m \notin open THEN msgReply[m]
                        ELSE IF lease[m] \in {"claimed", "committed"} THEN "uncertain"
                        ELSE "closed"]
      /\ lease' = [m \in Messages |->
                     IF m \in open /\ lease[m] = "open" THEN "revoked" ELSE lease[m]]
      /\ permits' = MaxPermits /\ inFlight' = [c \in Children |-> 0]
      /\ UNCHANGED <<msgTo, msgFrom>>
  BY DEF DropCoordinator
<1>2. MessageTypes /\ MaxPermits \in Nat
  BY BoundsAssumption DEF MessageInv
<1>3. MessageTypes'
  <2>1. permits' \in 0..MaxPermits /\ inFlight' \in [Children -> Nat]
    BY <1>1, <1>2
  <2> QED
    BY <1>1, <1>2, <2>1 DEF MessageTypes
<1>4. ASSUME NEW m \in Messages PROVE Told(m)'
  <2>1. Told(m)
    BY MessageInvParts
  <2>2. CASE m \in open
    BY <1>1, <1>2, <2>1, <2>2 DEF Told, MessageTypes
  <2>3. CASE m \notin open
    BY <1>1, <1>2, <2>1, <2>3 DEF Told, MessageTypes
  <2> QED
    BY <2>2, <2>3
<1>5. Occupied' = {} /\ \A c : InFlightTo(c)' = {}
  BY <1>1, <1>2 DEF Occupied, InFlightTo, MessageTypes
<1>6. Cardinality(Occupied)' = 0 /\ \A c : Cardinality(InFlightTo(c))' = 0
  BY <1>5, FS_EmptySet, Zenon
<1>7. InFlightCounted' /\ PermitsCounted'
  BY <1>1, <1>2, <1>6 DEF InFlightCounted, PermitsCounted
<1> QED
  BY <1>3, <1>4, <1>7, MessageInvNext

-----------------------------------------------------------------------------
(***************************************************************************)
(* What a turn may do to the messages.                                     *)
(***************************************************************************)
runner == <<phase, clean, fin, actor>>

ChildTurn(c) ==
  \/ \E background \in BOOLEAN : Started(c, background)
  \/ \E out \in Outcomes : RunReturns(c, out)
  \/ Finalizing(c)
  \/ \E out \in Outcomes : RunBuffered(c, out)

SendTurn(m) ==
  \/ \E c \in Children, from \in HostSessions : SendActiveMessage(m, c, from)
  \/ HandleSendActiveMessage(m)
  \/ HostClaims(m) \/ HostCommits(m)
  \/ \E how \in Ready : FinishActiveMessage(m, how) \/ FinishLastActiveMessage(m, how)
  \/ SpawnReadyExpires(m)

MessageTurn ==
  \/ Unmessaged /\ UNCHANGED runner
  \/ Rejecting /\ UNCHANGED runner
  \/ \E c \in Children : ChildTurn(c)
  \/ \E m \in Messages : SendTurn(m)
  \/ \E how \in {"exited", "dropped"} : DropCoordinator(how)

\* A spawn leaves every recorded child and every message alone.
LEMMA SpawnUnmessaged ==
  ASSUME RegistryInv, NEW c \in Children, NEW r \in Requests, HandleSpawn(c, r)
  PROVE  Unmessaged /\ UNCHANGED runner
<1>1. /\ Register(c, Reparented(r)) /\ c \notin Live
      /\ UNCHANGED <<msgState, msgTo, msgFrom, msgReply, lease, permits, inFlight, runner>>
  BY DEF HandleSpawn, SpawnStarts, SpawnEnqueues, SpawnFails, SpawnAccepted, lanes, msgs,
         ends, runner
<1>2. \A d \in pending \cup queued : req'[d] = req[d]
  BY <1>1, ReparentedIsRequest, RegisterReq DEF RegistryInv, RegistryTypeOK, Live
<1>3. active' = active /\ pending \cup queued \subseteq pending' \cup queued'
  <2>1. CASE SpawnStarts(c, r) \/ SpawnEnqueues(c, r)
    BY <2>1 DEF SpawnStarts, SpawnEnqueues
  <2>2. CASE SpawnFails(c, r)
    <3>1. \E out, t : FinishChild({}, {c}, out, t)
      BY <2>2, Zenon DEF SpawnFails
    <3> QED
      BY <1>1, <3>1, FinishTables DEF Live
  <2> QED
    BY <2>1, <2>2 DEF HandleSpawn
<1> QED
  BY <1>1, <1>2, <1>3 DEF Unmessaged

\* A cancel command answers the messages of the queued children it removes.
LEMMA CancelRejects ==
  ASSUME RegistryInv, NEW sel, NEW t, CancelChildren(sel, t)
  PROVE  Rejecting /\ UNCHANGED runner
<1>1. /\ RejectSpawnReady(sel \ active, {}) /\ FinishChild({}, sel \cap queued, AllCancelled, t)
      /\ UNCHANGED <<msgTo, msgFrom, lease, permits, inFlight, req, runner>>
  BY DEF CancelChildren, lanes, ends, runner
<1>2. /\ active' = active \ ({} \cup (sel \cap queued))
      /\ pending' \cup queued' = (pending \cup queued) \ ({} \cup (sel \cap queued))
  BY <1>1, FinishTables
<1>3. active' = active /\ (pending \cup queued) \ (sel \ active) \subseteq pending' \cup queued'
  BY <1>2 DEF RegistryInv, RegistryConsistent
<1> QED
  BY <1>1, <1>3 DEF Rejecting

\* A command does one of MessageTurn's things to the messages.
LEMMA CommandMessages == RegistryInv /\ Commands => MessageTurn
<1> SUFFICES ASSUME RegistryInv, Commands PROVE MessageTurn
  OBVIOUS
<1>1. CASE \E c \in Children, r \in Requests : HandleSpawn(c, r)
  BY <1>1, SpawnUnmessaged DEF MessageTurn
<1>2. CASE \E sel, t : CancelChildren(sel, t)
  BY <1>2, CancelRejects DEF MessageTurn
<1>3. CASE \/ \E c \in Children, s \in HostSessions \cup {AnySession} : CancelOne(c, s)
           \/ \E p \in Prompts, s \in HostSessions \cup {AnySession} : CancelParentPrompt(p, s)
           \/ \E s \in HostSessions : CancelParentSession(s)
           \/ \E s \in HostSessions : \E by \in {{}} \cup {{a} : a \in Askers} :
                TeardownSession(s, by)
  <2>1. \E sel, t : CancelChildren(sel, t)
    BY <1>3, Zenon DEF CancelOne, CancelParentPrompt, CancelParentSession, TeardownSession
  <2> QED
    BY <1>2, <2>1
<1>4. CASE \E r \in RunIds, s \in HostSessions \cup {AnySession}, a \in Askers :
             CancelWorkflow(r, s, a)
  <2>1. /\ UNCHANGED <<msgTo, msgFrom, lease, permits, inFlight, req, runner>>
        /\ active' = active /\ pending' = pending /\ queued' = queued
        /\ \E ids : RejectSpawnReady(ids, {})
    BY <1>4 DEF CancelWorkflow, registry, lanes, ends, runner
  <2> QED
    BY <2>1 DEF Rejecting, MessageTurn
<1>5. CASE \/ \E s \in HostSessions : OpenSpawnAdmission(s)
           \/ \E a \in Askers, c \in Children, block \in BOOLEAN : HandleQuery(a, c, block)
           \/ \E a \in Askers, scope \in Scopes : WaitPromptDrained(a, scope)
           \/ \E s \in HostSessions \cup {AnySession} : Completions(s)
  <2>1. UNCHANGED <<msgState, msgTo, msgFrom, msgReply, lease, permits, inFlight, runner,
                    active, pending, queued, req>>
    BY <1>5 DEF OpenSpawnAdmission, HandleQuery, WaitPromptDrained, Completions,
                registry, records, lanes, msgs, ends, runner
  <2> QED
    BY <2>1 DEF Unmessaged, MessageTurn
<1> QED
  BY <1>1, <1>3, <1>4, <1>5 DEF Commands

\* So does an event of a run ...
LEMMA RunMessages == RunEvents => MessageTurn
<1> SUFFICES ASSUME RunEvents PROVE MessageTurn
  OBVIOUS
<1>1. CASE \/ \E c \in Children, background \in BOOLEAN : Started(c, background)
           \/ \E c \in Children : Finalizing(c)
           \/ \E c \in Children, out \in Outcomes : RunReturns(c, out)
           \/ \E c \in Children, out \in Outcomes : RunBuffered(c, out)
  BY <1>1 DEF ChildTurn, MessageTurn
<1>2. CASE \E c \in Children : StartRefused(c)
  <2>1. /\ UNCHANGED <<msgTo, msgFrom, lease, permits, inFlight, req, runner>>
        /\ active' = active /\ pending' = pending /\ queued' = queued
        /\ \E ids : RejectSpawnReady(ids, {})
    BY <1>2 DEF StartRefused, registry, records, lanes, ends, runner
  <2> QED
    BY <2>1 DEF Rejecting, MessageTurn
<1>3. CASE \E a \in Askers, c \in Children : FinishProgress(a, c)
  <2>1. UNCHANGED <<msgState, msgTo, msgFrom, msgReply, lease, permits, inFlight, runner,
                    active, pending, queued, req>>
    BY <1>3 DEF FinishProgress, registry, records, lanes, msgs, ends, runner
  <2> QED
    BY <2>1 DEF Unmessaged, MessageTurn
<1> QED
  BY <1>1, <1>2, <1>3 DEF RunEvents

\* ... and every other step.
LEMMA OtherMessages ==
  RegistryInv /\ (MessageEvents \/ Environment \/ Timers \/ Ends) => MessageTurn
<1> SUFFICES ASSUME RegistryInv, MessageEvents \/ Environment \/ Timers \/ Ends
             PROVE  MessageTurn
  OBVIOUS
<1>1. CASE MessageEvents \/ \E m \in Messages : SpawnReadyExpires(m)
  <2>1. \E m \in Messages : SendTurn(m)
    BY <1>1 DEF MessageEvents, SendTurn
  <2> QED
    BY <2>1 DEF MessageTurn
<1>2. CASE \/ Environment \/ CloseChannels
           \/ \E c \in Children : BudgetExpires(c)
           \/ \E a \in Askers, c \in Children : QueryExpires(a, c)
           \/ \E s \in Owners : TeardownExpires(s)
  <2>1. UNCHANGED <<msgState, msgTo, msgFrom, msgReply, lease, permits, inFlight, runner,
                    active, pending, queued, req>>
    BY <1>2 DEF Environment, CallerDrops, AskerDrops, CancelToken, CloseChannels,
                BudgetExpires, QueryExpires, TeardownExpires,
                registry, records, lanes, msgs, ends, runner
  <2> QED
    BY <2>1 DEF Unmessaged, MessageTurn
<1>3. CASE Reap
  <2>1. /\ RejectSpawnReady(CancelledQueued, {})
        /\ UNCHANGED <<msgTo, msgFrom, lease, permits, inFlight, req, runner>>
    BY <1>3 DEF Reap, lanes, ends, runner
  <2>2. \E t : FinishChild(CancelledQueued, {}, AllCancelled, t)
    BY <1>3, Zenon DEF Reap
  <2>3. /\ active' = active \ (CancelledQueued \cup {})
        /\ pending' \cup queued' = (pending \cup queued) \ (CancelledQueued \cup {})
    BY <2>2, FinishTables
  <2>4. active' = active /\ (pending \cup queued) \ CancelledQueued \subseteq pending' \cup queued'
    BY <2>3 DEF RegistryInv, RegistryConsistent, CancelledQueued
  <2> QED
    BY <2>1, <2>4 DEF Rejecting, MessageTurn
<1>4. CASE ActorExits \/ ActorDropped
  BY <1>4 DEF ActorExits, ActorDropped, MessageTurn
<1> QED
  BY <1>1, <1>2, <1>3, <1>4 DEF Timers, Ends

\* Every step is one of those turns.
LEMMA EveryMessageTurn == RegistryInv /\ [Next]_vars => MessageTurn
<1>1. ASSUME RegistryInv, Next PROVE MessageTurn
  BY <1>1, CommandMessages, RunMessages, OtherMessages DEF Next
<1>2. ASSUME UNCHANGED vars PROVE MessageTurn
  BY <1>2 DEF vars, registry, records, lanes, msgs, ends, runner, Unmessaged, MessageTurn
<1> QED
  BY <1>1, <1>2

\* Each of those things keeps MessageInv.
LEMMA MessageTurnKeeps ==
  ASSUME RegistryInv, MessageInv, MessageTurn
  PROVE  MessageInv'
<1>1. CASE Unmessaged \/ Rejecting
  BY <1>1, UnmessagedKeeps, RejectingKeeps
<1>2. ASSUME NEW c \in Children, ChildTurn(c) PROVE MessageInv'
  <2>1. CASE \E background : Started(c, background)
    BY <2>1, StartedKeeps
  <2>2. CASE \E out \in Outcomes : RunReturns(c, out)
    BY <2>2, RunReturnsKeeps
  <2>3. CASE Finalizing(c) \/ \E out \in Outcomes : RunBuffered(c, out)
    <3>1. Unmessaged
      BY <2>3 DEF Finalizing, RunBuffered, registry, records, msgs, Unmessaged
    <3> QED
      BY <3>1, UnmessagedKeeps
  <2> QED
    BY <1>2, <2>1, <2>2, <2>3 DEF ChildTurn
<1>3. ASSUME NEW m \in Messages, SendTurn(m) PROVE MessageInv'
  BY <1>3, SendKeeps, HandleKeeps, HostKeeps, FinishActiveKeeps, FinishLastKeeps, ExpiryKeeps
     DEF SendTurn
<1>4. CASE \E how \in {"exited", "dropped"} : DropCoordinator(how)
  BY <1>4, DropKeeps
<1> QED
  BY <1>1, <1>2, <1>3, <1>4 DEF MessageTurn

\* Before the first send MessageInv holds.
LEMMA InitMessages == Init => MessageInv
<1> SUFFICES ASSUME Init PROVE MessageInv
  OBVIOUS
<1>1. /\ \A m \in Messages : msgState[m] = "idle" /\ msgReply[m] = "none" /\ lease[m] = "none"
      /\ permits = MaxPermits /\ MaxPermits \in Nat
      /\ inFlight = [c \in Children |-> 0]
  BY BoundsAssumption DEF Init
<1>2. MessageTypes
  <2>1. (CHOOSE c \in Children : TRUE) \in Children /\ (CHOOSE s \in Owners : TRUE) \in Owners
    BY ChildrenAssumption DEF Owners
  <2>2. msgTo \in [Messages -> Children] /\ msgFrom \in [Messages -> Owners]
    BY <2>1 DEF Init
  <2>3. permits \in 0..MaxPermits /\ inFlight \in [Children -> Nat]
    BY <1>1
  <2> QED
    BY <2>2, <2>3 DEF Init, MessageTypes
<1>3. Occupied = {} /\ \A c : InFlightTo(c) = {}
  BY <1>1 DEF Occupied, InFlightTo
<1>4. PermitsCounted /\ InFlightCounted
  <2>1. Cardinality(Occupied) = 0 /\ \A c : Cardinality(InFlightTo(c)) = 0
    BY <1>3, FS_EmptySet, Zenon
  <2> QED
    BY <1>1, <2>1 DEF PermitsCounted, InFlightCounted
<1>5. \A m \in Messages : Told(m)
  BY <1>1 DEF Told
<1> QED
  BY <1>2, <1>4, <1>5, MessageInvParts

\* The invariant of the messages is inductive.
THEOREM MessageInvariant == Spec => []MessageInv
<1>1. RegistryInv /\ MessageInv /\ [Next]_vars => MessageInv'
  BY EveryMessageTurn, MessageTurnKeeps
<1> QED
  BY <1>1, InitMessages, RegistryInvariant, PTL DEF Spec

\* What a sender of a message is told stays true, whatever the race between the
\* host's commit and the deadline, a cancel, a finished child or the drop of
\* the actor (settle, revoke and the lease of active_message.rs).
THEOREM DefiniteAnswerHolds == Spec => []DefiniteAnswer
<1>1. MessageInv => DefiniteAnswer
  BY DEF MessageInv
<1> QED
  BY <1>1, MessageInvariant, PTL

\* A message future always finds the child it was admitted to, so the
\* lost-completion branch of finish_active_message is dead.
THEOREM NoLostCompletionHolds == Spec => []NoLostCompletion
<1>1. MessageInv => NoLostCompletion
  BY DEF MessageInv
<1> QED
  BY <1>1, MessageInvariant, PTL

\* Ingress permits are conserved over all paths of a message, and messages are
\* parked only on children of their sender that have not started.
THEOREM PermitsAccountedHolds == Spec => []PermitsAccounted
<1>1. MessageInv => PermitsAccounted
  BY DEF MessageInv
<1> QED
  BY <1>1, MessageInvariant, PTL

-----------------------------------------------------------------------------
(***************************************************************************)
(* Finalization.                                                           *)
(***************************************************************************)
LaneTypes ==
  /\ phase \in [Children -> {"open", "finalizing"}]
  /\ clean \in [Children -> BOOLEAN]
  /\ fin \in [Children -> {"none", "waiting", "clean", "unclean"}]

\* A runner asks only of an active child, whose admission is closed from then
\* on, and is answered when no message is in flight.
Lane(c) ==
  /\ fin[c] # "none" => c \in active /\ phase[c] = "finalizing"
  /\ fin[c] \in {"clean", "unclean"} => inFlight[c] = 0
  /\ fin[c] = "clean" => clean[c]

LaneInv ==
  /\ LaneTypes
  /\ \A c \in Children : Lane(c)
  /\ actor # "running" => active = {}

\* Turns that leave the lifecycles alone.
LEMMA QuietLane ==
  ASSUME LaneInv, UNCHANGED <<runner, active>>,
         \A c \in Children : inFlight'[c] = inFlight[c] \/ fin[c] = "none"
  PROVE  LaneInv'
BY DEF LaneInv, LaneTypes, Lane, runner

\* The child that leaves the active table takes its lifecycle with it.
LEMMA LeavingLane ==
  ASSUME RegistryInv, LaneInv, NEW c \in Children, NEW out, NEW isClean, actor' = actor,
         FinishTerminalizedChild(c, out, isClean), DropLifecycles({c}), actor = "running",
         \A d \in Children \ {c} : inFlight'[d] = inFlight[d]
  PROVE  LaneInv'
<1>1. \E o : FinishChild({c}, CancelledQueued, o, Now)
  BY Zenon DEF FinishTerminalizedChild
<1>2. active' = active \ ({c} \cup CancelledQueued) /\ CancelledQueued \cap active = {}
  BY <1>1, FinishTables DEF RegistryInv, RegistryConsistent, CancelledQueued
<1>3. /\ phase' = [d \in Children |-> IF d \in {c} THEN "open" ELSE phase[d]]
      /\ clean' = [d \in Children |-> d \in {c} \/ clean[d]]
      /\ fin' = [d \in Children |-> IF d \in {c} THEN "none" ELSE fin[d]]
  BY DEF DropLifecycles
<1>4. LaneTypes'
  BY <1>3 DEF LaneInv, LaneTypes
<1>5. ASSUME NEW d \in Children PROVE Lane(d)'
  BY <1>2, <1>3 DEF LaneInv, LaneTypes, Lane
<1> QED
  BY <1>4, <1>5 DEF LaneInv

\* What a child's own turn does to its lifecycle.
LEMMA ChildLane ==
  ASSUME RegistryInv, MessageInv, LaneInv, NEW c \in Children, ChildTurn(c)
  PROVE  LaneInv'
<1>0. LaneTypes /\ inFlight \in [Children -> Nat]
  BY DEF LaneInv, MessageInv, MessageTypes
<1>1. CASE \E background \in BOOLEAN : Started(c, background)
  <2>1. /\ actor = "running" /\ actor' = actor /\ active' = active \cup {c}
        /\ phase' = [phase EXCEPT ![c] = "open"] /\ clean' = [clean EXCEPT ![c] = TRUE]
        /\ fin' = [fin EXCEPT ![c] = "none"]
        /\ \E n : inFlight' = [inFlight EXCEPT ![c] = n]
    BY <1>1 DEF Started, ends
  <2>2. LaneTypes'
    BY <1>0, <2>1 DEF LaneTypes
  <2>3. ASSUME NEW d \in Children PROVE Lane(d)'
    BY <1>0, <2>1 DEF LaneInv, LaneTypes, Lane
  <2> QED
    BY <2>1, <2>2, <2>3 DEF LaneInv
<1>2. CASE \E out \in Outcomes : RunReturns(c, out)
  <2>1. PICK out \in Outcomes : RunReturns(c, out)
    BY <1>2
  <2>2. /\ \E isClean : FinishTerminalizedChild(c, out, isClean)
        /\ DropLifecycles({c}) /\ actor = "running" /\ actor' = actor /\ inFlight' = inFlight
    BY <2>1, Zenon DEF RunReturns, ends
  <2> QED
    BY <2>2, LeavingLane
<1>3. CASE Finalizing(c)
  <2>1. /\ actor' = actor /\ active' = active /\ c \in active /\ clean' = clean
        /\ inFlight' = inFlight /\ phase' = [phase EXCEPT ![c] = "finalizing"]
        /\ fin' = [fin EXCEPT ![c] = IF inFlight[c] > 0 THEN "waiting"
                                     ELSE IF clean[c] THEN "clean" ELSE "unclean"]
    BY <1>3 DEF Finalizing, registry, ends
  <2>2. /\ fin'[c] \in {"waiting", "clean", "unclean"}
        /\ fin'[c] # "waiting" => inFlight[c] = 0
        /\ fin'[c] = "clean" => clean[c]
    BY <1>0, <2>1 DEF LaneTypes
  <2>3. LaneTypes'
    BY <1>0, <2>1 DEF LaneTypes
  <2>4. ASSUME NEW d \in Children PROVE Lane(d)'
    <3>1. CASE d = c
      BY <1>0, <2>1, <2>2, <3>1 DEF LaneTypes, Lane
    <3>2. CASE d # c
      BY <1>0, <2>1, <3>2 DEF LaneInv, LaneTypes, Lane
    <3> QED
      BY <3>1, <3>2
  <2> QED
    BY <2>1, <2>3, <2>4 DEF LaneInv
<1>4. CASE \E out \in Outcomes : RunBuffered(c, out)
  <2>1. /\ actor' = actor /\ active' = active /\ clean' = clean /\ fin' = fin
        /\ inFlight' = inFlight /\ phase' = [phase EXCEPT ![c] = "finalizing"]
    BY <1>4 DEF RunBuffered, registry, ends
  <2> QED
    BY <1>0, <2>1 DEF LaneInv, LaneTypes, Lane
<1> QED
  BY <1>1, <1>2, <1>3, <1>4 DEF ChildTurn

\* A future in flight was counted: the runner of its child still waits.
LEMMA FutureCounted ==
  ASSUME MessageInv, NEW m \in Messages, msgState[m] = "inflight"
  PROVE  inFlight[msgTo[m]] # 0 /\ msgTo[m] \in Children /\ msgTo[m] \in active
<1>1. PICK c \in Children : c = msgTo[m]
  BY DEF MessageInv, MessageTypes
<1>2. m \in InFlightTo(c) /\ InFlightTo(c) \in SUBSET Messages
  BY <1>1 DEF InFlightTo
<1>3. Cardinality(InFlightTo(c)) # 0
  BY <1>2, MessageCount
<1> QED
  BY <1>1, <1>3 DEF MessageInv, InFlightCounted, NoLostCompletion

\* finish_admission answers the runner with the last future.
LEMMA FinishActiveLane ==
  ASSUME MessageInv, LaneInv, NEW m \in Messages, NEW how \in Ready, FinishActiveMessage(m, how)
  PROVE  LaneInv'
<1>1. PICK c \in Children : c = msgTo[m]
  BY DEF MessageInv, MessageTypes
<1>2. LaneTypes /\ inFlight \in [Children -> Nat]
  BY DEF LaneInv, MessageInv, MessageTypes
<1>3. /\ actor' = actor /\ active' = active /\ phase' = phase /\ msgState[m] = "inflight"
      /\ inFlight' = [inFlight EXCEPT ![c] = @ - 1]
      /\ clean' = [clean EXCEPT ![c] = @ /\ Settles(m, how)]
      /\ fin' = [fin EXCEPT ![c] = IF (inFlight[c] = 1 /\ phase[c] = "finalizing") /\ @ = "waiting"
                                   THEN (IF clean'[c] THEN "clean" ELSE "unclean") ELSE @]
  BY <1>1 DEF FinishActiveMessage, FinishAdmission, registry, ends
<1>4. inFlight[c] # 0 /\ c \in active
  BY <1>1, <1>3, FutureCounted
<1>5. fin[c] \in {"none", "waiting"} /\ Lane(c)
  BY <1>2, <1>4 DEF LaneInv, LaneTypes, Lane
<1>6. clean' \in [Children -> BOOLEAN] /\ \A d \in Children \ {c} : clean'[d] = clean[d]
  <2>1. (clean[c] /\ Settles(m, how)) \in BOOLEAN
    OBVIOUS
  <2>2. clean \in [Children -> BOOLEAN]
    BY <1>2 DEF LaneTypes
  <2>3. clean' = [clean EXCEPT ![c] = clean[c] /\ Settles(m, how)]
    BY <1>3
  <2> QED
    BY <2>1, <2>2, <2>3
<1>7. /\ inFlight'[c] = inFlight[c] - 1
      /\ \A d \in Children \ {c} : inFlight'[d] = inFlight[d] /\ fin'[d] = fin[d]
  BY <1>2, <1>3 DEF LaneTypes
<1>8. /\ fin' \in [Children -> {"none", "waiting", "clean", "unclean"}]
      /\ fin'[c] \in {"clean", "unclean"} => inFlight[c] = 1 /\ phase[c] = "finalizing"
      /\ fin'[c] = "clean" => clean'[c]
      /\ fin'[c] \notin {"clean", "unclean"} => fin'[c] = fin[c]
  BY <1>2, <1>3, <1>5 DEF LaneTypes
<1>9. LaneTypes'
  BY <1>2, <1>3, <1>6, <1>8 DEF LaneTypes
<1>10. ASSUME NEW d \in Children PROVE Lane(d)'
  <2>1. CASE d = c
    BY <1>3, <1>4, <1>5, <1>7, <1>8, <2>1 DEF Lane
  <2>2. CASE d # c
    BY <1>3, <1>6, <1>7, <2>2 DEF LaneInv, Lane
  <2> QED
    BY <2>1, <2>2
<1> QED
  BY <1>3, <1>9, <1>10 DEF LaneInv

\* No message is admitted to a child whose runner has asked.
LEMMA SendLane ==
  ASSUME RegistryInv, MessageInv, LaneInv, NEW m \in Messages, SendTurn(m)
  PROVE  LaneInv'
<1>1. CASE \/ \E c \in Children, from \in HostSessions : SendActiveMessage(m, c, from)
           \/ HostClaims(m) \/ HostCommits(m) \/ SpawnReadyExpires(m)
  <2>1. UNCHANGED <<runner, active, inFlight>>
    BY <1>1 DEF SendActiveMessage, HostClaims, HostCommits, SpawnReadyExpires, registry, lanes,
                ends, runner
  <2> QED
    BY <2>1, QuietLane
<1>2. CASE HandleSendActiveMessage(m)
  <2>1. PICK c \in Children : c = msgTo[m]
    BY DEF MessageInv, MessageTypes
  <2>2. /\ UNCHANGED <<runner, active>>
        /\ \/ inFlight' = inFlight
           \/ Routed(m) = "inflight" /\ inFlight' = [inFlight EXCEPT ![c] = @ + 1]
    BY <1>2, <2>1 DEF HandleSendActiveMessage, registry, ends, runner
  <2>3. Routed(m) = "inflight" => fin[c] = "none"
    BY <2>1, RoutedWay DEF LaneInv, Lane
  <2>4. \A d \in Children : inFlight'[d] = inFlight[d] \/ fin[d] = "none"
    BY <2>2, <2>3 DEF MessageInv, MessageTypes
  <2> QED
    BY <2>2, <2>4, QuietLane
<1>3. CASE \E how \in Ready : FinishActiveMessage(m, how)
  BY <1>3, FinishActiveLane
<1>4. CASE \E how \in Ready : FinishLastActiveMessage(m, how)
  <2>1. PICK c \in Children : c = msgTo[m]
    BY DEF MessageInv, MessageTypes
  <2>2. /\ \E out, isClean : FinishTerminalizedChild(c, out, isClean)
        /\ DropLifecycles({c}) /\ actor = "running" /\ actor' = actor /\ FinishAdmission(c)
    BY <1>4, <2>1, Zenon DEF FinishLastActiveMessage, ends
  <2>3. \A d \in Children \ {c} : inFlight'[d] = inFlight[d]
    BY <2>2 DEF FinishAdmission, MessageInv, MessageTypes
  <2> QED
    BY <2>2, <2>3, LeavingLane
<1> QED
  BY <1>1, <1>2, <1>3, <1>4 DEF SendTurn

\* Every turn keeps the lifecycles.
LEMMA LaneStep ==
  ASSUME RegistryInv, MessageInv, LaneInv, MessageTurn
  PROVE  LaneInv'
<1>1. CASE (Unmessaged \/ Rejecting) /\ UNCHANGED runner
  <2>1. inFlight' = inFlight /\ active' = active
    BY <1>1 DEF Unmessaged, Rejecting
  <2> QED
    BY <1>1, <2>1, QuietLane
<1>2. CASE \E how \in {"exited", "dropped"} : DropCoordinator(how)
  <2>1. active' = {} /\ DropLifecycles(active)
    BY <1>2 DEF DropCoordinator
  <2>2. LaneTypes'
    BY <2>1 DEF DropLifecycles, LaneInv, LaneTypes
  <2>3. \A c \in Children : fin'[c] = "none"
    BY <2>1 DEF DropLifecycles, LaneInv, Lane
  <2> QED
    BY <2>1, <2>2, <2>3 DEF LaneInv, Lane
<1> QED
  BY <1>1, <1>2, ChildLane, SendLane DEF MessageTurn

\* The invariant of the lifecycles is inductive.
THEOREM LaneInvariant == Spec => []LaneInv
<1>1. Init => LaneInv
  BY DEF Init, LaneInv, LaneTypes, Lane
<1>2. RegistryInv /\ MessageInv /\ LaneInv /\ [Next]_vars => LaneInv'
  BY EveryMessageTurn, LaneStep
<1> QED
  BY <1>1, <1>2, RegistryInvariant, MessageInvariant, PTL DEF Spec

\* Every variable of the coordinator has its type; in particular no admission
\* counter goes below zero and no ingress permit is returned twice.
THEOREM CoordinatorTypeOK == Spec => []TypeOK
<1>1. RegistryInv => RegistryTypeOK
  BY DEF RegistryInv
<1>2. RecordInv => RecordsTypeOK
  BY DEF RecordInv
<1>3. MessageInv /\ LaneInv => MessagesTypeOK
  BY DEF MessageInv, MessageTypes, LaneInv, LaneTypes, MessagesTypeOK
<1>4. RegistryTypeOK /\ RecordsTypeOK /\ WaitsTypeOK /\ MessagesTypeOK => TypeOK
  BY DEF TypeOK
<1> QED
  BY <1>1, <1>2, <1>3, <1>4, RegistryInvariant, RecordInvariant, WaitTypes, MessageInvariant,
     LaneInvariant, PTL

-----------------------------------------------------------------------------
(***************************************************************************)
(* Claims that outlive their future.  The child is unclean while it is     *)
(* active and gone afterwards, so no runner is told of a settled child.    *)
(***************************************************************************)

\* The host claimed the lease and its future is over: the message may still be
\* inserted although the sender was told that nobody knows.
Outlived(m) == lease[m] = "claimed" /\ msgState[m] # "inflight"

Tainted(c) == c \notin Live \/ (c \in active /\ ~clean[c])

ClaimsRemembered ==
  \A m \in Messages : Outlived(m) => actor # "running" \/ Tainted(msgTo[m])

\* A claim outlives its future only where the child is marked unclean or gone,
\* nothing washes an active child, and only active children get a lease.
Carries ==
  /\ actor # "running" => actor' # "running"
  /\ \A c \in active : c \notin Live' \/ (c \in active' /\ (clean'[c] => clean[c]))
  /\ \A m \in Messages : Outlived(m)' =>
       \/ Outlived(m) /\ msgTo'[m] = msgTo[m]
       \/ msgTo'[m] \in active \ Live'
       \/ msgTo'[m] \in active' /\ ~clean'[msgTo'[m]]
  /\ \A m \in Messages : lease'[m] # "none" =>
       (lease[m] # "none" /\ msgTo'[m] = msgTo[m]) \/ msgTo'[m] \in active'

\* Ids are UUIDs: an id that is spawned was never used, so no message was ever
\* admitted to it.
NoIdTwice ==
  \A c \in Live' \ Live, m \in Messages : msgTo[m] = c => lease[m] = "none"

FreshSpawns == [][NoIdTwice]_vars

\* With fresh ids, what is tainted stays so.
LEMMA CarriesKeeps ==
  ASSUME ClaimsRemembered, Carries, NoIdTwice
  PROVE  ClaimsRemembered'
<1> SUFFICES ASSUME NEW m \in Messages, Outlived(m)', actor' = "running"
             PROVE  Tainted(msgTo[m])'
  BY DEF ClaimsRemembered
<1>1. actor = "running"
  BY DEF Carries
<1>2. CASE Outlived(m) /\ msgTo'[m] = msgTo[m]
  <2>1. Tainted(msgTo[m]) /\ lease[m] # "none"
    BY <1>1, <1>2 DEF ClaimsRemembered, Outlived
  <2> QED
    BY <1>2, <2>1 DEF Tainted, Carries, NoIdTwice
<1>3. CASE msgTo'[m] \in active \ Live'
  BY <1>3 DEF Tainted
<1>4. CASE msgTo'[m] \in active' /\ ~clean'[msgTo'[m]]
  BY <1>4 DEF Tainted
<1> QED
  BY <1>2, <1>3, <1>4 DEF Carries

\* The end of a run takes the child, and no other that is active.
LEMMA TerminalGone ==
  ASSUME RegistryInv, NEW c, NEW out, NEW isClean, FinishTerminalizedChild(c, out, isClean),
         DropLifecycles({c}), LaneTypes, active \subseteq Children
  PROVE  /\ c \notin Live'
         /\ \A d \in active : d \notin Live' \/ (d \in active' /\ (clean'[d] => clean[d]))
<1>1. \E o : FinishChild({c}, CancelledQueued, o, Now)
  BY Zenon DEF FinishTerminalizedChild
<1>2. /\ active' = active \ ({c} \cup CancelledQueued) /\ Live' = Live \ ({c} \cup CancelledQueued)
  BY <1>1, FinishTables
<1>3. CancelledQueued \cap active = {}
  BY DEF RegistryInv, RegistryConsistent, CancelledQueued
<1>4. \A d \in Children : d # c => clean'[d] = clean[d]
  BY DEF DropLifecycles, LaneTypes
<1> QED
  BY <1>2, <1>3, <1>4

\* A child's own turn carries the claims on.
LEMMA ChildCarries ==
  ASSUME RegistryInv, MessageInv, MessageInv', LaneInv, NEW c \in Children, ChildTurn(c)
  PROVE  Carries
<1>0. /\ LaneTypes /\ active \subseteq Children /\ pending \cap active = {}
      /\ \A m \in Messages : Told(m)
      /\ \A m \in Messages : msgState'[m] # "lost"
  BY MessageInvParts DEF LaneInv, RegistryInv, RegistryTypeOK, RegistryConsistent, MessageInv,
                         NoLostCompletion
<1>1. CASE \E background \in BOOLEAN : Started(c, background)
  <2>1. /\ actor' = actor /\ active' = active \cup {c} /\ c \in pending
        /\ clean' = [clean EXCEPT ![c] = TRUE] /\ msgTo' = msgTo
    BY <1>1 DEF Started, ends
  <2>2. PICK A \in SUBSET Parked(c) :
          /\ msgState' = [m \in Messages |-> IF m \in A THEN "inflight"
                                             ELSE IF m \in Parked(c) THEN "replied"
                                             ELSE msgState[m]]
          /\ lease' = [m \in Messages |-> IF m \in A THEN "open" ELSE lease[m]]
    BY <1>1 DEF Started
  <2>3. ASSUME NEW m \in Messages, Outlived(m)' PROVE Outlived(m)
    BY <1>0, <2>2, <2>3 DEF Outlived, Told, Parked
  <2>4. \A d \in active : d \in active' /\ clean'[d] = clean[d]
    BY <1>0, <2>1 DEF LaneTypes
  <2>5. \A m \in Messages : lease'[m] # "none" => lease[m] # "none" \/ msgTo'[m] \in active'
    BY <2>1, <2>2 DEF Parked
  <2> QED
    BY <2>1, <2>3, <2>4, <2>5 DEF Carries
<1>2. CASE \E out \in Outcomes : RunReturns(c, out)
  <2>1. /\ \E out, isClean : FinishTerminalizedChild(c, out, isClean)
        /\ DropLifecycles({c}) /\ actor' = actor
        /\ UNCHANGED <<msgTo, lease>>
    BY <1>2, Zenon DEF RunReturns, ends
  <2>2. \E ids : RejectSpawnReady(ids, {c})
    BY <1>2 DEF RunReturns
  <2>3. ASSUME NEW m \in Messages, Outlived(m)' PROVE Outlived(m)
    <3>1. lease[m] = "claimed" /\ msgState'[m] # "inflight" /\ msgState'[m] # "lost"
      BY <1>0, <2>1, <2>3 DEF Outlived
    <3>2. msgState'[m] \in {"replied", "lost", msgState[m]}
      BY <2>2 DEF RejectSpawnReady
    <3>3. msgState'[m] = "replied" => msgState[m] # "inflight"
      BY <2>2 DEF RejectSpawnReady
    <3> QED
      BY <3>1, <3>2, <3>3 DEF Outlived
  <2>4. \A d \in active : d \notin Live' \/ (d \in active' /\ (clean'[d] => clean[d]))
    BY <1>0, <2>1, TerminalGone
  <2> QED
    BY <2>1, <2>3, <2>4 DEF Carries
<1>3. CASE Finalizing(c) \/ \E out \in Outcomes : RunBuffered(c, out)
  BY <1>3 DEF Finalizing, RunBuffered, registry, msgs, ends, Carries, Outlived
<1> QED
  BY <1>1, <1>2, <1>3 DEF ChildTurn

\* A step of a message carries the claims on: an unsettled future taints.
LEMMA SendCarries ==
  ASSUME RegistryInv, MessageInv, MessageInv', LaneInv, NEW m \in Messages, SendTurn(m)
  PROVE  Carries
<1>0. /\ LaneTypes /\ active \subseteq Children /\ MessageTypes
      /\ \A n \in Messages : Told(n)
  BY MessageInvParts DEF LaneInv, RegistryInv, RegistryTypeOK
<1>1. PICK c \in Children : c = msgTo[m]
  BY <1>0 DEF MessageTypes
<1>2. CASE \/ \E d \in Children, from \in HostSessions : SendActiveMessage(m, d, from)
           \/ HandleSendActiveMessage(m) \/ SpawnReadyExpires(m)
           \/ HostClaims(m) \/ HostCommits(m)
  <2>1. UNCHANGED <<actor, active, clean>>
    BY <1>2 DEF SendActiveMessage, HandleSendActiveMessage, SpawnReadyExpires, HostClaims,
                HostCommits, registry, lanes, ends
  <2>2. ASSUME NEW n \in Messages, Outlived(n)' PROVE Outlived(n) /\ msgTo'[n] = msgTo[n]
    <3>1. CASE HostClaims(m) \/ HostCommits(m)
      BY <1>0, <2>2, <3>1 DEF HostClaims, HostCommits, Outlived, Told, MessageTypes
    <3>2. CASE SpawnReadyExpires(m)
      BY <1>0, <2>2, <3>2 DEF SpawnReadyExpires, Reply, Outlived, Told, MessageTypes
    <3>3. CASE \E d \in Children, from \in HostSessions : SendActiveMessage(m, d, from)
      BY <1>0, <2>2, <3>3 DEF SendActiveMessage, Reply, Outlived, Told, MessageTypes
    <3>4. CASE HandleSendActiveMessage(m)
      BY <1>0, <2>2, <3>4 DEF HandleSendActiveMessage, Reply, Outlived, Told, MessageTypes
    <3> QED
      BY <1>2, <3>1, <3>2, <3>3, <3>4
  <2>3. ASSUME NEW n \in Messages, lease'[n] # "none"
        PROVE  (lease[n] # "none" /\ msgTo'[n] = msgTo[n]) \/ msgTo'[n] \in active'
    <3>1. CASE HostClaims(m) \/ HostCommits(m)
      BY <1>0, <2>3, <3>1 DEF HostClaims, HostCommits, MessageTypes
    <3>2. CASE SpawnReadyExpires(m)
      BY <2>3, <3>2 DEF SpawnReadyExpires
    <3>3. CASE \E d \in Children, from \in HostSessions : SendActiveMessage(m, d, from)
      BY <1>0, <2>3, <3>3 DEF SendActiveMessage, Told, MessageTypes
    <3>4. CASE HandleSendActiveMessage(m)
      BY <1>0, <2>1, <2>3, <3>4, RoutedWay DEF HandleSendActiveMessage, MessageTypes
    <3> QED
      BY <1>2, <3>1, <3>2, <3>3, <3>4
  <2> QED
    BY <2>1, <2>2, <2>3 DEF Carries
<1>3. CASE \E how \in Ready : FinishActiveMessage(m, how)
  <2>1. PICK how \in Ready : FinishActiveMessage(m, how)
    BY <1>3
  <2>2. /\ UNCHANGED <<actor, active, msgTo>> /\ msgState[m] = "inflight" /\ SettleFuture(m, how)
        /\ msgState' = [msgState EXCEPT ![m] = "replied"]
        /\ msgReply' = [msgReply EXCEPT ![m] = ProtocolOutcome(how, Settles(m, how))]
        /\ clean' = [clean EXCEPT ![c] = clean[c] /\ Settles(m, how)]
    BY <1>1, <2>1 DEF FinishActiveMessage, Reply, registry, ends
  <2>3. /\ msgState'[m] = "replied" /\ msgReply'[m] = ProtocolOutcome(how, Settles(m, how))
        /\ \A n \in Messages \ {m} : msgState'[n] = msgState[n]
    BY <1>0, <2>2 DEF MessageTypes
  <2>4. lease'[m] = "claimed" => ~Settles(m, how)
    BY <2>2, <2>3, SettledTold
  <2>5. \A n \in Messages \ {m} : lease'[n] = lease[n]
    BY <2>2, <2>3, SettledTold
  <2>6. c \in active
    BY <1>1, <2>2, FutureCounted
  <2>7. /\ \A d \in Children : clean'[d] => clean[d]
        /\ clean'[c] => Settles(m, how)
    BY <1>0, <2>2 DEF LaneTypes
  <2>8. \A n \in Messages : lease'[n] # "none" => lease[n] # "none" \/ msgTo'[n] \in active'
    BY <1>1, <2>2, <2>5, <2>6
  <2> QED
    BY <1>0, <1>1, <2>2, <2>3, <2>4, <2>5, <2>6, <2>7, <2>8 DEF Carries, Outlived
<1>4. CASE \E how \in Ready : FinishLastActiveMessage(m, how)
  <2>1. /\ \E out, isClean : FinishTerminalizedChild(c, out, isClean)
        /\ DropLifecycles({c})
    BY <1>1, <1>4, Zenon DEF FinishLastActiveMessage
  <2>2. /\ actor' = actor /\ msgTo' = msgTo /\ c \in terminalOutputs
        /\ lease' = [lease EXCEPT ![m] = IF @ = "open" THEN "revoked" ELSE @]
        /\ \A n \in Messages : n # m /\ msgState[n] # "parked" => msgState'[n] = msgState[n]
    BY <1>1, <1>4 DEF FinishLastActiveMessage, SettleFuture, ends
  <2>3. c \in active
    BY <2>2 DEF RegistryInv, RegistryConsistent
  <2>4. c \notin Live'
    BY <1>0, <2>1, TerminalGone
  <2>5. \A d \in active : d \notin Live' \/ (d \in active' /\ (clean'[d] => clean[d]))
    BY <1>0, <2>1, TerminalGone
  <2>6. ASSUME NEW n \in Messages \ {m}, Outlived(n)' PROVE Outlived(n)
    BY <1>0, <2>2, <2>6 DEF Outlived, Told, MessageTypes
  <2>7. \A n \in Messages : lease'[n] # "none" => lease[n] # "none"
    BY <1>0, <2>2 DEF MessageTypes
  <2> QED
    BY <1>1, <2>2, <2>3, <2>4, <2>5, <2>6, <2>7 DEF Carries
<1> QED
  BY <1>2, <1>3, <1>4 DEF SendTurn

\* Every turn but the last carries the claims on.
LEMMA EveryTurnCarries ==
  ASSUME RegistryInv, MessageInv, MessageInv', LaneInv, [Next]_vars
  PROVE  Carries \/ actor' # "running"
<1>2. \A m \in Messages : Told(m)
  BY MessageInvParts
<1>3. CASE Unmessaged /\ UNCHANGED runner
  BY <1>3 DEF Unmessaged, runner, Carries, Outlived
<1>4. CASE Rejecting /\ UNCHANGED runner
  <2>1. ASSUME NEW m \in Messages, Outlived(m)' PROVE Outlived(m)
    BY <1>2, <1>4, <2>1 DEF Rejecting, RejectSpawnReady, Outlived, Told
  <2> QED
    BY <1>4, <2>1 DEF Rejecting, runner, Carries
<1>5. CASE \E how \in {"exited", "dropped"} : DropCoordinator(how)
  BY <1>5 DEF DropCoordinator
<1> QED
  BY <1>3, <1>4, <1>5, ChildCarries, SendCarries, EveryMessageTurn DEF MessageTurn

\* Finalization linearizes with admission: once the runner is told that its
\* child is settled (finalizing(), finish_admission), no message to the child
\* can be inserted any more.  For ids that are fresh, as UUIDs are.
THEOREM FinalizedIsSettledHolds == Spec /\ FreshSpawns => []FinalizedIsSettled
<1>1. Init => ClaimsRemembered
  BY DEF Init, ClaimsRemembered, Outlived
<1>2. RegistryInv /\ MessageInv /\ MessageInv' /\ LaneInv /\ ClaimsRemembered
        /\ [Next]_vars /\ [NoIdTwice]_vars => ClaimsRemembered'
  <2> SUFFICES ASSUME RegistryInv, MessageInv, MessageInv', LaneInv, ClaimsRemembered,
                      [Next]_vars, [NoIdTwice]_vars
               PROVE  ClaimsRemembered'
    OBVIOUS
  <2>1. NoIdTwice
    <3>1. UNCHANGED vars => Live' = Live
      BY DEF vars, registry, Live
    <3> QED
      BY <3>1 DEF NoIdTwice
  <2>2. CASE Carries
    BY <2>1, <2>2, CarriesKeeps
  <2>3. CASE actor' # "running"
    BY <2>3 DEF ClaimsRemembered
  <2> QED
    BY <2>2, <2>3, EveryTurnCarries
<1>3. MessageInv /\ LaneInv /\ ClaimsRemembered => FinalizedIsSettled
  <2> SUFFICES ASSUME MessageInv, LaneInv, ClaimsRemembered,
                      NEW c \in Children, NEW m \in Messages,
                      fin[c] = "clean", msgTo[m] = c, lease[m] \in {"open", "claimed"}
               PROVE  FALSE
    BY DEF FinalizedIsSettled
  <2>1. c \in active /\ inFlight[c] = 0 /\ clean[c] /\ actor = "running"
    BY DEF LaneInv, Lane
  <2>2. msgState[m] # "inflight"
    BY <2>1, FutureCounted
  <2>3. lease[m] = "claimed"
    BY <2>2, MessageInvParts DEF Told, MessageTypes
  <2>4. Tainted(c)
    BY <2>1, <2>2, <2>3 DEF ClaimsRemembered, Outlived
  <2> QED
    BY <2>1, <2>4 DEF Tainted, Live
<1> QED
  BY <1>1, <1>2, <1>3, RegistryInvariant, MessageInvariant, LaneInvariant, PTL
     DEF Spec, FreshSpawns

-----------------------------------------------------------------------------
(***************************************************************************)
(* When the table of completed records is large enough for every id, an id *)
(* is indeed never taken twice: handle_spawn refuses a completed one.      *)
(***************************************************************************)
IdsUsedOnce == Cardinality(Children) <= MaxCompleted

\* finish_child evicts nobody.
LEMMA FinishRetains ==
  ASSUME RegistryInv, RecordInv, IdsUsedOnce,
         NEW first \in SUBSET Children, NEW second \in SUBSET Children, NEW out, NEW t,
         FinishStep(first, second, out, t)
  PROVE  completed \cup first \cup second \subseteq completed'
<1> DEFINE gone == first \cup second
           S == completed \cup gone
           order == Appended(first, second, t)
<1>1. /\ FinishChild(first, second, out, t) /\ first \cap second = {}
      /\ gone \cap (completed \cup buffered) = {} /\ t.buffered \subseteq buffered
  BY DEF FinishStep
<1>2. completed' = Newest(S, order, MaxCompleted)
  BY <1>1, Zenon DEF FinishChild, Appended
<1>3. S \subseteq Children /\ \A c \in Children : <<c, c>> \notin order
  BY <1>1 DEF Appended, RegistryInv, RegistryTypeOK, ArrivalOrder, RecordInv, FreshIds
<1> HIDE DEF S, order
<1>4. ASSUME NEW c \in S PROVE Cardinality({d \in S : <<c, d>> \in order}) < MaxCompleted
  <2> DEFINE later == {d \in S : <<c, d>> \in order}
  <2>1. later \subseteq Children \ {c} /\ c \in Children
    BY <1>3
  <2> HIDE DEF later
  <2>2. /\ IsFiniteSet(Children \ {c}) /\ Cardinality(Children) \in Nat
        /\ Cardinality(Children \ {c}) = Cardinality(Children) - 1
    BY <2>1, ChildrenAssumption, FS_RemoveElement, FS_CardinalityType
  <2>3. Cardinality(later) \in Nat /\ Cardinality(later) <= Cardinality(Children \ {c})
    BY <2>1, <2>2, FS_Subset, FS_CardinalityType
  <2>4. Cardinality(later) < MaxCompleted
    BY <2>2, <2>3, BoundsAssumption DEF IdsUsedOnce
  <2> QED
    BY <2>4 DEF later
<1>5. S \subseteq completed'
  BY <1>2, <1>4 DEF Newest
<1> QED
  BY <1>5 DEF S

\* So a child that goes is completed for good, until the actor ends.
LEMMA Retained ==
  ASSUME RegistryInv, RecordInv, IdsUsedOnce, RecordTurn
  PROVE  completed \cup (Live \ Live') \subseteq completed' \/ actor' # "running"
<1>1. CASE Tended
  BY <1>1 DEF Tended
<1>2. CASE FinishesRecords
  <2>1. PICK first \in SUBSET Children, second \in SUBSET Children :
          \E out, t : FinishStep(first, second, out, t)
    BY <1>2 DEF FinishesRecords
  <2>2. completed \cup first \cup second \subseteq completed'
    BY <2>1, FinishRetains
  <2>3. Live' = Live \ (first \cup second)
    BY <2>1, FinishTables DEF FinishStep
  <2> QED
    BY <2>2, <2>3
<1>3. CASE \E c \in Children, r \in Requests : SpawnStarts(c, r) \/ SpawnEnqueues(c, r)
  BY <1>3 DEF SpawnStarts, SpawnEnqueues, Live
<1>4. CASE \E how \in {"exited", "dropped"} : DropCoordinator(how)
  BY <1>4 DEF DropCoordinator
<1> QED
  BY <1>1, <1>2, <1>3, <1>4 DEF RecordTurn

\* Whoever was admitted a message is active or has a completed record.
LeasesOwned ==
  \A m \in Messages : lease[m] # "none" => actor # "running" \/ msgTo[m] \in active \cup completed

\* Every step keeps each lease with the child its message was for.
LEMMA LeasesOwnedStep ==
  ASSUME RegistryInv, RecordInv, MessageInv, MessageInv', LaneInv, IdsUsedOnce, LeasesOwned,
         [Next]_vars
  PROVE  LeasesOwned'
<1>1. CASE actor' # "running"
  BY <1>1 DEF LeasesOwned
<1>2. CASE actor' = "running"
  <2>1. Carries /\ completed \cup (Live \ Live') \subseteq completed' /\ active \subseteq Live
    BY <1>2, EveryTurnCarries, EveryRecordTurn, Retained DEF Live
  <2>2. actor = "running"
    BY <1>2, <2>1 DEF Carries
  <2> QED
    BY <2>1, <2>2 DEF LeasesOwned, Carries
<1> QED
  BY <1>1, <1>2

\* A completed record that is never evicted keeps its id from being spawned
\* again, so what FinalizedIsSettledHolds assumes is then a fact.
THEOREM RetentionKeepsIdsFresh ==
  ASSUME IdsUsedOnce
  PROVE  Spec => FreshSpawns
<1>1. Init => LeasesOwned
  BY DEF Init, LeasesOwned
<1>2. RegistryInv /\ RecordInv /\ MessageInv /\ MessageInv' /\ LaneInv /\ LeasesOwned
        /\ [Next]_vars => LeasesOwned'
  BY LeasesOwnedStep
<1>3. RegistryInv /\ RecordInv /\ LeasesOwned /\ [Next]_vars => NoIdTwice
  <2> SUFFICES ASSUME RegistryInv, RecordInv, LeasesOwned, [Next]_vars PROVE NoIdTwice
    OBVIOUS
  <2>1. RecordTurn
    BY EveryRecordTurn
  <2>2. CASE Tended
    BY <2>2 DEF Tended, NoIdTwice
  <2>3. CASE FinishesRecords
    <3>1. \E gone : Live' = Live \ gone
      BY <2>3, FinishTables DEF FinishesRecords, FinishStep
    <3> QED
      BY <3>1 DEF NoIdTwice
  <2>4. CASE \E c \in Children, r \in Requests : SpawnStarts(c, r) \/ SpawnEnqueues(c, r)
    <3>1. PICK c \in Children : /\ Live' = Live \cup {c} /\ c \notin Live \cup completed
                                /\ actor = "running"
      BY <2>4 DEF SpawnStarts, SpawnEnqueues, SpawnAccepted, CommandTurn, Reaped, Live
    <3> QED
      BY <3>1 DEF NoIdTwice, LeasesOwned, Live
  <2>5. CASE \E how \in {"exited", "dropped"} : DropCoordinator(how)
    BY <2>5 DEF DropCoordinator, Live, NoIdTwice
  <2> QED
    BY <2>1, <2>2, <2>3, <2>4, <2>5 DEF RecordTurn
<1> QED
  BY <1>1, <1>2, <1>3, RegistryInvariant, RecordInvariant, MessageInvariant, LaneInvariant, PTL
     DEF Spec, FreshSpawns
====
