--------------------------- MODULE GatewayProofs ----------------------------
(***************************************************************************)
(* Rooms, sessions and lists of sessions agree, for any sockets, users,    *)
(* documents and roles, and whatever the store answers when.               *)
(***************************************************************************)
EXTENDS Gateway, TLAPS

(* The variables that membership is about.                                   *)
MembershipTypeOK ==
  /\ connected \subseteq Socket
  /\ rooms \in [Doc -> SUBSET Socket]
  /\ byDocument \in [Doc -> SUBSET Socket]
  /\ sessions \in [Socket -> SUBSET Doc]
  /\ joining \in [Socket -> [Doc -> Nat]]

(* A join that waits for a socket that is gone was waiting when it went.     *)
WaitingIsRemembered ==
  \A s \in Socket \ connected :
    (\E d \in Doc : joining[s][d] > 0) => s \in interrupted

PInv ==
  /\ MembershipTypeOK
  /\ PresenceIsConsistent
  /\ WaitingIsRemembered

-----------------------------------------------------------------------------
(* A socket taken out of some documents only leaves those.                   *)
LEMMA ExcludingMembers ==
  ASSUME NEW members \in [Doc -> SUBSET Socket], NEW s \in Socket, NEW docs
  PROVE  /\ Excluding(members, s, docs) \in [Doc -> SUBSET Socket]
         /\ \A d \in Doc, z \in Socket :
              z \in Excluding(members, s, docs)[d] <=>
                z \in members[d] /\ ~(z = s /\ d \in docs)
  BY DEF Excluding

(* A socket added to a document is in that one too.                          *)
LEMMA IncludingMembers ==
  ASSUME NEW members \in [Doc -> SUBSET Socket], NEW s \in Socket, NEW d \in Doc
  PROVE  /\ Including(members, s, d) \in [Doc -> SUBSET Socket]
         /\ \A e \in Doc, z \in Socket :
              z \in Including(members, s, d)[e] <=> z \in members[e] \/ (z = s /\ e = d)
  BY DEF Including

(* Two families of sets of sockets with the same members are equal.          *)
LEMMA SameMembers ==
  ASSUME NEW f \in [Doc -> SUBSET Socket], NEW g \in [Doc -> SUBSET Socket],
         \A d \in Doc, z \in Socket : z \in f[d] <=> z \in g[d]
  PROVE  f = g
<1>1. \A d \in Doc : f[d] = g[d]
  OBVIOUS
<1>2. QED  BY <1>1

-----------------------------------------------------------------------------
(* At the beginning nobody is anywhere.                                      *)
LEMMA PInvInit == GatewayInit => PInv
<1> SUFFICES ASSUME GatewayInit PROVE PInv
  OBVIOUS
<1>1. MembershipTypeOK
  BY DEF GatewayInit, MembershipTypeOK
<1>2. PresenceIsConsistent
  BY DEF GatewayInit, PresenceIsConsistent
<1>3. WaitingIsRemembered
  BY DEF GatewayInit, WaitingIsRemembered
<1>4. QED  BY <1>1, <1>2, <1>3 DEF PInv

(* Steps that touch neither membership nor connections.                      *)
LEMMA PInvQuiet ==
  ASSUME PInv,
         UNCHANGED <<connected, rooms, byDocument, sessions, joining, interrupted>>
  PROVE  PInv'
  BY DEF PInv, MembershipTypeOK, PresenceIsConsistent, WaitingIsRemembered

(* A join that the store lets pass: the socket enters the room, its session  *)
(* and the document's list at once, and if it is gone it was interrupted.    *)
LEMMA PInvResume ==
  ASSUME PInv, NEW s \in Socket, NEW d \in Doc, resumeJoin(s, d)
  PROVE  PInv'
<1> USE DEF PInv
<1>1. /\ joining[s][d] > 0
      /\ joining' = [joining EXCEPT ![s][d] = @ - 1]
      /\ UNCHANGED <<connected, interrupted>>
  BY DEF resumeJoin
<1>2. joining' \in [Socket -> [Doc -> Nat]]
  BY <1>1 DEF MembershipTypeOK
<1>3. WaitingIsRemembered'
  <2> SUFFICES ASSUME NEW z \in Socket, z \notin connected, NEW e \in Doc, joining'[z][e] > 0
               PROVE  z \in interrupted
    BY <1>1 DEF WaitingIsRemembered
  <2>1. joining[z][e] > 0
    BY <1>1 DEF MembershipTypeOK
  <2>2. QED  BY <2>1 DEF WaitingIsRemembered
<1>4. CASE UNCHANGED <<rooms, sessions, byDocument>>
  BY <1>1, <1>2, <1>3, <1>4 DEF MembershipTypeOK, PresenceIsConsistent
<1>5. CASE /\ rooms' = Including(rooms, s, d)
           /\ sessions' = [sessions EXCEPT ![s] = @ \cup {d}]
           /\ byDocument' = Including(byDocument, s, d)
  <2>1. MembershipTypeOK'
    BY <1>1, <1>2, <1>5, IncludingMembers DEF MembershipTypeOK
  <2>2. rooms' = byDocument'
    BY <1>5 DEF PresenceIsConsistent
  <2>3. \A z \in Socket, e \in Doc : e \in sessions'[z] <=> z \in byDocument'[e]
    <3> SUFFICES ASSUME NEW z \in Socket, NEW e \in Doc
                 PROVE  e \in sessions'[z] <=> z \in byDocument'[e]
      OBVIOUS
    <3>1. e \in sessions[z] <=> z \in byDocument[e]
      BY DEF PresenceIsConsistent
    <3>2. z \in byDocument'[e] <=> z \in byDocument[e] \/ (z = s /\ e = d)
      BY <1>5, IncludingMembers DEF MembershipTypeOK
    <3>3. e \in sessions'[z] <=> e \in sessions[z] \/ (z = s /\ e = d)
      BY <1>5 DEF MembershipTypeOK
    <3>4. QED  BY <3>1, <3>2, <3>3
  <2>4. \A z \in Socket : sessions'[z] = {e \in Doc : z \in byDocument'[e]}
    BY <2>1, <2>3 DEF MembershipTypeOK
  <2>5. \A z \in Socket \ connected : sessions'[z] # {} => z \in interrupted
    <3> SUFFICES ASSUME NEW z \in Socket \ connected, sessions'[z] # {}
                 PROVE  z \in interrupted
      OBVIOUS
    <3>1. CASE z = s
      BY <3>1, <1>1 DEF WaitingIsRemembered
    <3>2. CASE z # s
      BY <3>2, <1>5 DEF MembershipTypeOK, PresenceIsConsistent
    <3>3. QED  BY <3>1, <3>2
  <2>6. QED  BY <1>1, <1>3, <2>1, <2>2, <2>4, <2>5 DEF PresenceIsConsistent
<1>6. QED  BY <1>4, <1>5 DEF resumeJoin

(* Leaving one document, and leaving all of them when the socket goes, take  *)
(* the socket out of the same documents everywhere: a room the session knows *)
(* nothing of had no such socket in it.                                      *)
LEMMA LeavingIsConsistent ==
  ASSUME PInv, NEW s \in Socket, NEW docs, NEW here,
         rooms' = Excluding(rooms, s, docs),
         byDocument' = Excluding(byDocument, s, here),
         sessions' = [sessions EXCEPT ![s] = @ \ docs],
         docs \cap sessions[s] \subseteq here, here \subseteq docs
  PROVE  /\ rooms' \in [Doc -> SUBSET Socket] /\ byDocument' \in [Doc -> SUBSET Socket]
         /\ sessions' \in [Socket -> SUBSET Doc]
         /\ rooms' = byDocument'
         /\ \A z \in Socket : sessions'[z] = {e \in Doc : z \in byDocument'[e]}
<1> USE DEF PInv
<1>1. /\ rooms' \in [Doc -> SUBSET Socket]
      /\ byDocument' \in [Doc -> SUBSET Socket]
      /\ sessions' \in [Socket -> SUBSET Doc]
  BY ExcludingMembers DEF MembershipTypeOK
<1>2. \A z \in Socket, e \in Doc : e \in sessions[z] <=> z \in byDocument[e]
  BY DEF PresenceIsConsistent, MembershipTypeOK
<1>3. \A e \in Doc, z \in Socket :
        z \in rooms'[e] <=> z \in byDocument[e] /\ ~(z = s /\ e \in docs)
  BY ExcludingMembers DEF MembershipTypeOK, PresenceIsConsistent
<1>4. \A e \in Doc, z \in Socket :
        z \in byDocument'[e] <=> z \in byDocument[e] /\ ~(z = s /\ e \in here)
  BY ExcludingMembers DEF MembershipTypeOK
<1>5. \A e \in Doc, z \in Socket : z \in rooms'[e] <=> z \in byDocument'[e]
  BY <1>2, <1>3, <1>4
<1>6. rooms' = byDocument'
  BY <1>1, <1>5, SameMembers
<1>7. \A z \in Socket, e \in Doc : e \in sessions'[z] <=> z \in byDocument'[e]
  <2> SUFFICES ASSUME NEW z \in Socket, NEW e \in Doc
               PROVE  e \in sessions'[z] <=> z \in byDocument'[e]
    OBVIOUS
  <2>1. e \in sessions'[z] <=> e \in sessions[z] /\ ~(z = s /\ e \in docs)
    BY DEF MembershipTypeOK
  <2>2. QED  BY <2>1, <1>2, <1>3, <1>5
<1>8. \A z \in Socket : sessions'[z] = {e \in Doc : z \in byDocument'[e]}
  BY <1>1, <1>7
<1>9. QED  BY <1>1, <1>6, <1>8

LEMMA PInvLeave ==
  ASSUME PInv, NEW s \in Socket, NEW d, receiveLeave(s, d)
  PROVE  PInv'
<1> USE DEF PInv
<1>1. /\ s \in connected
      /\ rooms' = Excluding(rooms, s, {d})
      /\ UNCHANGED <<connected, joining, interrupted>>
  BY DEF receiveLeave
<1>2. PICK here \in {{}, {d}} :
        /\ byDocument' = Excluding(byDocument, s, here)
        /\ sessions' = [sessions EXCEPT ![s] = @ \ {d}]
        /\ {d} \cap sessions[s] \subseteq here
  <2>1. CASE sessions[s] = {} /\ UNCHANGED <<sessions, byDocument>>
    <3>1. byDocument' = Excluding(byDocument, s, {})
      BY <2>1 DEF Excluding, MembershipTypeOK
    <3>2. sessions' = [sessions EXCEPT ![s] = @ \ {d}]
      BY <2>1 DEF MembershipTypeOK
    <3>3. QED  BY <2>1, <3>1, <3>2
  <2>2. CASE /\ sessions' = [sessions EXCEPT ![s] = @ \ {d}]
             /\ byDocument' = Excluding(byDocument, s, {d})
    BY <2>2
  <2>3. QED  BY <2>1, <2>2 DEF receiveLeave
<1>3. /\ rooms' \in [Doc -> SUBSET Socket] /\ byDocument' \in [Doc -> SUBSET Socket]
      /\ sessions' \in [Socket -> SUBSET Doc]
      /\ rooms' = byDocument'
      /\ \A z \in Socket : sessions'[z] = {e \in Doc : z \in byDocument'[e]}
  BY <1>1, <1>2, LeavingIsConsistent
<1>4. MembershipTypeOK'
  BY <1>1, <1>3 DEF MembershipTypeOK
<1>5. \A z \in Socket \ connected : sessions'[z] # {} => z \in interrupted
  BY <1>1, <1>2 DEF MembershipTypeOK, PresenceIsConsistent
<1>6. PresenceIsConsistent'
  BY <1>1, <1>3, <1>5 DEF PresenceIsConsistent
<1>7. WaitingIsRemembered'
  BY <1>1 DEF WaitingIsRemembered
<1>8. QED  BY <1>4, <1>6, <1>7

LEMMA PInvDisconnect ==
  ASSUME PInv, NEW s \in Socket, disconnect(s)
  PROVE  PInv'
<1> USE DEF PInv
<1>1. /\ connected' = connected \ {s}
      /\ rooms' = Excluding(rooms, s, Doc)
      /\ byDocument' = Excluding(byDocument, s, sessions[s])
      /\ interrupted' = interrupted \cup {z \in {s} : \E d \in Doc : joining[s][d] > 0}
      /\ UNCHANGED joining
  BY DEF disconnect
<1>2. sessions' = [sessions EXCEPT ![s] = @ \ Doc]
  BY DEF disconnect, MembershipTypeOK
<1>3. /\ rooms' \in [Doc -> SUBSET Socket] /\ byDocument' \in [Doc -> SUBSET Socket]
      /\ sessions' \in [Socket -> SUBSET Doc]
      /\ rooms' = byDocument'
      /\ \A z \in Socket : sessions'[z] = {e \in Doc : z \in byDocument'[e]}
  BY <1>1, <1>2, LeavingIsConsistent DEF MembershipTypeOK
<1>4. MembershipTypeOK'
  BY <1>1, <1>3 DEF MembershipTypeOK
<1>5. \A z \in Socket \ connected' : sessions'[z] # {} => z \in interrupted'
  BY <1>1, <1>2 DEF MembershipTypeOK, PresenceIsConsistent
<1>6. PresenceIsConsistent'
  BY <1>3, <1>5 DEF PresenceIsConsistent
<1>7. WaitingIsRemembered'
  BY <1>1 DEF WaitingIsRemembered
<1>8. QED  BY <1>4, <1>6, <1>7

-----------------------------------------------------------------------------
(* A connection, and a join that begins to wait.  What a browser asks to     *)
(* join or leave need not be a document.                                     *)
LEMMA PInvConnect ==
  ASSUME PInv, NEW s \in Socket, NEW u, connect(s, u)
  PROVE  PInv'
  BY DEF connect, PInv, MembershipTypeOK, PresenceIsConsistent, WaitingIsRemembered

LEMMA PInvReceiveJoin ==
  ASSUME PInv, NEW s \in Socket, NEW d, receiveJoin(s, d)
  PROVE  PInv'
<1> USE DEF PInv
<1>1. /\ s \in connected
      /\ joining' = [joining EXCEPT ![s][d] = @ + 1]
      /\ UNCHANGED <<connected, rooms, byDocument, sessions, interrupted>>
  BY DEF receiveJoin
<1>2. joining' \in [Socket -> [Doc -> Nat]]
  <2>1. [joining[s] EXCEPT ![d] = @ + 1] \in [Doc -> Nat]
    <3>1. CASE d \in Doc
      BY <3>1 DEF MembershipTypeOK
    <3>2. CASE d \notin Doc
      BY <3>2 DEF MembershipTypeOK
    <3>3. QED  BY <3>1, <3>2
  <2>2. joining' = [joining EXCEPT ![s] = [joining[s] EXCEPT ![d] = @ + 1]]
    BY <1>1 DEF MembershipTypeOK
  <2>3. QED  BY <2>1, <2>2 DEF MembershipTypeOK
<1>3. MembershipTypeOK'
  BY <1>1, <1>2 DEF MembershipTypeOK
<1>4. PresenceIsConsistent'
  BY <1>1 DEF PresenceIsConsistent
<1>5. WaitingIsRemembered'
  <2>1. \A z \in Socket \ connected : joining'[z] = joining[z]
    BY <1>1 DEF MembershipTypeOK
  <2>2. QED  BY <1>1, <2>1 DEF WaitingIsRemembered
<1>6. QED  BY <1>3, <1>4, <1>5

(* One handler after the other.                                              *)
LEMMA PInvStep == PInv /\ [GatewayNext]_gatewayVars => PInv'
<1> SUFFICES ASSUME PInv, [GatewayNext]_gatewayVars PROVE PInv'
  OBVIOUS
<1>1. ASSUME NEW s \in Socket, NEW u \in User, connect(s, u) PROVE PInv'
  BY <1>1, PInvConnect
<1>2. ASSUME NEW s \in Socket, NEW d \in Doc, receiveJoin(s, d) PROVE PInv'
  BY <1>2, PInvReceiveJoin
<1>3. ASSUME NEW s \in Socket, NEW d \in Doc, resumeJoin(s, d) PROVE PInv'
  BY <1>3, PInvResume
<1>4. ASSUME NEW s \in Socket, NEW d \in Doc, receiveLeave(s, d) PROVE PInv'
  BY <1>4, PInvLeave
<1>5. ASSUME NEW s \in Socket, disconnect(s) PROVE PInv'
  BY <1>5, PInvDisconnect
<1>6. ASSUME NEW s \in Socket, take(s) PROVE PInv'
  BY <1>6, PInvQuiet DEF take
<1>7. ASSUME NEW by \in User, NEW u \in User, NEW d \in Doc, revoke(by, u, d) PROVE PInv'
  BY <1>7, PInvQuiet DEF revoke, presenceVars
<1>8. ASSUME NEW by \in User, NEW u \in User, NEW d \in Doc, NEW r \in ROLES,
             share(by, u, d, r)
      PROVE  PInv'
  BY <1>8, PInvQuiet DEF share, presenceVars
<1>9. ASSUME NEW d \in Doc, announce([type |-> "edit", doc |-> d, sequence |-> 0])
      PROVE  PInv'
  BY <1>9, PInvQuiet DEF announce, presenceVars
<1>10. CASE handleEvents
  BY <1>10, PInvQuiet DEF handleEvents
<1>11. CASE UNCHANGED gatewayVars
  BY <1>11, PInvQuiet DEF gatewayVars, presenceVars
<1>12. QED
  BY <1>1, <1>2, <1>3, <1>4, <1>5, <1>6, <1>7, <1>8, <1>9, <1>10, <1>11 DEF GatewayNext

(* Rooms, sessions and the documents' lists agree in every order of joins,   *)
(* answers of the store, leaves, disconnections and drains, and a session    *)
(* that outlives its socket belongs to a join that was overtaken by the      *)
(* disconnection (socket.js:78).                                             *)
THEOREM RoomsAndSessionsAgree == GatewaySpec => []PresenceIsConsistent
<1>1. GatewayInit => PInv
  BY PInvInit
<1>2. PInv /\ [GatewayNext]_gatewayVars => PInv'
  BY PInvStep
<1>3. PInv => PresenceIsConsistent
  BY DEF PInv
<1>4. QED  BY <1>1, <1>2, <1>3, PTL DEF GatewaySpec
=============================================================================
