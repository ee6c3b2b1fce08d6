------------------------------ MODULE Gateway -------------------------------
(***************************************************************************)
(* Who is looking at which document: the sockets of                        *)
(* src/server/realtime/socket.js and the sessions of                       *)
(* src/engine/messaging/CollaborationManager.js, over the message queue.   *)
(*                                                                         *)
(* Joining asks the store for the role first, and anything may happen      *)
(* before the answer; leaving and disconnecting happen at once.  The       *)
(* collaboration manager publishes a list of participants whenever         *)
(* membership changes, and a drain hands every event to the sockets that   *)
(* are in the room of its document at that time.                           *)
(*                                                                         *)
(* Socket.IO is external: a socket receives in the order it was sent to,   *)
(* and one that has disconnected is in no room and receives nothing, but   *)
(* can still be put into a room.                                           *)
(***************************************************************************)
EXTENDS MessageQueue, Orders, SequencesExt

CONSTANTS
  Socket,     \* sockets, a new one for every connection
  User,
  Creator,    \* [Doc -> the user who created it]
  Role        \* [User -> [Doc -> the user's role to begin with]]

ROLES == {"owner", "editor", "viewer"}

ASSUME RoleAssumption ==
  /\ Creator \in [Doc -> User]
  /\ Role \in [User -> [Doc -> ROLES \cup {"none"}]]

VARIABLES
  permission,   \* [User -> [Doc -> the role the store has, or none]]
  user,         \* [Socket -> the user of its token], Nobody before it connects
  connected,    \* the sockets that are connected
  rooms,        \* [Doc -> the sockets in the room of the document]
  sessions,     \* [Socket -> the documents of its session], none without one
  byDocument,   \* [Doc -> the sessions in the document]
  joining,      \* [Socket -> [Doc -> joins waiting for the role]]
  inbox,        \* [Socket -> what is on its way to the browser]
  interrupted,  \* history: sockets that disconnected while a join waited
  overtaken,    \* history: <<socket, doc>> left while a join of it waited
  refused       \* history: <<socket, doc>> of the joins that were refused

presenceVars == <<user, connected, rooms, sessions, byDocument, joining, inbox,
                  interrupted, overtaken, refused>>
gatewayVars == <<queueVars, presenceVars, permission>>

Nobody == "nobody"

ASSUME UserAssumption == Nobody \notin User

GatewayInit ==
  /\ QueueInit
  /\ permission = Role
  /\ user = [s \in Socket |-> Nobody]
  /\ connected = {}
  /\ rooms = [d \in Doc |-> {}]
  /\ sessions = [s \in Socket |-> {}]
  /\ byDocument = [d \in Doc |-> {}]
  /\ joining = [s \in Socket |-> [d \in Doc |-> 0]]
  /\ inbox = [s \in Socket |-> << >>]
  /\ interrupted = {} /\ overtaken = {} /\ refused = {}

-----------------------------------------------------------------------------
(* Roles.  Sharing asks for the owner's role and revoking too; only what the *)
(* creator has cannot be revoked.                                            *)

getPermission(u, d) == permission[u][d]

setPermission(u, d, r) == permission' = [permission EXCEPT ![u][d] = r]

share(by, u, d, r) ==
  /\ getPermission(by, d) = "owner"
  /\ setPermission(u, d, r)
  /\ UNCHANGED <<queueVars, presenceVars>>

revoke(by, u, d) ==
  /\ getPermission(by, d) = "owner"
  /\ u # Creator[d] /\ getPermission(u, d) # "none"
  /\ setPermission(u, d, "none")
  /\ UNCHANGED <<queueVars, presenceVars>>

-----------------------------------------------------------------------------
(* Membership.  A room, and a document's sessions, with a socket added to    *)
(* one document or taken out of some.                                        *)

Including(members, s, d) == [members EXCEPT ![d] = @ \cup {s}]

Excluding(members, s, docs) ==
  [d \in Doc |-> IF d \in docs THEN members[d] \ {s} ELSE members[d]]

(* Mutant of PresenceEvent: the participants before the change. *)
PresenceBefore(d, members) ==
  [type |-> "presence", doc |-> d, sequence |-> 0, participants |-> byDocument[d]]

PresenceEvent(d, members) ==
  [type |-> "presence", doc |-> d, sequence |-> 0, participants |-> members[d]]

emit(s, message) ==
  inbox' = IF s \in connected THEN [inbox EXCEPT ![s] = Append(@, message)] ELSE inbox

(* One presence event for each of several documents, in one turn. *)
publishAll(docs, members) ==
  LET events == [i \in DOMAIN SetToSeq(docs) |->
                   Enveloped(PresenceEvent(SetToSeq(docs)[i], members))]
  IN  /\ Len(buffer) + Len(events) <= Capacity
      /\ buffer' = buffer \o events
      /\ sequences' = [d \in Doc |-> IF d \in docs THEN sequences[d] + 1 ELSE sequences[d]]
      /\ draining' = (draining \/ docs # {})

-----------------------------------------------------------------------------
(* The handlers. *)

connect(s, u) ==
  /\ user[s] = Nobody
  /\ user' = [user EXCEPT ![s] = u]
  /\ connected' = connected \cup {s}
  /\ UNCHANGED <<queueVars, permission, rooms, sessions, byDocument, joining, inbox,
                 interrupted, overtaken, refused>>

(* document:join, up to the await. *)
receiveJoin(s, d) ==
  /\ s \in connected
  /\ joining' = [joining EXCEPT ![s][d] = @ + 1]
  /\ UNCHANGED <<queueVars, permission, user, connected, rooms, sessions, byDocument,
                 inbox, interrupted, overtaken, refused>>

(* ... and after it.  Nobody looks whether the socket is still there. *)
resumeJoin(s, d) ==
  /\ joining[s][d] > 0
  /\ joining' = [joining EXCEPT ![s][d] = @ - 1]
  /\ \/ /\ getPermission(user[s], d) = "none"
        /\ refused' = refused \cup {<< s, d >>}
        /\ UNCHANGED <<queueVars, rooms, sessions, byDocument, inbox>>
     \/ /\ getPermission(user[s], d) # "none"
        /\ rooms' = Including(rooms, s, d)
        /\ sessions' = [sessions EXCEPT ![s] = @ \cup {d}]
        /\ byDocument' = Including(byDocument, s, d)
        /\ publish(PresenceEvent(d, byDocument'))
        /\ emit(s, [type |-> "joined", doc |-> d, participants |-> byDocument'[d]])
        /\ UNCHANGED refused
  /\ UNCHANGED <<permission, user, connected, interrupted, overtaken>>

(* document:leave.  A session leaves a document it may not be in. *)
receiveLeave(s, d) ==
  /\ s \in connected
  /\ rooms' = Excluding(rooms, s, {d})
  /\ overtaken' = overtaken \cup {p \in {<< s, d >>} : joining[s][d] > 0}
  /\ \/ /\ sessions[s] = {}
        /\ UNCHANGED <<queueVars, sessions, byDocument>>
     \/ /\ sessions[s] # {}
        /\ sessions' = [sessions EXCEPT ![s] = @ \ {d}]
        /\ byDocument' = Excluding(byDocument, s, {d})
        /\ publish(PresenceEvent(d, byDocument'))
  /\ UNCHANGED <<permission, user, connected, joining, inbox, interrupted, refused>>

(* Mutant of disconnect: the sessions of the documents are left as they are. *)
disconnectHalf(s) ==
  /\ s \in connected
  /\ connected' = connected \ {s}
  /\ rooms' = Excluding(rooms, s, Doc)
  /\ sessions' = [sessions EXCEPT ![s] = {}]
  /\ publishAll(sessions[s], byDocument)
  /\ interrupted' = interrupted \cup {z \in {s} : \E d \in Doc : joining[s][d] > 0}
  /\ inbox' = [inbox EXCEPT ![s] = << >>]
  /\ UNCHANGED <<permission, user, byDocument, joining, overtaken, refused>>

(* disconnect: out of every room, and out of every document of the session.  *)
disconnect(s) ==
  /\ s \in connected
  /\ connected' = connected \ {s}
  /\ rooms' = Excluding(rooms, s, Doc)
  /\ sessions' = [sessions EXCEPT ![s] = {}]
  /\ byDocument' = Excluding(byDocument, s, sessions[s])
  /\ publishAll(sessions[s], byDocument')
  /\ interrupted' = interrupted \cup {z \in {s} : \E d \in Doc : joining[s][d] > 0}
  /\ inbox' = [inbox EXCEPT ![s] = << >>]
  /\ UNCHANGED <<permission, user, joining, overtaken, refused>>

(* The consumer forwards an event to the room of its document. *)
handleEvents ==
  /\ deliver
  /\ inbox' = [s \in Socket |->
       IF s \in connected
       THEN inbox[s] \o ElementsAt(buffer, {i \in 1..Len(buffer) : s \in rooms[buffer[i].doc]})
       ELSE << >>]
  /\ UNCHANGED <<permission, user, connected, rooms, sessions, byDocument, joining,
                 interrupted, overtaken, refused>>

(* The engine announces an edit. *)
announce(event) == publish(event) /\ UNCHANGED <<presenceVars, permission>>

(* A message reaches the browser. *)
take(s) ==
  /\ inbox[s] # << >>
  /\ inbox' = [inbox EXCEPT ![s] = Tail(@)]
  /\ UNCHANGED <<queueVars, permission, user, connected, rooms, sessions, byDocument,
                 joining, interrupted, overtaken, refused>>

GatewayNext ==
  \/ \E s \in Socket :
       \/ \E u \in User : connect(s, u)
       \/ \E d \in Doc : receiveJoin(s, d) \/ resumeJoin(s, d) \/ receiveLeave(s, d)
       \/ disconnect(s)
       \/ take(s)
  \/ \E by, u \in User, d \in Doc :
       revoke(by, u, d) \/ \E r \in ROLES : share(by, u, d, r)
  \/ \E d \in Doc : announce([type |-> "edit", doc |-> d, sequence |-> 0])
  \/ handleEvents

GatewaySpec == GatewayInit /\ [][GatewayNext]_gatewayVars

-----------------------------------------------------------------------------
(* Whatever order joins, leaves, disconnections and the store's answers come *)
(* in: the rooms, the sessions and the documents' lists of sessions say the  *)
(* same, and only a join that was waiting when its socket went away can      *)
(* leave a session nobody removes.                                           *)
PresenceIsConsistent ==
  /\ rooms = byDocument
  /\ \A s \in Socket : sessions[s] = {d \in Doc : s \in byDocument[d]}
  /\ \A s \in Socket \ connected : sessions[s] # {} => s \in interrupted
=============================================================================
