---------------------------- MODULE ClientProofs ----------------------------
(***************************************************************************)
(* Browsers that use the sockets of GatewayProofs, for any tabs, calls,    *)
(* budgets, users, documents and roles: membership stays consistent; when  *)
(* everything has settled, whoever is in a document looks at it, and shows *)
(* who else is there; and whoever only reads shows the text of the version *)
(* it says.  Each invariant rests on the one before: sockets and queues,   *)
(* where everybody is, and the texts.                                      *)
(***************************************************************************)
EXTENDS Client, GatewayProofs, FiniteInduction, SequenceTheorems

(* A tab has a socket or none.                                               *)
SocketTypeOK == socketOf \in [Tab -> Socket \cup {NoSocket}]

CInv == PInv /\ SocketTypeOK

(* Every step of a tab or a handler leaves the server's membership alone, or *)
(* is one step of the gateway.                                               *)
LEMMA CInvStep == CInv /\ [Next]_clientVars => CInv'
<1> SUFFICES ASSUME CInv, [Next]_clientVars PROVE CInv'
  OBVIOUS
<1> USE DEF CInv
<1>1. ASSUME UNCHANGED <<gatewayVars, socketOf>> PROVE CInv'
  BY <1>1, PInvQuiet DEF gatewayVars, presenceVars, SocketTypeOK
<1>2. ASSUME NEW t \in Tab, NEW d \in Doc, openDocument(t, d) PROVE CInv'
  BY <1>1, <1>2 DEF openDocument, tabVars
<1>3. ASSUME NEW t \in Tab, type(t) \/ render(t) \/ effect(t) PROVE CInv'
  BY <1>1, <1>3 DEF type, render, effect
<1>4. ASSUME NEW t \in Tab, flush(t) PROVE CInv'
  BY <1>1, <1>4 DEF flush
<1>5. ASSUME NEW t \in Tab, handleShare(t) PROVE CInv'
  <2>1. UNCHANGED <<presenceVars, socketOf>>
    BY <1>5 DEF handleShare, share, revoke, tabVars
  <2>2. QED  BY <2>1, PInvQuiet DEF presenceVars, SocketTypeOK
<1>6. ASSUME NEW t \in Tab, open(t) PROVE CInv'
  <2>1. PICK s \in Socket :
          connect(s, UserOf[t]) /\ socketOf' = [socketOf EXCEPT ![t] = s]
    BY <1>6 DEF open
  <2>2. QED  BY <2>1, PInvConnect DEF SocketTypeOK
<1>7. ASSUME NEW t \in Tab, lose(t) PROVE CInv'
  <2>1. SocketTypeOK'
    BY <1>7 DEF lose, SocketTypeOK
  <2>2. QED  BY <1>7, <2>1, PInvQuiet DEF lose, gatewayVars, presenceVars
<1>8. ASSUME NEW t \in Tab, receive(t) PROVE CInv'
  <2>1. socketOf[t] \in Socket /\ UNCHANGED socketOf
    BY <1>8 DEF receive, SocketTypeOK
  <2>2. PICK d : receiveJoin(socketOf[t], d) \/ receiveLeave(socketOf[t], d)
    BY <1>8 DEF receive
  <2>3. QED  BY <2>1, <2>2, PInvReceiveJoin, PInvLeave DEF SocketTypeOK
<1>9. ASSUME NEW t \in Tab, onParticipants(t) \/ onEdit(t) PROVE CInv'
  <2>1. take(socketOf[t]) /\ UNCHANGED socketOf
    BY <1>9 DEF onParticipants, onEdit, Incoming
  <2>2. QED  BY <2>1, PInvQuiet DEF take, SocketTypeOK
<1>10. ASSUME NEW k \in Call, authorize(k) \/ read(k) \/ opened(k) \/ saved(k) \/ conflicted(k)
       PROVE  CInv'
  BY <1>1, <1>10 DEF authorize, read, opened, saved, conflicted, tabVars
<1>11. ASSUME NEW k \in Call, edit(k) PROVE CInv'
  <2>1. UNCHANGED <<presenceVars, socketOf>>
    BY <1>11 DEF edit, announce, gatewayVars, tabVars
  <2>2. QED  BY <2>1, PInvQuiet DEF presenceVars, SocketTypeOK
<1>12. ASSUME NEW s \in Socket, NEW d \in Doc, resumeJoin(s, d), UNCHANGED tabVars
       PROVE  CInv'
  BY <1>12, PInvResume DEF tabVars, SocketTypeOK
<1>13. ASSUME NEW s \in Socket, notice(s) PROVE CInv'
  BY <1>13, PInvDisconnect DEF notice, tabVars, SocketTypeOK
<1>14. ASSUME handleEvents, UNCHANGED tabVars PROVE CInv'
  BY <1>14, PInvQuiet DEF handleEvents, tabVars, SocketTypeOK
<1>15. CASE UNCHANGED clientVars
  BY <1>1, <1>15 DEF clientVars, tabVars
<1>16. QED
  BY <1>2, <1>3, <1>4, <1>5, <1>6, <1>7, <1>8, <1>9, <1>10, <1>11, <1>12, <1>13, <1>14, <1>15
  DEF Next

(* Whatever any number of tabs do, rooms, sessions and the documents' lists  *)
(* of sessions agree, and a session that outlives its socket belongs to a    *)
(* join that was still waiting for the role when the socket went away        *)
(* (socket.js:78).                                                           *)
THEOREM BrowsersKeepPresence == Spec => []PresenceIsConsistent
<1>1. Init => CInv
  BY PInvInit DEF Init, CInv, SocketTypeOK
<1>2. CInv /\ [Next]_clientVars => CInv'
  BY CInvStep
<1>3. CInv => PresenceIsConsistent
  BY DEF CInv, PInv
<1>4. QED  BY <1>1, <1>2, <1>3, PTL DEF Spec

-----------------------------------------------------------------------------
(* Queues of messages, whatever a message is. *)

IsSeq(q) == \E V : q \in Seq(V)

(* An empty queue, ...                                                       *)
LEMMA EmptyQueue == IsSeq(<< >>) /\ Len(<< >>) = 0
<1>1. << >> \in Seq({})
  OBVIOUS
<1> QED
  BY <1>1 DEF IsSeq

(* ... the length and the places of one, ...                                 *)
LEMMA QueueFacts ==
  ASSUME NEW q, IsSeq(q)
  PROVE  Len(q) \in Nat /\ DOMAIN q = 1..Len(q) /\ (q = << >> <=> Len(q) = 0)
<1>1. PICK V : q \in Seq(V)
  BY DEF IsSeq
<1> QED
  BY <1>1

(* ... one with a message more, ...                                          *)
LEMMA QueueAppend ==
  ASSUME NEW q, IsSeq(q), NEW m
  PROVE  /\ IsSeq(Append(q, m)) /\ Len(q) \in Nat /\ Len(Append(q, m)) = Len(q) + 1
         /\ \A i \in 1..Len(q) : Append(q, m)[i] = q[i]
         /\ Append(q, m)[Len(q) + 1] = m
<1>1. PICK V : q \in Seq(V)
  BY DEF IsSeq
<1>2. q \in Seq(V \cup {m})
  BY <1>1
<1>3. Append(q, m) \in Seq(V \cup {m})
  BY <1>2
<1> QED
  BY <1>2, <1>3 DEF IsSeq

(* ... with a message less, ...                                              *)
LEMMA QueueTail ==
  ASSUME NEW q, IsSeq(q), q # << >>
  PROVE  /\ IsSeq(Tail(q)) /\ Len(q) \in Nat \ {0} /\ Len(Tail(q)) = Len(q) - 1 /\ Head(q) = q[1]
         /\ \A i \in 1..(Len(q) - 1) : Tail(q)[i] = q[i + 1]
<1>1. PICK V : q \in Seq(V)
  BY DEF IsSeq
<1> QED
  BY <1>1 DEF IsSeq

(* ... and two in a row.                                                     *)
LEMMA QueueConcat ==
  ASSUME NEW q, NEW r, IsSeq(q), IsSeq(r)
  PROVE  /\ IsSeq(q \o r) /\ Len(q) \in Nat /\ Len(r) \in Nat /\ Len(q \o r) = Len(q) + Len(r)
         /\ \A i \in 1..Len(q) : (q \o r)[i] = q[i]
         /\ \A i \in 1..Len(r) : (q \o r)[Len(q) + i] = r[i]
<1>1. PICK V : q \in Seq(V)
  BY DEF IsSeq
<1>2. PICK W : r \in Seq(W)
  BY DEF IsSeq
<1>3. q \in Seq(V \cup W) /\ r \in Seq(V \cup W)
  BY <1>1, <1>2
<1>4. q \o r \in Seq(V \cup W)
  BY <1>3
<1> QED
  BY <1>3, <1>4 DEF IsSeq

(* A function of places is a queue.                                          *)
LEMMA QueueOf ==
  ASSUME NEW n \in Nat, NEW f, f = [i \in 1..n |-> f[i]]
  PROVE  IsSeq(f) /\ Len(f) = n
<1> DEFINE V == {f[i] : i \in 1..n}
<1>1. f \in [1..n -> V]
  OBVIOUS
<1>2. f \in Seq(V)
  BY <1>1
<1> HIDE DEF V
<1> QED
  BY <1>1, <1>2 DEF IsSeq

(* The messages at some places of a queue, in their order.                   *)
LEMMA QueuePick ==
  ASSUME NEW q, IsSeq(q), NEW I \in SUBSET (1..Len(q))
  PROVE  /\ IsSeq(ElementsAt(q, I))
         /\ \E at \in [1..Len(ElementsAt(q, I)) -> I] :
              /\ \A k \in 1..Len(ElementsAt(q, I)) : ElementsAt(q, I)[k] = q[at[k]]
              /\ \A i \in I : \E k \in 1..Len(ElementsAt(q, I)) : at[k] = i
              /\ \A k, l \in 1..Len(ElementsAt(q, I)) : k < l => at[k] < at[l]
<1>1. PICK V : q \in Seq(V)
  BY DEF IsSeq
<1> DEFINE z == ElementsAt(q, I)
           at == Ascending(I)
<1>2. /\ IsFiniteSet(I) /\ z \in Seq(V) /\ Len(z) = Cardinality(I)
      /\ at \in [1..Cardinality(I) -> I]
      /\ \A k \in 1..Cardinality(I) : z[k] = q[at[k]]
  BY <1>1, ElementsAtFacts
<1>3. /\ \A i \in I : \E k \in 1..Cardinality(I) : at[k] = i
      /\ \A k, l \in 1..Cardinality(I) : k < l => at[k] < at[l]
  <2>1. \A x \in I : x \in Int
    BY <1>1
  <2> QED
    BY <1>2, <2>1, AscendingFacts
<1> HIDE DEF z, at
<1>4. IsSeq(z)
  BY <1>2 DEF IsSeq
<1>5. \E a \in [1..Len(z) -> I] :
        /\ \A k \in 1..Len(z) : z[k] = q[a[k]]
        /\ \A i \in I : \E k \in 1..Len(z) : a[k] = i
        /\ \A k, l \in 1..Len(z) : k < l => a[k] < a[l]
  BY <1>2, <1>3
<1> QED
  BY <1>4, <1>5 DEF z

(* A finite set as a queue: every member at one place.                       *)
LEMMA QueueOfSet ==
  ASSUME NEW S, IsFiniteSet(S)
  PROVE  LET q == SetToSeq(S) IN
         /\ IsSeq(q) /\ DOMAIN q = 1..Len(q)
         /\ \A i \in 1..Len(q) : q[i] \in S
         /\ \A x \in S : \E i \in 1..Len(q) : q[i] = x
         /\ \A i, j \in 1..Len(q) : q[i] = q[j] => i = j
<1> DEFINE n == Cardinality(S)
           q == SetToSeq(S)
<1>1. n \in Nat /\ ExistsBijection(1..n, S)
  BY FS_CardinalityType
<1>2. \E f \in [1..n -> S] : IsInjective(f)
  BY <1>1 DEF ExistsBijection, Bijection, Injection, IsInjective
<1>3. q \in [1..n -> S] /\ IsInjective(q)
  BY <1>2 DEF SetToSeq
<1>4. \A x \in S : \E i \in 1..n : q[i] = x
  <2> DEFINE T == {q[i] : i \in 1..n}
  <2>1. q \in Bijection(1..n, T)
    BY <1>3 DEF Bijection, Injection, Surjection, IsInjective
  <2>2. IsFiniteSet(1..n) /\ Cardinality(1..n) = n
    BY <1>1, CardUpTo
  <2>3. IsFiniteSet(T) /\ Cardinality(T) = n
    <3>1. ExistsBijection(1..n, T)
      BY <2>1 DEF ExistsBijection
    <3> HIDE DEF T, n
    <3> QED
      BY <2>2, <3>1, FS_Bijection
  <2>4. T \subseteq S
    BY <1>3
  <2> HIDE DEF T
  <2>5. T = S
    BY <2>3, <2>4, FS_Subset, FS_CardinalityType
  <2> QED
    BY <2>5 DEF T
<1>5. IsSeq(q) /\ Len(q) = n
  <2>1. q = [i \in 1..n |-> q[i]]
    BY <1>3
  <2> HIDE DEF q, n
  <2> QED
    BY <1>1, <2>1, QueueOf
<1> QED
  BY <1>3, <1>4, <1>5 DEF IsInjective

-----------------------------------------------------------------------------
(* What a queue says of a document.  A browser emits joins and leaves, ...   *)
Says(m, what, d) == m.type = what /\ m.doc = d
Holds(q, what, d) == \E i \in 1..Len(q) : Says(q[i], what, d)

(* ... of which each of one kind is followed by one of the other kind, ...   *)
Followed(q, what, by, d) ==
  \A i \in 1..Len(q) : Says(q[i], what, d) => \E j \in 1..Len(q) : i < j /\ Says(q[j], by, d)

(* ... and the server sends lists of participants, of which the newest       *)
(* counts, if there is one.                                                  *)
Lists(m, d) == m.type \in {"joined", "presence"} /\ m.doc = d
Silent(q, d) == \A i \in 1..Len(q) : ~Lists(q[i], d)
Newest(q, d, p) ==
  \E i \in 1..Len(q) :
    /\ Lists(q[i], d) /\ q[i].participants = p
    /\ \A j \in 1..Len(q) : i < j => ~Lists(q[j], d)

Documented(q) == IsSeq(q) /\ \A i \in 1..Len(q) : q[i].doc \in Doc

(* What is added to a queue stays in it, and behind what was there.          *)
LEMMA HoldsConcat ==
  ASSUME NEW q, NEW r, IsSeq(q), IsSeq(r), NEW what, NEW d
  PROVE  Holds(q \o r, what, d) <=> Holds(q, what, d) \/ Holds(r, what, d)
<1>1. /\ Len(q) \in Nat /\ Len(r) \in Nat /\ Len(q \o r) = Len(q) + Len(r)
      /\ \A i \in 1..Len(q) : (q \o r)[i] = q[i]
      /\ \A i \in 1..Len(r) : (q \o r)[Len(q) + i] = r[i]
  BY QueueConcat
<1>2. ASSUME NEW i \in 1..Len(q \o r), Says((q \o r)[i], what, d)
      PROVE  Holds(q, what, d) \/ Holds(r, what, d)
  <2>1. CASE i \in 1..Len(q)
    BY <1>1, <1>2, <2>1 DEF Holds
  <2>2. CASE i \notin 1..Len(q)
    <3>1. i - Len(q) \in 1..Len(r) /\ Len(q) + (i - Len(q)) = i
      BY <1>1, <2>2
    <3> QED
      BY <1>1, <1>2, <3>1 DEF Holds
  <2> QED
    BY <2>1, <2>2
<1>3. ASSUME NEW i \in 1..Len(q), Says(q[i], what, d)
      PROVE  Holds(q \o r, what, d)
  <2>1. i \in 1..Len(q \o r)
    BY <1>1
  <2> QED
    BY <1>1, <1>3, <2>1 DEF Holds
<1>4. ASSUME NEW i \in 1..Len(r), Says(r[i], what, d)
      PROVE  Holds(q \o r, what, d)
  <2>1. Len(q) + i \in 1..Len(q \o r)
    BY <1>1
  <2> QED
    BY <1>1, <1>4, <2>1 DEF Holds
<1> QED
  BY <1>2, <1>3, <1>4 DEF Holds

(* Everything before a last message of the other kind is followed.           *)
LEMMA FollowedConcat ==
  ASSUME NEW q, NEW r, IsSeq(q), IsSeq(r), NEW what, NEW by, NEW d,
         Holds(r, by, d) \/ (Followed(q, what, by, d) /\ ~Holds(r, what, d)), Followed(r, what, by, d)
  PROVE  Followed(q \o r, what, by, d)
<1>1. /\ Len(q) \in Nat /\ Len(r) \in Nat /\ Len(q \o r) = Len(q) + Len(r)
      /\ \A i \in 1..Len(q) : (q \o r)[i] = q[i]
      /\ \A i \in 1..Len(r) : (q \o r)[Len(q) + i] = r[i]
  BY QueueConcat
<1> SUFFICES ASSUME NEW i \in 1..Len(q \o r), Says((q \o r)[i], what, d)
             PROVE  \E j \in 1..Len(q \o r) : i < j /\ Says((q \o r)[j], by, d)
  BY DEF Followed
<1>2. CASE i \in 1..Len(q) /\ Holds(r, by, d)
  <2>1. PICK j \in 1..Len(r) : Says(r[j], by, d)
    BY <1>2 DEF Holds
  <2>2. Len(q) + j \in 1..Len(q \o r) /\ i < Len(q) + j
    BY <1>1, <1>2
  <2> QED
    BY <1>1, <2>1, <2>2
<1>3. CASE i \in 1..Len(q) /\ ~Holds(r, by, d)
  <2>1. PICK j \in 1..Len(q) : i < j /\ Says(q[j], by, d)
    BY <1>1, <1>3 DEF Followed
  <2>2. j \in 1..Len(q \o r)
    BY <1>1
  <2> QED
    BY <1>1, <2>1, <2>2
<1>4. CASE i \notin 1..Len(q)
  <2>1. i - Len(q) \in 1..Len(r) /\ Len(q) + (i - Len(q)) = i
    BY <1>1, <1>4
  <2>2. PICK k \in 1..Len(r) : k = i - Len(q)
    BY <2>1
  <2>3. Says(r[k], what, d)
    BY <1>1, <2>1, <2>2
  <2>4. PICK j \in 1..Len(r) : k < j /\ Says(r[j], by, d)
    BY <2>3 DEF Followed
  <2>5. Len(q) + j \in 1..Len(q \o r) /\ i < Len(q) + j
    BY <1>1, <2>2, <2>4
  <2> QED
    BY <1>1, <2>4, <2>5
<1> QED
  BY <1>2, <1>3, <1>4

(* Taking the first message off changes what the queue says by that one.     *)
LEMMA HoldsTail ==
  ASSUME NEW q, IsSeq(q), q # << >>, NEW what, NEW d
  PROVE  Holds(q, what, d) <=> Says(Head(q), what, d) \/ Holds(Tail(q), what, d)
<1>1. /\ IsSeq(Tail(q)) /\ Len(q) \in Nat \ {0} /\ Len(Tail(q)) = Len(q) - 1 /\ Head(q) = q[1]
      /\ \A i \in 1..(Len(q) - 1) : Tail(q)[i] = q[i + 1]
  BY QueueTail
<1>2. ASSUME NEW i \in 1..Len(q), Says(q[i], what, d)
      PROVE  Says(Head(q), what, d) \/ Holds(Tail(q), what, d)
  <2>1. CASE i = 1
    BY <1>1, <1>2, <2>1
  <2>2. CASE i # 1
    <3>1. i - 1 \in 1..(Len(q) - 1) /\ (i - 1) + 1 = i
      BY <1>1, <2>2
    <3> QED
      BY <1>1, <1>2, <3>1 DEF Holds
  <2> QED
    BY <2>1, <2>2
<1>3. ASSUME NEW i \in 1..(Len(q) - 1), Says(Tail(q)[i], what, d)
      PROVE  Holds(q, what, d)
  <2>1. i + 1 \in 1..Len(q)
    BY <1>1
  <2> QED
    BY <1>1, <1>3, <2>1 DEF Holds
<1>4. 1 \in 1..Len(q)
  BY <1>1
<1> QED
  BY <1>1, <1>2, <1>3, <1>4 DEF Holds

(* What follows what outlives the message that is taken off.                 *)
LEMMA FollowedTail ==
  ASSUME NEW q, IsSeq(q), q # << >>, NEW what, NEW by, NEW d, Followed(q, what, by, d)
  PROVE  /\ Followed(Tail(q), what, by, d)
         /\ Says(Head(q), what, d) => Holds(Tail(q), by, d)
<1>1. /\ IsSeq(Tail(q)) /\ Len(q) \in Nat \ {0} /\ Len(Tail(q)) = Len(q) - 1 /\ Head(q) = q[1]
      /\ \A i \in 1..(Len(q) - 1) : Tail(q)[i] = q[i + 1]
  BY QueueTail
<1>2. ASSUME NEW i \in 1..(Len(q) - 1), Says(Tail(q)[i], what, d)
      PROVE  \E j \in 1..(Len(q) - 1) : i < j /\ Says(Tail(q)[j], by, d)
  <2>1. i + 1 \in 1..Len(q) /\ Says(q[i + 1], what, d)
    BY <1>1, <1>2
  <2>2. PICK j \in 1..Len(q) : i + 1 < j /\ Says(q[j], by, d)
    BY <2>1 DEF Followed
  <2>3. j - 1 \in 1..(Len(q) - 1) /\ i < j - 1 /\ (j - 1) + 1 = j
    BY <1>1, <2>2
  <2> QED
    BY <1>1, <2>2, <2>3
<1>3. ASSUME Says(Head(q), what, d) PROVE Holds(Tail(q), by, d)
  <2>1. 1 \in 1..Len(q) /\ Says(q[1], what, d)
    BY <1>1, <1>3
  <2>2. PICK j \in 1..Len(q) : 1 < j /\ Says(q[j], by, d)
    BY <2>1 DEF Followed
  <2>3. j - 1 \in 1..(Len(q) - 1) /\ (j - 1) + 1 = j
    BY <1>1, <2>2
  <2> QED
    BY <1>1, <2>2, <2>3 DEF Holds
<1> QED
  BY <1>1, <1>2, <1>3 DEF Followed

-----------------------------------------------------------------------------
(* The newest list of a queue is the newest of the end that has one.         *)
LEMMA NewestOfEnd ==
  ASSUME NEW q, NEW r, IsSeq(q), IsSeq(r), NEW d, NEW p, Newest(r, d, p)
  PROVE  Newest(q \o r, d, p)
<1>1. /\ Len(q) \in Nat /\ Len(r) \in Nat /\ Len(q \o r) = Len(q) + Len(r)
      /\ \A i \in 1..Len(q) : (q \o r)[i] = q[i]
      /\ \A i \in 1..Len(r) : (q \o r)[Len(q) + i] = r[i]
  BY QueueConcat
<1>2. PICK i \in 1..Len(r) :
        /\ Lists(r[i], d) /\ r[i].participants = p
        /\ \A j \in 1..Len(r) : i < j => ~Lists(r[j], d)
  BY DEF Newest
<1>3. Len(q) + i \in 1..Len(q \o r) /\ (q \o r)[Len(q) + i] = r[i]
  BY <1>1
<1>4. ASSUME NEW j \in 1..Len(q \o r), Len(q) + i < j
      PROVE  ~Lists((q \o r)[j], d)
  <2>1. j - Len(q) \in 1..Len(r) /\ Len(q) + (j - Len(q)) = j /\ i < j - Len(q)
    BY <1>1, <1>4
  <2> QED
    BY <1>1, <1>2, <2>1
<1> QED
  BY <1>2, <1>3, <1>4 DEF Newest

(* ... or of the beginning, if nothing comes after it.                       *)
LEMMA NewestOfBeginning ==
  ASSUME NEW q, NEW r, IsSeq(q), IsSeq(r), NEW d, NEW p, Newest(q, d, p), Silent(r, d)
  PROVE  Newest(q \o r, d, p)
<1>1. /\ Len(q) \in Nat /\ Len(r) \in Nat /\ Len(q \o r) = Len(q) + Len(r)
      /\ \A i \in 1..Len(q) : (q \o r)[i] = q[i]
      /\ \A i \in 1..Len(r) : (q \o r)[Len(q) + i] = r[i]
  BY QueueConcat
<1>2. PICK i \in 1..Len(q) :
        /\ Lists(q[i], d) /\ q[i].participants = p
        /\ \A j \in 1..Len(q) : i < j => ~Lists(q[j], d)
  BY DEF Newest
<1>3. i \in 1..Len(q \o r) /\ (q \o r)[i] = q[i]
  BY <1>1
<1>4. ASSUME NEW j \in 1..Len(q \o r), i < j
      PROVE  ~Lists((q \o r)[j], d)
  <2>1. CASE j \in 1..Len(q)
    BY <1>1, <1>2, <1>4, <2>1
  <2>2. CASE j \notin 1..Len(q)
    <3>1. j - Len(q) \in 1..Len(r) /\ Len(q) + (j - Len(q)) = j
      BY <1>1, <2>2
    <3> QED
      BY <1>1, <3>1 DEF Silent
  <2> QED
    BY <2>1, <2>2
<1> QED
  BY <1>2, <1>3, <1>4 DEF Newest

(* Two queues without a list make one without.                               *)
LEMMA SilentConcat ==
  ASSUME NEW q, NEW r, IsSeq(q), IsSeq(r), NEW d, Silent(q, d), Silent(r, d)
  PROVE  Silent(q \o r, d)
<1>1. /\ Len(q) \in Nat /\ Len(r) \in Nat /\ Len(q \o r) = Len(q) + Len(r)
      /\ \A i \in 1..Len(q) : (q \o r)[i] = q[i]
      /\ \A i \in 1..Len(r) : (q \o r)[Len(q) + i] = r[i]
  BY QueueConcat
<1> SUFFICES ASSUME NEW i \in 1..Len(q \o r)
             PROVE  ~Lists((q \o r)[i], d)
  BY DEF Silent
<1>2. CASE i \in 1..Len(q)
  BY <1>1, <1>2 DEF Silent
<1>3. CASE i \notin 1..Len(q)
  <2>1. i - Len(q) \in 1..Len(r) /\ Len(q) + (i - Len(q)) = i
    BY <1>1, <1>3
  <2> QED
    BY <1>1, <2>1 DEF Silent
<1> QED
  BY <1>2, <1>3

(* Choosing messages, all lists of d among them, keeps what they say.        *)
LEMMA PickedLists ==
  ASSUME NEW q, IsSeq(q), NEW I \in SUBSET (1..Len(q)), NEW d,
         \A i \in 1..Len(q) : Lists(q[i], d) => i \in I
  PROVE  /\ Silent(q, d) => Silent(ElementsAt(q, I), d)
         /\ \A p : Newest(q, d, p) => Newest(ElementsAt(q, I), d, p)
<1>0. PICK z : z = ElementsAt(q, I)
  OBVIOUS
<1>1. PICK at \in [1..Len(z) -> I] :
        /\ \A k \in 1..Len(z) : z[k] = q[at[k]]
        /\ \A i \in I : \E k \in 1..Len(z) : at[k] = i
        /\ \A k, l \in 1..Len(z) : k < l => at[k] < at[l]
  BY <1>0, QueuePick
<1>2. Silent(q, d) => Silent(z, d)
  BY <1>1 DEF Silent
<1>3. ASSUME NEW p, Newest(q, d, p) PROVE Newest(z, d, p)
  <2>1. PICK i \in 1..Len(q) :
          /\ Lists(q[i], d) /\ q[i].participants = p
          /\ \A j \in 1..Len(q) : i < j => ~Lists(q[j], d)
    BY <1>3 DEF Newest
  <2>2. PICK k \in 1..Len(z) : at[k] = i
    BY <1>1, <2>1
  <2>3. z[k] = q[i]
    BY <1>1, <2>2
  <2>4. \A l \in 1..Len(z) : k < l => ~Lists(z[l], d)
    BY <1>1, <2>1, <2>2
  <2> QED
    BY <2>1, <2>3, <2>4 DEF Newest
<1> QED
  BY <1>0, <1>2, <1>3

(* A message that is not a list of d leaves the queue as it was for d, and   *)
(* one that is may have been the newest.                                     *)
LEMMA ListsTail ==
  ASSUME NEW q, IsSeq(q), q # << >>, NEW d
  PROVE  /\ Silent(q, d) => Silent(Tail(q), d) /\ ~Lists(Head(q), d)
         /\ \A p : Newest(q, d, p) =>
              \/ Newest(Tail(q), d, p)
              \/ Silent(Tail(q), d) /\ Lists(Head(q), d) /\ Head(q).participants = p
<1>1. /\ IsSeq(Tail(q)) /\ Len(q) \in Nat \ {0} /\ Len(Tail(q)) = Len(q) - 1 /\ Head(q) = q[1]
      /\ \A i \in 1..(Len(q) - 1) : Tail(q)[i] = q[i + 1]
  BY QueueTail
<1>2. ASSUME Silent(q, d) PROVE Silent(Tail(q), d) /\ ~Lists(Head(q), d)
  BY <1>1, <1>2 DEF Silent
<1>3. ASSUME NEW p, Newest(q, d, p)
      PROVE  \/ Newest(Tail(q), d, p)
             \/ Silent(Tail(q), d) /\ Lists(Head(q), d) /\ Head(q).participants = p
  <2>1. PICK i \in 1..Len(q) :
          /\ Lists(q[i], d) /\ q[i].participants = p
          /\ \A j \in 1..Len(q) : i < j => ~Lists(q[j], d)
    BY <1>3 DEF Newest
  <2>2. CASE i = 1
    BY <1>1, <2>1, <2>2 DEF Silent
  <2>3. CASE i # 1
    <3>1. i - 1 \in 1..(Len(q) - 1) /\ (i - 1) + 1 = i
      BY <1>1, <2>3
    <3>2. PICK k \in 1..(Len(q) - 1) : k = i - 1 /\ k + 1 = i
      BY <3>1
    <3>3. Tail(q)[k] = q[i]
      BY <1>1, <3>2
    <3>4. \A j \in 1..(Len(q) - 1) : k < j => ~Lists(Tail(q)[j], d)
      BY <1>1, <2>1, <3>2
    <3> QED
      BY <1>1, <2>1, <3>3, <3>4 DEF Newest
  <2> QED
    BY <2>2, <2>3
<1> QED
  BY <1>2, <1>3

(* A queue of one message.                                                   *)
LEMMA OneMessage ==
  ASSUME NEW m
  PROVE  /\ IsSeq(<< m >>) /\ Len(<< m >>) = 1 /\ << m >>[1] = m
         /\ \A q : IsSeq(q) => Append(q, m) = q \o << m >>
         /\ \A d : Lists(m, d) => Newest(<< m >>, d, m.participants)
         /\ \A d : ~Lists(m, d) => Silent(<< m >>, d)
<1>1. << m >> \in Seq({m}) /\ Len(<< m >>) = 1 /\ << m >>[1] = m
  OBVIOUS
<1>2. ASSUME NEW q, IsSeq(q) PROVE Append(q, m) = q \o << m >>
  <2>1. PICK V : q \in Seq(V)
    BY <1>2 DEF IsSeq
  <2>2. q \in Seq(V \cup {m})
    BY <2>1
  <2> QED
    BY <2>2, AppendIsConcat
<1>3. ASSUME NEW d, Lists(m, d) PROVE Newest(<< m >>, d, m.participants)
  <2>1. PICK q : q = << m >>
    OBVIOUS
  <2>2. Len(q) = 1 /\ q[1] = m /\ 1 \in 1..1
    BY <1>1, <2>1
  <2>3. Newest(q, d, m.participants)
    BY <1>3, <2>2 DEF Newest
  <2> QED
    BY <2>1, <2>3
<1>4. ASSUME NEW d, ~Lists(m, d) PROVE Silent(<< m >>, d)
  BY <1>1, <1>4 DEF Silent
<1>5. IsSeq(<< m >>)
  BY <1>1 DEF IsSeq
<1> QED
  BY <1>1, <1>2, <1>3, <1>4, <1>5

-----------------------------------------------------------------------------
(* The handlers of the server, member by member. *)

(* A join that is received waits.                                            *)
LEMMA JoinEffect ==
  ASSUME PInv, NEW s \in Socket, NEW d \in Doc, receiveJoin(s, d)
  PROVE  /\ joining'[s][d] > 0
         /\ \A z \in Socket, e \in Doc : z # s \/ e # d => joining'[z][e] = joining[z][e]
  BY DEF receiveJoin, PInv, MembershipTypeOK

(* One that resumes is refused, and remembered, or enters the document.      *)
LEMMA ResumeEffect ==
  ASSUME PInv, NEW s \in Socket, NEW d \in Doc, resumeJoin(s, d)
  PROVE  /\ \A z \in Socket, e \in Doc : z # s \/ e # d => joining'[z][e] = joining[z][e]
         /\ \A z \in Socket, e \in Doc : joining'[z][e] <= joining[z][e]
         /\ joining[s][d] > 0
         /\ \A z \in Socket, e \in Doc :
              z \in byDocument'[e] => z \in byDocument[e] \/ (z = s /\ e = d)
         /\ \A e \in Doc : byDocument[e] \subseteq byDocument'[e]
         /\ \A e \in Doc \ {d} : byDocument'[e] = byDocument[e]
         /\ << s, d >> \in refused' \/ s \in byDocument'[d]
         /\ refused \subseteq refused'
<1> USE DEF PInv
<1>1. joining[s][d] > 0 /\ joining' = [joining EXCEPT ![s][d] = @ - 1]
  BY DEF resumeJoin
<1>2. /\ \A z \in Socket, e \in Doc : z # s \/ e # d => joining'[z][e] = joining[z][e]
      /\ joining'[s][d] = joining[s][d] - 1
  BY <1>1 DEF MembershipTypeOK
<1>3. \A z \in Socket, e \in Doc : joining'[z][e] <= joining[z][e]
  BY <1>2 DEF MembershipTypeOK
<1>4. CASE byDocument' = byDocument /\ refused' = refused \cup {<< s, d >>}
  BY <1>1, <1>2, <1>3, <1>4
<1>5. CASE byDocument' = Including(byDocument, s, d) /\ UNCHANGED refused
  <2>1. /\ byDocument'[d] = byDocument[d] \cup {s}
        /\ \A e \in Doc \ {d} : byDocument'[e] = byDocument[e]
    BY <1>5 DEF Including, MembershipTypeOK
  <2> QED
    BY <1>1, <1>2, <1>3, <1>5, <2>1
<1> QED
  BY <1>4, <1>5 DEF resumeJoin

(* One that leaves is out, and joins that wait are remembered.               *)
LEMMA LeaveEffect ==
  ASSUME PInv, NEW s \in Socket, NEW d \in Doc, receiveLeave(s, d)
  PROVE  /\ s \notin byDocument'[d]
         /\ \A e \in Doc : byDocument'[e] \subseteq byDocument[e]
         /\ \A e \in Doc \ {d} : byDocument'[e] = byDocument[e]
         /\ \A e \in Doc, z \in Socket : z # s /\ z \in byDocument[e] => z \in byDocument'[e]
         /\ \A z \in Socket : sessions'[z] \subseteq sessions[z]
         /\ joining[s][d] > 0 => << s, d >> \in overtaken'
         /\ overtaken \subseteq overtaken'
         /\ UNCHANGED <<joining, refused, inbox, user, connected>>
<1> USE DEF PInv
<1>1. /\ overtaken' = overtaken \cup {p \in {<< s, d >>} : joining[s][d] > 0}
      /\ UNCHANGED <<joining, refused, inbox, user, connected>>
  BY DEF receiveLeave
<1>2. CASE sessions[s] = {} /\ UNCHANGED <<sessions, byDocument>>
  <2>1. s \notin byDocument[d]
    BY <1>2 DEF PresenceIsConsistent
  <2> QED
    BY <1>1, <1>2, <2>1
<1>3. CASE sessions' = [sessions EXCEPT ![s] = @ \ {d}] /\ byDocument' = Excluding(byDocument, s, {d})
  <2>1. \A e \in Doc : byDocument'[e] = IF e = d THEN byDocument[e] \ {s} ELSE byDocument[e]
    BY <1>3 DEF Excluding
  <2>2. \A z \in Socket : sessions'[z] \subseteq sessions[z]
    BY <1>3 DEF MembershipTypeOK
  <2> QED
    BY <1>1, <2>1, <2>2
<1> QED
  BY <1>2, <1>3 DEF receiveLeave

(* A socket that goes takes only itself away.                                *)
LEMMA DisconnectEffect ==
  ASSUME PInv, NEW s \in Socket, disconnect(s)
  PROVE  /\ \A e \in Doc : byDocument'[e] = IF e \in sessions[s] THEN byDocument[e] \ {s} ELSE byDocument[e]
         /\ \A z \in Socket : sessions'[z] \subseteq sessions[z]
         /\ connected' = connected \ {s}
         /\ inbox' = [inbox EXCEPT ![s] = << >>]
         /\ UNCHANGED <<joining, refused, overtaken, user>>
  BY DEF disconnect, Excluding, PInv, MembershipTypeOK

-----------------------------------------------------------------------------
(* Sockets and their owners. *)

(* A socket nobody has used yet is nowhere.                                  *)
FreshSockets ==
  /\ user \in [Socket -> User \cup {Nobody}]
  /\ \A s \in Socket :
       user[s] = Nobody =>
         s \notin connected /\ sessions[s] = {} /\ \A d \in Doc : joining[s][d] = 0

(* A tab's socket is connected, and its own.                                 *)
OwnedSockets ==
  /\ \A t \in Tab : socketOf[t] # NoSocket => socketOf[t] \in connected
  /\ \A t, u \in Tab : t # u /\ socketOf[t] # NoSocket => socketOf[t] # socketOf[u]

SInv == CInv /\ FreshSockets /\ OwnedSockets

(* In the beginning no tab has a socket.                                     *)
LEMMA SInvInit == Init => SInv
<1> SUFFICES ASSUME Init PROVE SInv
  OBVIOUS
<1>1. PInv /\ SocketTypeOK
  BY PInvInit DEF Init, SocketTypeOK
<1>2. FreshSockets
  BY DEF Init, GatewayInit, FreshSockets
<1>3. OwnedSockets
  BY DEF Init, OwnedSockets
<1> QED
  BY <1>1, <1>2, <1>3 DEF SInv, CInv

(* The effects on sockets of one handler after the other.                    *)
LEMMA SocketsQuiet ==
  ASSUME FreshSockets, OwnedSockets, UNCHANGED <<user, connected, sessions, joining, socketOf>>
  PROVE  FreshSockets' /\ OwnedSockets'
  BY DEF FreshSockets, OwnedSockets

(* A tab gets a socket that was never used.                                  *)
LEMMA SocketsOpen ==
  ASSUME SInv, NEW t \in Tab, open(t)
  PROVE  FreshSockets' /\ OwnedSockets'
<1>1. PICK s \in Socket :
        /\ socketOf[t] = NoSocket /\ user[s] = Nobody
        /\ connect(s, UserOf[t]) /\ socketOf' = [socketOf EXCEPT ![t] = s]
  BY DEF open
<1>2. /\ user' = [user EXCEPT ![s] = UserOf[t]] /\ connected' = connected \cup {s}
      /\ UNCHANGED <<sessions, joining>>
  BY <1>1 DEF connect
<1>3. UserOf[t] \in User /\ UserOf[t] # Nobody
  BY ClientAssumption, UserAssumption
<1>4. FreshSockets'
  BY <1>2, <1>3 DEF FreshSockets, SInv
<1>5. \A u \in Tab : socketOf[u] # s
  BY <1>1, NoneAssumption DEF SInv, OwnedSockets, FreshSockets
<1>6. \A u \in Tab : socketOf'[u] = IF u = t THEN s ELSE socketOf[u]
  BY <1>1 DEF SInv, CInv, SocketTypeOK
<1>7. OwnedSockets'
  BY <1>2, <1>5, <1>6 DEF OwnedSockets, SInv
<1> QED
  BY <1>4, <1>7

(* A tab that loses its socket leaves it to the server.                      *)
LEMMA SocketsLose ==
  ASSUME SInv, NEW t \in Tab, lose(t)
  PROVE  FreshSockets' /\ OwnedSockets'
<1>1. socketOf' = [socketOf EXCEPT ![t] = NoSocket] /\ UNCHANGED <<user, connected, sessions, joining>>
  BY DEF lose, gatewayVars, presenceVars
<1>2. \A u \in Tab : socketOf'[u] = IF u = t THEN NoSocket ELSE socketOf[u]
  BY <1>1 DEF SInv, CInv, SocketTypeOK
<1>3. FreshSockets'
  BY <1>1 DEF FreshSockets, SInv
<1>4. OwnedSockets'
  BY <1>1, <1>2 DEF OwnedSockets, SInv
<1> QED
  BY <1>3, <1>4

(* Only a socket that is connected joins, ...                                *)
LEMMA SocketsJoin ==
  ASSUME SInv, NEW s \in Socket, s \in connected, NEW d \in Doc, receiveJoin(s, d), UNCHANGED socketOf
  PROVE  FreshSockets' /\ OwnedSockets'
<1>1. UNCHANGED <<user, connected, sessions, socketOf>>
  BY DEF receiveJoin
<1>2. \A z \in Socket : user[z] = Nobody => z # s
  BY DEF SInv, FreshSockets
<1>3. \A z \in Socket, e \in Doc : z # s \/ e # d => joining'[z][e] = joining[z][e]
  BY JoinEffect DEF SInv, CInv
<1>4. FreshSockets'
  BY <1>1, <1>2, <1>3 DEF FreshSockets, SInv
<1> QED
  BY <1>1, <1>4 DEF OwnedSockets, SInv

(* ... or still waits to, ...                                                *)
LEMMA SocketsResume ==
  ASSUME SInv, NEW s \in Socket, NEW d \in Doc, resumeJoin(s, d), UNCHANGED socketOf
  PROVE  FreshSockets' /\ OwnedSockets'
<1>1. UNCHANGED <<user, connected, socketOf>> /\ joining[s][d] > 0
  BY DEF resumeJoin
<1>2. \A z \in Socket : user[z] = Nobody => z # s
  BY <1>1 DEF SInv, FreshSockets
<1>3. \A z \in Socket : z # s => sessions'[z] = sessions[z]
  BY DEF resumeJoin, SInv, CInv, PInv, MembershipTypeOK
<1>5. \A z \in Socket, e \in Doc : z # s => joining'[z][e] = joining[z][e]
  BY ResumeEffect DEF SInv, CInv
<1>4. FreshSockets'
  BY <1>1, <1>2, <1>3, <1>5 DEF FreshSockets, SInv
<1> QED
  BY <1>1, <1>4 DEF OwnedSockets, SInv

(* ... or leaves.                                                            *)
LEMMA SocketsLeave ==
  ASSUME SInv, NEW s \in Socket, NEW d \in Doc, receiveLeave(s, d), UNCHANGED socketOf
  PROVE  FreshSockets' /\ OwnedSockets'
<1>1. /\ UNCHANGED <<user, connected, socketOf, joining>>
      /\ \A z \in Socket : sessions'[z] \subseteq sessions[z]
  BY LeaveEffect DEF SInv, CInv
<1>2. FreshSockets'
  BY <1>1 DEF FreshSockets, SInv
<1> QED
  BY <1>1, <1>2 DEF OwnedSockets, SInv

(* The server drops sockets no tab has.                                      *)
LEMMA SocketsNotice ==
  ASSUME SInv, NEW s \in Socket, notice(s)
  PROVE  FreshSockets' /\ OwnedSockets'
<1>1. /\ UNCHANGED <<user, socketOf, joining>> /\ connected' = connected \ {s}
      /\ \A z \in Socket : sessions'[z] \subseteq sessions[z]
  BY DisconnectEffect DEF SInv, CInv, notice, tabVars
<1>2. \A t \in Tab : socketOf[t] # s
  BY DEF notice, Abandoned
<1>3. FreshSockets'
  BY <1>1 DEF FreshSockets, SInv
<1>4. OwnedSockets'
  BY <1>1, <1>2 DEF OwnedSockets, SInv
<1> QED
  BY <1>3, <1>4

-----------------------------------------------------------------------------
(* Whoever changes the participants of a document publishes them. *)

(* The queue is longer by r, which has the participants of every document    *)
(* that changed.                                                             *)
Republishes(r) ==
  /\ Documented(r) /\ buffer' = buffer \o r
  /\ \A e \in Doc : \/ Newest(r, e, byDocument'[e])
                    \/ Silent(r, e) /\ byDocument'[e] = byDocument[e]

OnlyPresence(r) == \A i \in 1..Len(r) : r[i].type = "presence"

(* Nothing is published if nothing changed, ...                              *)
LEMMA PublishesNothing ==
  ASSUME IsSeq(buffer), UNCHANGED <<buffer, byDocument>>
  PROVE  Republishes(<< >>) /\ OnlyPresence(<< >>)
<1>1. IsSeq(<< >>) /\ Len(<< >>) = 0
  BY EmptyQueue
<1>2. buffer \o << >> = buffer
  <2>1. PICK V : buffer \in Seq(V)
    BY DEF IsSeq
  <2> QED
    BY <2>1, ConcatEmptySeq
<1> QED
  BY <1>1, <1>2 DEF Republishes, Documented, OnlyPresence, Silent

(* ... one list if one document did, ...                                     *)
LEMMA PublishesOne ==
  ASSUME IsSeq(buffer), NEW d \in Doc, publish(PresenceEvent(d, byDocument')),
         \A e \in Doc \ {d} : byDocument'[e] = byDocument[e]
  PROVE  \E r : Republishes(r) /\ OnlyPresence(r) /\ Newest(r, d, byDocument'[d])
<1>1. PICK m : m = [type |-> "presence", doc |-> d, sequence |-> sequences[d] + 1,
                    participants |-> byDocument'[d]]
  OBVIOUS
<1>2. buffer' = Append(buffer, m)
  BY <1>1 DEF publish, Enveloped, PresenceEvent
<1>3. PICK r : r = << m >>
  OBVIOUS
<1>4. /\ IsSeq(r) /\ Len(r) = 1 /\ r[1] = m /\ buffer' = buffer \o r
      /\ Lists(m, d) => Newest(r, d, m.participants)
      /\ \A e : ~Lists(m, e) => Silent(r, e)
  BY <1>2, <1>3, OneMessage
<1>5. m.type = "presence" /\ m.doc = d /\ m.participants = byDocument'[d]
  BY <1>1
<1>6. Newest(r, d, byDocument'[d])
  BY <1>4, <1>5 DEF Lists
<1>7. \A e \in Doc \ {d} : Silent(r, e)
  BY <1>4, <1>5 DEF Lists
<1>8. Documented(r) /\ OnlyPresence(r)
  BY <1>4, <1>5 DEF Documented, OnlyPresence
<1> QED
  BY <1>4, <1>6, <1>7, <1>8 DEF Republishes

(* ... and one list for each document that did.                              *)
LEMMA PublishesAll ==
  ASSUME IsSeq(buffer), NEW docs \in SUBSET Doc, IsFiniteSet(docs), publishAll(docs, byDocument'),
         \A e \in Doc \ docs : byDocument'[e] = byDocument[e]
  PROVE  \E r : Republishes(r) /\ OnlyPresence(r)
<1>1. PICK q : q = SetToSeq(docs)
  OBVIOUS
<1>2. /\ IsSeq(q) /\ DOMAIN q = 1..Len(q)
      /\ \A i \in 1..Len(q) : q[i] \in docs
      /\ \A x \in docs : \E i \in 1..Len(q) : q[i] = x
      /\ \A i, j \in 1..Len(q) : q[i] = q[j] => i = j
  BY <1>1, QueueOfSet
<1>3. PICK r : r = [i \in 1..Len(q) |-> [type |-> "presence", doc |-> q[i],
                                        sequence |-> sequences[q[i]] + 1,
                                        participants |-> byDocument'[q[i]]]]
  OBVIOUS
<1>4. buffer' = buffer \o r
  <2>1. r = [i \in DOMAIN SetToSeq(docs) |-> Enveloped(PresenceEvent(SetToSeq(docs)[i], byDocument'))]
    BY <1>1, <1>2, <1>3 DEF Enveloped, PresenceEvent
  <2> QED
    BY <2>1 DEF publishAll
<1>5. IsSeq(r) /\ Len(r) = Len(q)
  <2>1. Len(q) \in Nat
    BY <1>2, QueueFacts
  <2>2. r = [i \in 1..Len(q) |-> r[i]]
    BY <1>3
  <2> QED
    BY <2>1, <2>2, QueueOf
<1>6. \A i \in 1..Len(q) : /\ r[i].type = "presence" /\ r[i].doc = q[i]
                           /\ r[i].participants = byDocument'[q[i]]
  BY <1>3
<1>7. ASSUME NEW e \in docs PROVE Newest(r, e, byDocument'[e])
  <2>1. PICK i \in 1..Len(q) : q[i] = e
    BY <1>2
  <2>2. Lists(r[i], e) /\ r[i].participants = byDocument'[e]
    BY <1>6, <2>1 DEF Lists
  <2>3. \A j \in 1..Len(r) : i < j => ~Lists(r[j], e)
    <3> SUFFICES ASSUME NEW j \in 1..Len(r), i < j, Lists(r[j], e) PROVE FALSE
      OBVIOUS
    <3>1. q[j] = e
      BY <1>5, <1>6 DEF Lists
    <3>2. Len(q) \in Nat
      BY <1>2, QueueFacts
    <3> QED
      BY <1>2, <1>5, <2>1, <3>1, <3>2
  <2> QED
    BY <1>5, <2>2, <2>3 DEF Newest
<1>8. ASSUME NEW e \in Doc \ docs PROVE Silent(r, e)
  BY <1>2, <1>5, <1>6, <1>8 DEF Silent, Lists
<1>9. Documented(r) /\ OnlyPresence(r)
  BY <1>2, <1>5, <1>6 DEF Documented, OnlyPresence
<1> QED
  BY <1>4, <1>7, <1>8, <1>9 DEF Republishes

(* A join that enters the document is told so, and so is everybody in it.    *)
LEMMA ResumePublishes ==
  ASSUME PInv, IsSeq(buffer), NEW s \in Socket, NEW d \in Doc, resumeJoin(s, d)
  PROVE  \E r : /\ Republishes(r) /\ OnlyPresence(r)
                /\ \/ inbox' = inbox
                   \/ \E m : /\ m.type = "joined" /\ m.doc = d
                             /\ inbox' = [inbox EXCEPT ![s] = Append(@, m)]
                /\ << s, d >> \in refused' \/ Newest(r, d, byDocument'[d])
                /\ inbox' # inbox => Newest(r, d, byDocument'[d])
<1>1. CASE /\ refused' = refused \cup {<< s, d >>}
           /\ UNCHANGED <<queueVars, rooms, sessions, byDocument, inbox>>
  BY <1>1, PublishesNothing DEF queueVars
<1>2. CASE /\ publish(PresenceEvent(d, byDocument'))
           /\ emit(s, [type |-> "joined", doc |-> d, participants |-> byDocument'[d]])
  <2>1. \A e \in Doc \ {d} : byDocument'[e] = byDocument[e]
    BY ResumeEffect
  <2>2. PICK r : Republishes(r) /\ OnlyPresence(r) /\ Newest(r, d, byDocument'[d])
    BY <1>2, <2>1, PublishesOne
  <2>3. PICK m : m = [type |-> "joined", doc |-> d, participants |-> byDocument'[d]]
    OBVIOUS
  <2>4. m.type = "joined" /\ m.doc = d
    BY <2>3
  <2>5. inbox' = inbox \/ inbox' = [inbox EXCEPT ![s] = Append(@, m)]
    BY <1>2, <2>3 DEF emit
  <2> QED
    BY <2>2, <2>4, <2>5
<1> QED
  BY <1>1, <1>2 DEF resumeJoin

(* So is who is left behind, ...                                             *)
LEMMA LeavePublishes ==
  ASSUME PInv, IsSeq(buffer), NEW s \in Socket, NEW d \in Doc, receiveLeave(s, d)
  PROVE  \E r : Republishes(r) /\ OnlyPresence(r)
<1>1. CASE UNCHANGED <<queueVars, sessions, byDocument>>
  BY <1>1, PublishesNothing DEF queueVars
<1>2. CASE publish(PresenceEvent(d, byDocument'))
  BY <1>2, PublishesOne, LeaveEffect
<1> QED
  BY <1>1, <1>2 DEF receiveLeave

(* ... in all documents of a socket that goes.                               *)
LEMMA DisconnectPublishes ==
  ASSUME PInv, IsSeq(buffer), NEW s \in Socket, IsFiniteSet(sessions[s]), disconnect(s)
  PROVE  \E r : Republishes(r) /\ OnlyPresence(r)
<1>1. publishAll(sessions[s], byDocument')
  BY DEF disconnect
<1>2. sessions[s] \in SUBSET Doc
  BY DEF PInv, MembershipTypeOK
<1>3. \A e \in Doc \ sessions[s] : byDocument'[e] = byDocument[e]
  BY DisconnectEffect
<1> QED
  BY <1>1, <1>2, <1>3, PublishesAll

-----------------------------------------------------------------------------
(* What the queues, the tabs and the calls may hold. *)

Emits(q) == Documented(q) /\ \A i \in 1..Len(q) : q[i].type \in {"join", "leave"}

MailTypeOK ==
  /\ Documented(buffer)
  /\ inbox = [s \in Socket |-> inbox[s]] /\ \A s \in Socket : Documented(inbox[s])
  /\ \A s \in Socket : IsFiniteSet(sessions[s])

Rendering(r) == \E d, x, e : r = [active |-> d, text |-> x, canEdit |-> e]

TabTypeOK ==
  /\ active \in [Tab -> Doc \cup {NoDoc}]
  /\ rendered = [t \in Tab |-> rendered[t]]
  /\ \A t \in Tab : activeRef(t) \in Doc \cup {NoDoc} /\ Rendering(rendered[t])
  /\ outbox = [t \in Tab |-> outbox[t]] /\ \A t \in Tab : Emits(outbox[t])
  /\ participants = [t \in Tab |-> participants[t]]

CallTypeOK ==
  /\ call = [k \in Call |-> call[k]]
  /\ \A k \in Call : call[k].stage # "none" => call[k].tab \in Tab /\ call[k].doc \in Doc

TInv == MailTypeOK /\ TabTypeOK /\ CallTypeOK

(* Every message of two queues in a row is about a document, ...             *)
LEMMA DocumentedConcat ==
  ASSUME NEW q, NEW r, Documented(q), Documented(r)
  PROVE  Documented(q \o r)
<1>1. /\ IsSeq(q \o r) /\ Len(q) \in Nat /\ Len(r) \in Nat /\ Len(q \o r) = Len(q) + Len(r)
      /\ \A i \in 1..Len(q) : (q \o r)[i] = q[i]
      /\ \A i \in 1..Len(r) : (q \o r)[Len(q) + i] = r[i]
  BY QueueConcat DEF Documented
<1> SUFFICES ASSUME NEW i \in 1..Len(q \o r)
             PROVE  (q \o r)[i].doc \in Doc
  BY <1>1 DEF Documented
<1>2. CASE i \in 1..Len(q)
  BY <1>1, <1>2 DEF Documented
<1>3. CASE i \notin 1..Len(q)
  <2>1. i - Len(q) \in 1..Len(r) /\ Len(q) + (i - Len(q)) = i
    BY <1>1, <1>3
  <2> QED
    BY <1>1, <2>1 DEF Documented
<1> QED
  BY <1>2, <1>3

(* ... of one with a message more, ...                                       *)
LEMMA DocumentedAppend ==
  ASSUME NEW q, Documented(q), NEW m, m.doc \in Doc
  PROVE  Documented(Append(q, m))
<1>1. PICK r : r = << m >>
  OBVIOUS
<1>2. IsSeq(r) /\ Len(r) = 1 /\ r[1] = m /\ Append(q, m) = q \o r
  BY <1>1, OneMessage DEF Documented
<1>3. Documented(r)
  BY <1>2 DEF Documented
<1> QED
  BY <1>2, <1>3, DocumentedConcat

(* ... with a message less, ...                                              *)
LEMMA DocumentedTail ==
  ASSUME NEW q, Documented(q), q # << >>
  PROVE  Documented(Tail(q)) /\ Head(q).doc \in Doc
  BY QueueTail DEF Documented

(* ... and of some of its messages.                                          *)
LEMMA DocumentedPick ==
  ASSUME NEW q, Documented(q), NEW I \in SUBSET (1..Len(q))
  PROVE  Documented(ElementsAt(q, I))
<1>1. PICK z : z = ElementsAt(q, I)
  OBVIOUS
<1>2. IsSeq(z) /\ \E at \in [1..Len(z) -> I] : \A k \in 1..Len(z) : z[k] = q[at[k]]
  BY <1>1, QueuePick DEF Documented
<1>3. Documented(z)
  BY <1>2 DEF Documented
<1> QED
  BY <1>1, <1>3

(* In the beginning nothing is on its way.                                   *)
LEMMA TInvInit == Init => TInv
<1> SUFFICES ASSUME Init PROVE TInv
  OBVIOUS
<1>0. Documented(<< >>) /\ Emits(<< >>) /\ IsFiniteSet({})
  BY EmptyQueue, FS_EmptySet DEF Documented, Emits
<1>1. MailTypeOK
  BY <1>0 DEF Init, GatewayInit, QueueInit, MailTypeOK
<1>2. TabTypeOK
  BY <1>0 DEF Init, TabTypeOK, Rendering, activeRef
<1>3. CallTypeOK
  BY DEF Init, CallTypeOK, NoCall
<1> QED
  BY <1>1, <1>2, <1>3 DEF TInv

-----------------------------------------------------------------------------
(* The queues of the server. *)

(* Steps that leave the queues alone.                                        *)
LEMMA MailQuiet ==
  ASSUME MailTypeOK, UNCHANGED <<buffer, inbox, sessions>>
  PROVE  MailTypeOK'
  BY DEF MailTypeOK, Documented

(* A step that publishes, and sends to one socket at most.                   *)
LEMMA MailPublished ==
  ASSUME MailTypeOK, NEW r, Documented(r), buffer' = buffer \o r,
         NEW s \in Socket, NEW mail, Documented(mail),
         inbox' = inbox \/ inbox' = [inbox EXCEPT ![s] = mail],
         \A z \in Socket : IsFiniteSet(sessions'[z])
  PROVE  MailTypeOK'
<1>1. PICK q : q = buffer' /\ Documented(q)
  BY DocumentedConcat DEF MailTypeOK
<1>2. Documented(buffer')
  BY <1>1
<1>3. inbox' = [z \in Socket |-> inbox'[z]] /\ \A z \in Socket : inbox'[z] = inbox[z] \/ inbox'[z] = mail
  BY DEF MailTypeOK
<1>4. \A z \in Socket : Documented(inbox'[z])
  BY <1>3 DEF MailTypeOK
<1> QED
  BY <1>2, <1>3, <1>4 DEF MailTypeOK, Documented

(* A join that enters publishes a list, ...                                  *)
LEMMA MailResume ==
  ASSUME PInv, MailTypeOK, NEW s \in Socket, NEW d \in Doc, resumeJoin(s, d)
  PROVE  MailTypeOK'
<1>1. PICK r : /\ Republishes(r)
               /\ \/ inbox' = inbox
                  \/ \E m : m.doc = d /\ inbox' = [inbox EXCEPT ![s] = Append(@, m)]
  <2>1. IsSeq(buffer)
    BY DEF MailTypeOK, Documented
  <2>2. PICK r : /\ Republishes(r)
                 /\ \/ inbox' = inbox
                    \/ \E m : /\ m.type = "joined" /\ m.doc = d
                              /\ inbox' = [inbox EXCEPT ![s] = Append(@, m)]
    BY <2>1, ResumePublishes
  <2> QED
    BY <2>2
<1>2. \A z \in Socket : IsFiniteSet(sessions'[z])
  <2>1. \A z \in Socket : sessions'[z] = sessions[z] \/ sessions'[z] = sessions[z] \cup {d}
    BY DEF resumeJoin, PInv, MembershipTypeOK
  <2> TAKE z \in Socket
  <2>2. IsFiniteSet(sessions[z])
    BY DEF MailTypeOK
  <2>3. IsFiniteSet(sessions[z] \cup {d})
    BY <2>2, FS_AddElement
  <2> QED
    BY <2>1, <2>2, <2>3
<1>3. Documented(r) /\ buffer' = buffer \o r
  BY <1>1 DEF Republishes
<1>4. Documented(inbox[s])
  BY DEF MailTypeOK
<1>5. CASE inbox' = inbox
  BY <1>2, <1>3, <1>4, <1>5, MailPublished
<1>6. ASSUME NEW m, m.doc = d, inbox' = [inbox EXCEPT ![s] = Append(@, m)]
      PROVE  MailTypeOK'
  <2>1. PICK mail : mail = Append(inbox[s], m)
    OBVIOUS
  <2>2. Documented(mail)
    BY <1>4, <1>6, <2>1, DocumentedAppend
  <2>3. inbox' = [inbox EXCEPT ![s] = mail]
    BY <1>6, <2>1
  <2> QED
    BY <1>2, <1>3, <2>2, <2>3, MailPublished
<1> QED
  BY <1>1, <1>5, <1>6

(* ... and so do a leave ...                                                 *)
LEMMA MailLeave ==
  ASSUME PInv, MailTypeOK, NEW s \in Socket, NEW d \in Doc, receiveLeave(s, d)
  PROVE  MailTypeOK'
<1>1. PICK r : Republishes(r)
  BY LeavePublishes DEF MailTypeOK, Documented
<1>2. inbox' = inbox /\ \A z \in Socket : sessions'[z] \subseteq sessions[z]
  BY LeaveEffect
<1>3. \A z \in Socket : IsFiniteSet(sessions'[z])
  BY <1>2, FS_Subset DEF MailTypeOK
<1>4. Documented(r) /\ buffer' = buffer \o r
  BY <1>1 DEF Republishes
<1> QED
  BY <1>2, <1>3, <1>4, MailPublished

(* ... and a disconnection.                                                  *)
LEMMA MailNotice ==
  ASSUME PInv, MailTypeOK, NEW s \in Socket, disconnect(s)
  PROVE  MailTypeOK'
<1>1. PICK r : Republishes(r)
  BY DisconnectPublishes DEF MailTypeOK, Documented
<1>2. inbox' = [inbox EXCEPT ![s] = << >>] /\ \A z \in Socket : sessions'[z] \subseteq sessions[z]
  BY DisconnectEffect
<1>3. \A z \in Socket : IsFiniteSet(sessions'[z])
  BY <1>2, FS_Subset DEF MailTypeOK
<1>4. Documented(r) /\ buffer' = buffer \o r /\ Documented(<< >>)
  BY <1>1, EmptyQueue DEF Republishes, Documented
<1> QED
  BY <1>2, <1>3, <1>4, MailPublished

(* The drain moves events into mail.                                         *)
LEMMA MailDelivered ==
  ASSUME MailTypeOK, handleEvents
  PROVE  MailTypeOK'
<1>1. /\ buffer' = << >> /\ UNCHANGED sessions
      /\ inbox' = [s \in Socket |->
           IF s \in connected
           THEN inbox[s] \o ElementsAt(buffer, {i \in 1..Len(buffer) : s \in rooms[buffer[i].doc]})
           ELSE << >>]
  BY DEF handleEvents, deliver
<1>2. Documented(<< >>)
  BY EmptyQueue DEF Documented
<1>3. ASSUME NEW s \in Socket PROVE Documented(inbox'[s])
  <2>1. PICK I \in SUBSET (1..Len(buffer)) : I = {i \in 1..Len(buffer) : s \in rooms[buffer[i].doc]}
    OBVIOUS
  <2>2. Documented(ElementsAt(buffer, I))
    BY DocumentedPick DEF MailTypeOK
  <2>3. Documented(inbox[s] \o ElementsAt(buffer, I))
    BY <2>2, DocumentedConcat DEF MailTypeOK
  <2> QED
    BY <1>1, <1>2, <2>1, <2>3
<1>4. Documented(buffer')
  <2>1. PICK q : q = buffer' /\ Documented(q)
    BY <1>1, <1>2
  <2> QED
    BY <2>1
<1> QED
  BY <1>1, <1>3, <1>4 DEF MailTypeOK, Documented

(* A message is read.                                                        *)
LEMMA MailTaken ==
  ASSUME MailTypeOK, NEW s \in Socket, take(s)
  PROVE  MailTypeOK'
<1>1. /\ inbox[s] # << >> /\ inbox' = [inbox EXCEPT ![s] = Tail(@)]
      /\ UNCHANGED <<buffer, sessions>>
  BY DEF take, queueVars
<1>2. Documented(Tail(inbox[s]))
  BY <1>1, DocumentedTail DEF MailTypeOK
<1>3. \A z \in Socket : inbox'[z] = IF z = s THEN Tail(inbox[s]) ELSE inbox[z]
  BY <1>1 DEF MailTypeOK
<1>4. \A z \in Socket : Documented(inbox'[z])
  BY <1>2, <1>3 DEF MailTypeOK
<1>5. inbox' = [z \in Socket |-> inbox'[z]]
  BY <1>1 DEF MailTypeOK
<1> QED
  BY <1>1, <1>4, <1>5 DEF MailTypeOK, Documented

(* The announcement of an edit.                                              *)
LEMMA EditPublishes ==
  ASSUME IsSeq(buffer), NEW d \in Doc, NEW v, NEW op, NEW u,
         publish(EditEvent(d, v, op, u)), UNCHANGED byDocument
  PROVE  \E r, m : /\ r = << m >> /\ Republishes(r)
                   /\ m.type = "edit" /\ m.doc = d /\ m.version = v /\ m.operation = op /\ m.user = u
<1>1. PICK m : m = [type |-> "edit", doc |-> d, sequence |-> sequences[d] + 1, version |-> v,
                    operation |-> op, user |-> u]
  OBVIOUS
<1>2. buffer' = Append(buffer, m)
  BY <1>1 DEF publish, Enveloped, EditEvent
<1>3. PICK r : r = << m >>
  OBVIOUS
<1>4. /\ IsSeq(r) /\ Len(r) = 1 /\ r[1] = m /\ buffer' = buffer \o r
      /\ \A e : ~Lists(m, e) => Silent(r, e)
  BY <1>2, <1>3, OneMessage
<1>5. /\ m.type = "edit" /\ m.doc = d /\ m.version = v /\ m.operation = op /\ m.user = u
  BY <1>1
<1>6. \A e \in Doc : Silent(r, e)
  BY <1>4, <1>5 DEF Lists
<1>7. Documented(r)
  BY <1>4, <1>5 DEF Documented
<1>8. Republishes(r)
  BY <1>4, <1>6, <1>7 DEF Republishes
<1> QED
  BY <1>3, <1>5, <1>8

-----------------------------------------------------------------------------
(* Calls. *)

WellMade(c) == c.stage # "none" => c.tab \in Tab /\ c.doc \in Doc

(* A call goes on with what is well made, ...                                *)
LEMMA CallMoves ==
  ASSUME CallTypeOK, NEW k \in Call, NEW c, Goes(k, c)
  PROVE  /\ \A j \in Call : call'[j] = IF j = k THEN c ELSE call[j]
         /\ WellMade(c) => CallTypeOK'
<1>1. call = [j \in Call |-> call[j]] /\ call' = [call EXCEPT ![k] = c]
  BY DEF CallTypeOK, Goes
<1>2. \A j \in Call : call'[j] = IF j = k THEN c ELSE call[j]
  BY <1>1
<1>3. call' = [j \in Call |-> call'[j]]
  BY <1>1
<1>4. ASSUME WellMade(c) PROVE CallTypeOK'
  BY <1>2, <1>3, <1>4 DEF CallTypeOK, WellMade
<1> QED
  BY <1>2, <1>4

(* ... or begins with it.                                                    *)
LEMMA CallBegins ==
  ASSUME CallTypeOK, NEW c, Begins(c)
  PROVE  \E k \in Call : /\ call[k] = NoCall /\ \A j \in Call : call'[j] = IF j = k THEN c ELSE call[j]
                         /\ WellMade(c) => CallTypeOK'
<1>1. PICK k \in Call : call[k] = NoCall /\ Goes(k, c)
  BY DEF Begins, Goes
<1> QED
  BY <1>1, CallMoves

(* A message that a tab emits.                                               *)
Join(d) == [type |-> "join", doc |-> d]
Leave(d) == [type |-> "leave", doc |-> d]

(* What a tab emits are joins and leaves, before and after, ...              *)
LEMMA EmitsConcat ==
  ASSUME NEW q, NEW r, Emits(q), Emits(r)
  PROVE  Emits(q \o r)
<1>1. /\ IsSeq(q \o r) /\ Len(q) \in Nat /\ Len(r) \in Nat /\ Len(q \o r) = Len(q) + Len(r)
      /\ \A i \in 1..Len(q) : (q \o r)[i] = q[i]
      /\ \A i \in 1..Len(r) : (q \o r)[Len(q) + i] = r[i]
  BY QueueConcat DEF Emits, Documented
<1>2. Documented(q \o r)
  BY DocumentedConcat DEF Emits
<1> SUFFICES ASSUME NEW i \in 1..Len(q \o r)
             PROVE  (q \o r)[i].type \in {"join", "leave"}
  BY <1>2 DEF Emits
<1>3. CASE i \in 1..Len(q)
  BY <1>1, <1>3 DEF Emits
<1>4. CASE i \notin 1..Len(q)
  <2>1. i - Len(q) \in 1..Len(r) /\ Len(q) + (i - Len(q)) = i
    BY <1>1, <1>4
  <2> QED
    BY <1>1, <2>1 DEF Emits
<1> QED
  BY <1>3, <1>4

(* ... and when the first was received.                                      *)
LEMMA EmitsTail ==
  ASSUME NEW q, Emits(q), q # << >>
  PROVE  Emits(Tail(q)) /\ Head(q).doc \in Doc /\ Head(q).type \in {"join", "leave"}
<1>1. /\ Len(q) \in Nat \ {0} /\ Len(Tail(q)) = Len(q) - 1 /\ Head(q) = q[1]
      /\ \A i \in 1..(Len(q) - 1) : Tail(q)[i] = q[i + 1]
  BY QueueTail DEF Emits, Documented
<1>2. Documented(Tail(q)) /\ Head(q).doc \in Doc
  BY DocumentedTail DEF Emits
<1> QED
  BY <1>1, <1>2 DEF Emits

(* What openDocument emits: a join, and a leave of the document before.      *)
LEMMA WhatOpens ==
  ASSUME TabTypeOK, NEW t \in Tab, NEW d \in Doc
  PROVE  \E r : /\ outbox[t] \o Leaves(t, d) \o << Join(d) >> = outbox[t] \o r
                /\ Emits(r)
                /\ \A e \in Doc : Holds(r, "join", e) <=> e = d
                /\ \A e \in Doc : Holds(r, "leave", e) <=> (e = activeRef(t) /\ e # d)
                /\ \A e \in Doc : e = d => Followed(r, "leave", "join", e)
                /\ \A e \in Doc : e # d => Followed(r, "join", "leave", e)
<1>1. PICK j : j = Join(d) /\ j.type = "join" /\ j.doc = d
  <2>1. Join(d).type = "join" /\ Join(d).doc = d
    BY DEF Join
  <2> QED
    BY <2>1
<1>2. PICK q : q = outbox[t] /\ IsSeq(q)
  BY DEF TabTypeOK, Emits, Documented
<1>3. CASE activeRef(t) \in {NoDoc, d}
  <2>1. PICK r : r = << j >>
    OBVIOUS
  <2>2. IsSeq(r) /\ Len(r) = 1 /\ r[1] = j
    BY <2>1, OneMessage
  <2>3. Leaves(t, d) = << >>
    BY <1>3 DEF Leaves
  <2>4. q \o << >> = q
    <3>1. PICK V : q \in Seq(V)
      BY <1>2 DEF IsSeq
    <3> QED
      BY <3>1, ConcatEmptySeq
  <2>5. Emits(r)
    BY <1>1, <2>2 DEF Emits, Documented
  <2>6. /\ \A e \in Doc : Holds(r, "join", e) <=> e = d
        /\ \A e \in Doc : ~Holds(r, "leave", e)
    <3>1. 1 \in 1..1 /\ \A i \in 1..1 : i = 1
      OBVIOUS
    <3> QED
      BY <1>1, <2>2, <3>1 DEF Holds, Says
  <2>7. /\ \A e \in Doc : e = d => Followed(r, "leave", "join", e)
        /\ \A e \in Doc : e # d => Followed(r, "join", "leave", e)
    BY <1>1, <2>2 DEF Followed, Says
  <2>8. \A e \in Doc : ~(e = activeRef(t) /\ e # d)
    BY <1>3, NoneAssumption
  <2> QED
    BY <1>1, <1>2, <2>1, <2>3, <2>4, <2>5, <2>6, <2>7, <2>8
<1>4. CASE activeRef(t) \notin {NoDoc, d}
  <2>1. PICK l : l = Leave(activeRef(t)) /\ l.type = "leave" /\ l.doc = activeRef(t)
    <3>1. Leave(activeRef(t)).type = "leave" /\ Leave(activeRef(t)).doc = activeRef(t)
      BY DEF Leave
    <3> QED
      BY <3>1
  <2>2. activeRef(t) \in Doc /\ activeRef(t) # d
    BY <1>4 DEF TabTypeOK
  <2>3. PICK r : r = << l, j >>
    OBVIOUS
  <2>4. IsSeq(r) /\ Len(r) = 2 /\ r[1] = l /\ r[2] = j
    <3>1. r \in Seq({l, j}) /\ Len(r) = 2 /\ r[1] = l /\ r[2] = j
      BY <2>3
    <3> QED
      BY <3>1 DEF IsSeq
  <2>5. Leaves(t, d) = << l >>
    BY <1>4, <2>1 DEF Leaves, Leave
  <2>7. \A i \in 1..2 : i = 1 \/ i = 2
    OBVIOUS
  <2>6. q \o << l >> \o << j >> = q \o r
    <3>1. PICK V : q \in Seq(V)
      BY <1>2 DEF IsSeq
    <3>2. PICK W : W = V \cup {l, j}
      OBVIOUS
    <3>3. q \in Seq(W) /\ << l >> \in Seq(W) /\ << j >> \in Seq(W)
      BY <3>1, <3>2
    <3>4. << l >> \o << j >> = r
      <4>1. PICK a : a = << l >> \o << j >>
        OBVIOUS
      <4>2. a \in Seq(W) /\ Len(a) = 2 /\ a[1] = l /\ a[2] = j
        BY <3>3, <4>1
      <4>3. r \in Seq(W)
        BY <2>3, <3>2
      <4>4. \A i \in 1..Len(a) : a[i] = r[i]
        BY <2>4, <2>7, <4>2
      <4> QED
        BY <2>4, <4>1, <4>2, <4>3, <4>4, SeqEqual
    <3>5. (q \o << l >>) \o << j >> = q \o (<< l >> \o << j >>)
      BY <3>3, ConcatAssociative
    <3> QED
      BY <3>4, <3>5
  <2>8. Emits(r)
    BY <1>1, <2>1, <2>2, <2>4, <2>7 DEF Emits, Documented
  <2>9. 1 \in 1..2 /\ 2 \in 1..2 /\ 1 < 2
    OBVIOUS
  <2>10. /\ \A e \in Doc : Holds(r, "join", e) <=> e = d
         /\ \A e \in Doc : Holds(r, "leave", e) <=> (e = activeRef(t) /\ e # d)
    BY <1>1, <2>1, <2>2, <2>4, <2>7, <2>9 DEF Holds, Says
  <2>11. ASSUME NEW e \in Doc, e = d PROVE Followed(r, "leave", "join", e)
    BY <1>1, <2>1, <2>2, <2>4, <2>7, <2>9, <2>11 DEF Followed, Says
  <2>12. ASSUME NEW e \in Doc, e # d PROVE Followed(r, "join", "leave", e)
    BY <1>1, <2>1, <2>2, <2>4, <2>7, <2>9, <2>12 DEF Followed, Says
  <2> QED
    BY <1>1, <1>2, <2>5, <2>6, <2>8, <2>10, <2>11, <2>12
<1> QED
  BY <1>3, <1>4

-----------------------------------------------------------------------------
(* What a tab may hold. *)
tabView == <<active, rendered, outbox, participants>>

(* Steps that leave the tabs alone.                                          *)
LEMMA TabQuiet ==
  ASSUME TabTypeOK, UNCHANGED tabView
  PROVE  TabTypeOK'
  BY DEF tabView, TabTypeOK, Rendering, activeRef, Emits, Documented

(* A document is opened: the one before is left, and this one joined.        *)
LEMMA TabOpened ==
  ASSUME TabTypeOK, CallTypeOK, NEW k \in Call, opened(k)
  PROVE  /\ TabTypeOK'
         /\ call[k].tab \in Tab /\ call[k].doc \in Doc
         /\ active' = [active EXCEPT ![call[k].tab] = call[k].doc]
         /\ dropped' = dropped \ {call[k].tab}
         /\ late \subseteq late' /\ (call[k].tab \notin late' => activeRef(call[k].tab) = active[call[k].tab])
         /\ UNCHANGED <<gatewayVars, socketOf, participants>>
         /\ \A u \in Tab : u # call[k].tab => outbox'[u] = outbox[u]
         /\ outbox'[call[k].tab] = outbox[call[k].tab] \o Leaves(call[k].tab, call[k].doc) \o << Join(call[k].doc) >>
<1>1. PICK t \in Tab, d \in Doc : call[k].tab = t /\ call[k].doc = d
  BY DEF opened, CallTypeOK
<1>2. /\ active' = [active EXCEPT ![t] = d]
      /\ outbox' = [outbox EXCEPT ![t] = @ \o Leaves(t, d) \o << Join(d) >>]
      /\ dropped' = dropped \ {t}
      /\ late' = late \cup {u \in {t} : activeRef(u) # active[u]}
      /\ UNCHANGED <<gatewayVars, socketOf, participants, rendered>>
  BY <1>1 DEF opened, Join
<1>3. late \subseteq late' /\ (t \notin late' => activeRef(t) = active[t])
  BY <1>2
<1>5. PICK r : outbox[t] \o Leaves(t, d) \o << Join(d) >> = outbox[t] \o r /\ Emits(r)
  BY WhatOpens
<1>6. PICK q : q = outbox[t] \o r /\ Emits(q)
  BY <1>5, EmitsConcat DEF TabTypeOK
<1>7. outbox' = [outbox EXCEPT ![t] = q]
  BY <1>2, <1>5, <1>6
<1>8. \A u \in Tab : outbox'[u] = IF u = t THEN q ELSE outbox[u]
  BY <1>7 DEF TabTypeOK
<1>9. \A u \in Tab : Emits(outbox'[u])
  BY <1>6, <1>8 DEF TabTypeOK
<1>10. outbox' = [u \in Tab |-> outbox'[u]]
  BY <1>7 DEF TabTypeOK
<1>11. /\ active' \in [Tab -> Doc \cup {NoDoc}]
       /\ participants' = [u \in Tab |-> participants'[u]]
       /\ rendered' = rendered
  BY <1>2 DEF TabTypeOK
<1>13. TabTypeOK'
  BY <1>9, <1>10, <1>11 DEF TabTypeOK, Rendering, activeRef, Emits, Documented
<1> QED
  BY <1>1, <1>2, <1>3, <1>5, <1>6, <1>8, <1>13

(* A tab renders.                                                            *)
LEMMA TabRenders ==
  ASSUME TabTypeOK, NEW t \in Tab, NEW d \in Doc \cup {NoDoc}, NEW x, NEW e,
         rendered' = [rendered EXCEPT ![t] = [active |-> d, text |-> x, canEdit |-> e]],
         UNCHANGED <<active, outbox, participants>>
  PROVE  TabTypeOK'
<1>1. \A u \in Tab : rendered'[u] = IF u = t THEN [active |-> d, text |-> x, canEdit |-> e] ELSE rendered[u]
  BY DEF TabTypeOK
<1>2. [active |-> d, text |-> x, canEdit |-> e].active = d
  OBVIOUS
<1>3. \A u \in Tab : rendered'[u].active \in Doc \cup {NoDoc}
  BY <1>1, <1>2 DEF TabTypeOK, activeRef
<1>4. \A u \in Tab : Rendering(rendered'[u])
  <2>1. Rendering([active |-> d, text |-> x, canEdit |-> e])
    BY DEF Rendering
  <2>2. \A u \in Tab : Rendering(rendered[u])
    BY DEF TabTypeOK
  <2>3. PICK r : r = [active |-> d, text |-> x, canEdit |-> e] /\ Rendering(r)
    BY <2>1
  <2>4. \A u \in Tab : rendered'[u] = IF u = t THEN r ELSE rendered[u]
    BY <1>1, <2>3
  <2> QED
    BY <2>2, <2>3, <2>4
<1>5. rendered' = [u \in Tab |-> rendered'[u]]
  BY DEF TabTypeOK
<1>6. /\ active' \in [Tab -> Doc \cup {NoDoc}]
      /\ outbox' = outbox /\ participants' = participants
  BY DEF TabTypeOK
<1> QED
  BY <1>3, <1>4, <1>5, <1>6 DEF TabTypeOK, activeRef

(* What a tab has emitted changes.                                           *)
LEMMA TabSends ==
  ASSUME TabTypeOK, NEW t \in Tab, NEW q, Emits(q),
         outbox' = [outbox EXCEPT ![t] = q], UNCHANGED <<active, rendered, participants>>
  PROVE  TabTypeOK' /\ \A u \in Tab : outbox'[u] = IF u = t THEN q ELSE outbox[u]
<1>1. \A u \in Tab : outbox'[u] = IF u = t THEN q ELSE outbox[u]
  BY DEF TabTypeOK
<1>2. \A u \in Tab : Emits(outbox'[u])
  BY <1>1 DEF TabTypeOK
<1>3. outbox' = [u \in Tab |-> outbox'[u]]
  BY DEF TabTypeOK
<1> QED
  BY <1>1, <1>2, <1>3 DEF TabTypeOK, Rendering, activeRef, Emits, Documented

-----------------------------------------------------------------------------
(* What is received from a tab: a join or a leave of a document.             *)
LEMMA Receives ==
  ASSUME SInv, TInv, NEW t \in Tab, receive(t)
  PROVE  \E s \in Socket, d \in Doc :
           /\ s = socketOf[t] /\ s \in connected /\ s # NoSocket
           /\ outbox[t] # << >> /\ Emits(Tail(outbox[t])) /\ IsSeq(outbox[t])
           /\ outbox' = [outbox EXCEPT ![t] = Tail(outbox[t])]
           /\ UNCHANGED <<serverVars, socketOf, editorVars, participants, left, pastVars>>
           /\ \/ Says(Head(outbox[t]), "join", d) /\ receiveJoin(s, d)
              \/ Says(Head(outbox[t]), "leave", d) /\ receiveLeave(s, d)
<1>1. PICK s \in Socket : s = socketOf[t] /\ s # NoSocket /\ s \in connected
  BY DEF receive, SInv, CInv, SocketTypeOK, OwnedSockets
<1>2. /\ outbox[t] # << >> /\ outbox' = [outbox EXCEPT ![t] = Tail(outbox[t])]
      /\ UNCHANGED <<serverVars, socketOf, editorVars, participants, left, pastVars>>
  BY DEF receive
<1>3. PICK m : m = Head(outbox[t])
  OBVIOUS
<1>4. Emits(Tail(outbox[t])) /\ m.doc \in Doc /\ m.type \in {"join", "leave"} /\ IsSeq(outbox[t])
  BY <1>2, <1>3, EmitsTail DEF TInv, TabTypeOK, Emits, Documented
<1>5. IF m.type = "join" THEN receiveJoin(s, m.doc) ELSE receiveLeave(s, m.doc)
  BY <1>1, <1>3 DEF receive
<1>6. \/ Says(m, "join", m.doc) /\ receiveJoin(s, m.doc)
      \/ Says(m, "leave", m.doc) /\ receiveLeave(s, m.doc)
  BY <1>4, <1>5 DEF Says
<1> QED
  BY <1>1, <1>2, <1>3, <1>4, <1>6

(* What reaches a tab.                                                       *)
LEMMA Hears ==
  ASSUME SInv, TInv, NEW t \in Tab, NEW types, Incoming(t, types)
  PROVE  \E s \in Socket :
           /\ s = socketOf[t] /\ s # NoSocket
           /\ Documented(inbox[s]) /\ inbox[s] # << >>
           /\ message(t) = Head(inbox[s]) /\ message(t).doc \in Doc /\ message(t).type \in types
           /\ take(s)
           /\ inbox' = [inbox EXCEPT ![s] = Tail(@)]
           /\ \A z \in Socket : inbox'[z] = IF z = s THEN Tail(inbox[s]) ELSE inbox[z]
<1>1. PICK s \in Socket : s = socketOf[t] /\ s # NoSocket
  BY DEF Incoming, SInv, CInv, SocketTypeOK
<1>2. take(s) /\ inbox[s] # << >> /\ inbox' = [inbox EXCEPT ![s] = Tail(@)]
  BY <1>1 DEF Incoming, take
<1>3. Documented(inbox[s]) /\ inbox = [z \in Socket |-> inbox[z]]
  BY DEF TInv, MailTypeOK
<1>4. message(t) = Head(inbox[s]) /\ message(t).type \in types
  BY <1>1 DEF Incoming, message
<1>5. message(t).doc \in Doc
  BY <1>2, <1>3, <1>4, DocumentedTail
<1> QED
  BY <1>1, <1>2, <1>3, <1>4, <1>5

-----------------------------------------------------------------------------
(* Sockets and types, one action after the other. *)
BInv == SInv /\ TInv

(* A call is answered.                                                       *)
LEMMA BInvCalls ==
  ASSUME BInv, NEW k \in Call, authorize(k) \/ read(k) \/ saved(k) \/ conflicted(k)
  PROVE  TInv'
<1>1. UNCHANGED <<gatewayVars, tabView>>
  BY DEF authorize, read, saved, conflicted, tabView, tabVars, editorVars, viewVars
<1>2. MailTypeOK' /\ TabTypeOK'
  BY <1>1, MailQuiet, TabQuiet DEF BInv, TInv, gatewayVars, queueVars, presenceVars
<1>3. call[k].stage # "none" /\ call[k].tab \in Tab /\ call[k].doc \in Doc
  BY DEF BInv, TInv, CallTypeOK, authorize, read, saved, conflicted
<1>4. PICK c : WellMade(c) /\ Goes(k, c)
  <2>1. WellMade(NoCall)
    BY DEF WellMade, NoCall
  <2>2. CASE authorize(k)
    <3>1. CASE Goes(k, NoCall)
      BY <2>1, <3>1
    <3>2. ASSUME NEW n, NEW e,
                 Goes(k, [stage |-> "read", tab |-> call[k].tab, doc |-> call[k].doc, pages |-> n, canEdit |-> e])
          PROVE  \E c : WellMade(c) /\ Goes(k, c)
      <4>1. WellMade([stage |-> "read", tab |-> call[k].tab, doc |-> call[k].doc, pages |-> n, canEdit |-> e])
        BY <1>3 DEF WellMade
      <4> QED
        BY <3>2, <4>1
    <3> QED
      BY <2>2, <3>1, <3>2 DEF authorize
  <2>5. CASE read(k)
    <3>1. PICK x, v, e :
            Goes(k, [stage |-> "opened", tab |-> call[k].tab, doc |-> call[k].doc, text |-> x,
                     version |-> v, canEdit |-> e])
      BY <2>5 DEF read
    <3>2. WellMade([stage |-> "opened", tab |-> call[k].tab, doc |-> call[k].doc, text |-> x,
                    version |-> v, canEdit |-> e])
      BY <1>3 DEF WellMade
    <3> QED
      BY <3>1, <3>2
  <2>3. CASE saved(k)
    <3>1. WellMade(Post(call[k].tab, call[k].doc, call[k].rest,
                        [text |-> call[k].text, version |-> call[k].version]))
      BY <1>3 DEF WellMade, Post
    <3> QED
      BY <2>1, <2>3, <3>1 DEF saved
  <2>4. CASE conflicted(k)
    <3>1. WellMade(Get(call[k].tab, call[k].doc))
      BY <1>3 DEF WellMade, Get
    <3> QED
      BY <2>4, <3>1 DEF conflicted
  <2> QED
    BY <2>2, <2>3, <2>4, <2>5
<1>5. CallTypeOK'
  BY <1>4, CallMoves DEF BInv, TInv
<1> QED
  BY <1>2, <1>5 DEF TInv

(* An edit is refused, in conflict, or announced.                            *)
LEMMA BInvEdit ==
  ASSUME BInv, NEW k \in Call, edit(k)
  PROVE  TInv'
<1>1. UNCHANGED <<presenceVars, tabView>>
  BY DEF edit, announce, gatewayVars, tabView, tabVars, editorVars, viewVars
<1>2. TabTypeOK'
  BY <1>1, TabQuiet DEF BInv, TInv
<1>3. call[k].tab \in Tab /\ call[k].doc \in Doc
  BY DEF BInv, TInv, CallTypeOK, edit
<1>4. MailTypeOK'
  <2>1. CASE UNCHANGED gatewayVars
    BY <2>1, MailQuiet DEF BInv, TInv, gatewayVars, queueVars, presenceVars
  <2>2. ASSUME NEW v, NEW op, NEW u, announce(EditEvent(call[k].doc, v, op, u))
        PROVE  MailTypeOK'
    <3>1. publish(EditEvent(call[k].doc, v, op, u)) /\ UNCHANGED <<byDocument, inbox, sessions>>
      BY <2>2 DEF announce, presenceVars
    <3>2. MailTypeOK /\ IsSeq(buffer)
      BY DEF BInv, TInv, MailTypeOK, Documented
    <3>3. PICK r : Republishes(r)
      BY <1>3, <3>1, <3>2, EditPublishes
    <3>4. Documented(r) /\ buffer' = buffer \o r
      BY <3>3 DEF Republishes
    <3>5. CASE Socket = {}
      <4>1. PICK q : q = buffer' /\ Documented(q)
        BY <3>2, <3>4, DocumentedConcat DEF MailTypeOK
      <4> QED
        BY <3>1, <3>2, <3>5, <4>1 DEF MailTypeOK, Documented
    <3>6. CASE Socket # {}
      <4>1. PICK s \in Socket : TRUE
        BY <3>6
      <4>2. Documented(inbox[s]) /\ \A z \in Socket : IsFiniteSet(sessions'[z])
        BY <3>1, <3>2, <4>1 DEF MailTypeOK
      <4> QED
        BY <3>1, <3>2, <3>4, <4>1, <4>2, MailPublished
    <3> QED
      BY <3>5, <3>6
  <2> QED
    BY <2>1, <2>2 DEF edit
<1>5. PICK c : WellMade(c) /\ Goes(k, c)
  <2>1. WellMade(NoCall)
    BY DEF WellMade, NoCall
  <2>2. WellMade([stage |-> "conflict", tab |-> call[k].tab, doc |-> call[k].doc])
    BY <1>3 DEF WellMade
  <2>3. \A x, v, ops :
          WellMade([stage |-> "saved", tab |-> call[k].tab, doc |-> call[k].doc, text |-> x,
                    version |-> v, rest |-> ops])
    BY <1>3 DEF WellMade
  <2> QED
    BY <2>1, <2>2, <2>3 DEF edit
<1>6. CallTypeOK'
  BY <1>5, CallMoves DEF BInv, TInv
<1> QED
  BY <1>2, <1>4, <1>6 DEF TInv

(* A tab types, renders, saves or asks for a document.                       *)
LEMMA BInvTab ==
  ASSUME BInv, NEW t \in Tab,
         type(t) \/ render(t) \/ effect(t) \/ flush(t) \/ \E d \in Doc : openDocument(t, d)
  PROVE  TInv'
<1> USE DEF BInv, TInv
<1>1. UNCHANGED <<gatewayVars, active, outbox, participants>>
  BY DEF type, render, effect, flush, openDocument, tabVars, editorVars, viewVars
<1>2. MailTypeOK'
  BY <1>1, MailQuiet DEF gatewayVars, queueVars, presenceVars
<1>3. ASSUME NEW d \in Doc \cup {NoDoc}, NEW x, NEW e, UNCHANGED call,
             rendered' = [rendered EXCEPT ![t] = [active |-> d, text |-> x, canEdit |-> e]]
      PROVE  TInv'
  <2>1. TabTypeOK'
    BY <1>1, <1>3, TabRenders
  <2> QED
    BY <1>2, <1>3, <2>1 DEF CallTypeOK
<1>4. CASE type(t)
  <2>1. PICK new : UNCHANGED call /\ rendered' = [rendered EXCEPT ![t].text = new]
    BY <1>4 DEF type, serverVars
  <2>2. PICK d, x, e : /\ d \in Doc \cup {NoDoc}
                       /\ rendered[t] = [active |-> d, text |-> x, canEdit |-> e]
    <3>1. PICK d, x, e : rendered[t] = [active |-> d, text |-> x, canEdit |-> e]
      BY DEF TabTypeOK, Rendering
    <3>2. [active |-> d, text |-> x, canEdit |-> e].active = d
      OBVIOUS
    <3>3. d \in Doc \cup {NoDoc}
      BY <3>1, <3>2 DEF TabTypeOK, activeRef
    <3> QED
      BY <3>1, <3>3
  <2>3. [rendered[t] EXCEPT !.text = new] = [active |-> d, text |-> new, canEdit |-> e]
    BY <2>2
  <2>4. rendered' = [rendered EXCEPT ![t] = [active |-> d, text |-> new, canEdit |-> e]]
    BY <2>1, <2>3
  <2> QED
    BY <1>3, <2>1, <2>2, <2>4
<1>5. CASE render(t)
  <2>1. /\ UNCHANGED call /\ active[t] \in Doc \cup {NoDoc}
        /\ rendered' = [rendered EXCEPT ![t] = [active |-> active[t], text |-> text[t], canEdit |-> canEdit[t]]]
    BY <1>5 DEF render, serverVars, TabTypeOK
  <2> QED
    BY <1>3, <2>1
<1>6. CASE effect(t)
  BY <1>1, <1>2, <1>6, TabQuiet DEF effect, serverVars, tabView, CallTypeOK
<1>7. CASE flush(t)
  <2>1. UNCHANGED tabView
    BY <1>1, <1>7 DEF flush, tabView
  <2>2. ASSUME activeRef(t) # NoDoc PROVE \A ops, last : WellMade(Post(t, activeRef(t), ops, last))
    BY <2>2 DEF WellMade, Post, TabTypeOK
  <2>3. UNCHANGED call \/ \E c : WellMade(c) /\ Begins(c)
    BY <1>7, <2>2 DEF flush
  <2>4. CallTypeOK'
    BY <2>3, CallBegins DEF CallTypeOK
  <2> QED
    BY <1>2, <2>1, <2>4, TabQuiet
<1>8. ASSUME NEW d \in Doc, openDocument(t, d) PROVE TInv'
  <2>1. Begins(Get(t, d)) /\ UNCHANGED tabView
    BY <1>1, <1>8 DEF openDocument, tabVars, editorVars, tabView
  <2>2. WellMade(Get(t, d))
    BY DEF WellMade, Get
  <2>3. CallTypeOK'
    BY <2>1, <2>2, CallBegins
  <2> QED
    BY <1>2, <2>1, <2>3, TabQuiet
<1> QED
  BY <1>4, <1>5, <1>6, <1>7, <1>8

(* A tab hears from the server.                                              *)
LEMMA BInvMessage ==
  ASSUME BInv, NEW t \in Tab, onParticipants(t) \/ onEdit(t)
  PROVE  TInv'
<1> USE DEF BInv, TInv
<1>1. PICK types : Incoming(t, types)
  BY DEF onParticipants, onEdit
<1>2. message(t).doc \in Doc
  BY <1>1, Hears
<1>3. MailTypeOK'
  BY <1>1, Hears, MailTaken
<1>4. CASE onParticipants(t)
  <2>1. UNCHANGED <<call, active, rendered, outbox>>
    BY <1>4 DEF onParticipants, serverVars, editorVars, viewVars
  <2>2. participants' = [u \in Tab |-> participants'[u]]
    BY <1>4 DEF onParticipants, TabTypeOK
  <2> QED
    BY <1>3, <2>1, <2>2 DEF TabTypeOK, Rendering, activeRef, CallTypeOK, Emits, Documented
<1>5. CASE onEdit(t)
  <2>1. UNCHANGED tabView
    BY <1>5 DEF onEdit, tabView
  <2>2. CASE UNCHANGED call
    BY <1>3, <2>1, <2>2, TabQuiet DEF CallTypeOK
  <2>3. CASE Begins(Get(t, message(t).doc))
    <3>1. WellMade(Get(t, message(t).doc))
      BY <1>2 DEF WellMade, Get
    <3> QED
      BY <1>3, <2>1, <2>3, <3>1, TabQuiet, CallBegins
  <2> QED
    BY <1>5, <2>2, <2>3 DEF onEdit
<1> QED
  BY <1>4, <1>5

(* The server hears from a tab.                                              *)
LEMMA BInvReceive ==
  ASSUME BInv, NEW t \in Tab, receive(t)
  PROVE  FreshSockets' /\ OwnedSockets' /\ TInv'
<1> USE DEF BInv, TInv
<1>1. PICK s \in Socket, d \in Doc :
        /\ s \in connected /\ Emits(Tail(outbox[t]))
        /\ outbox' = [outbox EXCEPT ![t] = Tail(outbox[t])]
        /\ UNCHANGED <<serverVars, socketOf, editorVars, participants>>
        /\ receiveJoin(s, d) \/ receiveLeave(s, d)
  BY Receives
<1>2. TabTypeOK' /\ CallTypeOK'
  BY <1>1, TabSends DEF editorVars, viewVars, serverVars, CallTypeOK
<1>3. CASE receiveJoin(s, d)
  <2>1. MailTypeOK'
    BY <1>3, MailQuiet DEF receiveJoin, queueVars
  <2> QED
    BY <1>1, <1>2, <1>3, <2>1, SocketsJoin
<1>4. CASE receiveLeave(s, d)
  <2>1. MailTypeOK'
    BY <1>4, MailLeave DEF SInv, CInv
  <2> QED
    BY <1>1, <1>2, <1>4, <2>1, SocketsLeave
<1> QED
  BY <1>1, <1>3, <1>4

(* They are invariant.                                                       *)
LEMMA BInvStep == BInv /\ [Next]_clientVars => BInv'
<1> SUFFICES ASSUME BInv, [Next]_clientVars PROVE BInv'
  OBVIOUS
<1> USE DEF BInv
<1>0. CInv'
  BY CInvStep DEF SInv
<1>1. SUFFICES FreshSockets' /\ OwnedSockets' /\ TInv'
  BY <1>0 DEF SInv
<1>2. ASSUME UNCHANGED <<user, connected, sessions, joining, socketOf>> PROVE FreshSockets' /\ OwnedSockets'
  BY <1>2, SocketsQuiet DEF SInv
<1>3. ASSUME NEW k \in Call, authorize(k) \/ read(k) \/ saved(k) \/ conflicted(k)
      PROVE  FreshSockets' /\ OwnedSockets' /\ TInv'
  <2>1. UNCHANGED <<user, connected, sessions, joining, socketOf>>
    BY <1>3 DEF authorize, read, saved, conflicted, tabVars, gatewayVars, presenceVars
  <2> QED
    BY <1>2, <1>3, <2>1, BInvCalls
<1>4. ASSUME NEW k \in Call, edit(k) PROVE FreshSockets' /\ OwnedSockets' /\ TInv'
  <2>1. UNCHANGED <<user, connected, sessions, joining, socketOf>>
    BY <1>4 DEF edit, announce, tabVars, gatewayVars, presenceVars
  <2> QED
    BY <1>2, <1>4, <2>1, BInvEdit
<1>5. ASSUME NEW k \in Call, opened(k) PROVE FreshSockets' /\ OwnedSockets' /\ TInv'
  <2>1. TabTypeOK' /\ UNCHANGED <<gatewayVars, socketOf>>
    BY <1>5, TabOpened DEF TInv
  <2>2. WellMade(NoCall) /\ Goes(k, NoCall)
    BY <1>5 DEF opened, WellMade, NoCall
  <2>3. CallTypeOK'
    BY <2>2, CallMoves DEF TInv
  <2>4. MailTypeOK'
    BY <2>1, MailQuiet DEF TInv, gatewayVars, queueVars, presenceVars
  <2>5. UNCHANGED <<user, connected, sessions, joining, socketOf>>
    BY <2>1 DEF gatewayVars, presenceVars
  <2> QED
    BY <1>2, <2>1, <2>3, <2>4, <2>5 DEF TInv
<1>6. ASSUME NEW t \in Tab,
             type(t) \/ render(t) \/ effect(t) \/ flush(t) \/ \E d \in Doc : openDocument(t, d)
      PROVE  FreshSockets' /\ OwnedSockets' /\ TInv'
  <2>1. UNCHANGED <<user, connected, sessions, joining, socketOf>>
    BY <1>6 DEF type, render, effect, flush, openDocument, tabVars, gatewayVars, presenceVars
  <2> QED
    BY <1>2, <1>6, <2>1, BInvTab
<1>7. ASSUME NEW t \in Tab, onParticipants(t) \/ onEdit(t)
      PROVE  FreshSockets' /\ OwnedSockets' /\ TInv'
  <2>1. UNCHANGED <<user, connected, sessions, joining, socketOf>>
    BY <1>7 DEF onParticipants, onEdit, Incoming, take
  <2> QED
    BY <1>2, <1>7, <2>1, BInvMessage
<1>8. ASSUME NEW t \in Tab, receive(t) PROVE FreshSockets' /\ OwnedSockets' /\ TInv'
  BY <1>8, BInvReceive
<1>9. ASSUME UNCHANGED <<buffer, inbox, sessions, call, tabView>> PROVE TInv'
  <2>1. CallTypeOK'
    BY <1>9 DEF TInv, CallTypeOK
  <2> QED
    BY <1>9, <2>1, MailQuiet, TabQuiet DEF TInv
<1>10. ASSUME NEW t \in Tab, handleShare(t) PROVE FreshSockets' /\ OwnedSockets' /\ TInv'
  <2>1. UNCHANGED <<queueVars, presenceVars, serverVars, tabVars>>
    BY <1>10 DEF handleShare, share, revoke
  <2>2. UNCHANGED <<user, connected, sessions, joining, socketOf>>
    BY <2>1 DEF presenceVars, tabVars
  <2>3. UNCHANGED <<buffer, inbox, sessions, call, tabView>>
    BY <2>1 DEF queueVars, presenceVars, serverVars, tabVars, editorVars, viewVars, tabView
  <2> QED
    BY <1>2, <1>9, <2>2, <2>3
<1>11. ASSUME NEW t \in Tab, open(t) PROVE FreshSockets' /\ OwnedSockets' /\ TInv'
  <2>1. UNCHANGED <<buffer, inbox, sessions, call, tabView>>
    BY <1>11 DEF open, connect, queueVars, serverVars, editorVars, viewVars, tabView
  <2> QED
    BY <1>9, <1>11, <2>1, SocketsOpen
<1>12. ASSUME NEW t \in Tab, lose(t) PROVE FreshSockets' /\ OwnedSockets' /\ TInv'
  <2>1. UNCHANGED <<gatewayVars, serverVars, editorVars, participants>> /\ outbox' = [outbox EXCEPT ![t] = << >>]
    BY <1>12 DEF lose
  <2>2. Emits(<< >>)
    BY EmptyQueue DEF Documented, Emits
  <2>3. TabTypeOK'
    BY <2>1, <2>2, TabSends DEF TInv, editorVars, viewVars
  <2>4. MailTypeOK' /\ CallTypeOK'
    BY <2>1, MailQuiet DEF TInv, gatewayVars, queueVars, presenceVars, serverVars, CallTypeOK
  <2> QED
    BY <1>12, <2>3, <2>4, SocketsLose DEF TInv
<1>13. ASSUME UNCHANGED <<serverVars, tabVars>>, MailTypeOK' PROVE TInv'
  <2>1. TabTypeOK' /\ CallTypeOK'
    BY <1>13, TabQuiet DEF TInv, tabVars, editorVars, viewVars, tabView, serverVars, CallTypeOK
  <2> QED
    BY <1>13, <2>1 DEF TInv
<1>14. ASSUME NEW s \in Socket, NEW d \in Doc, resumeJoin(s, d), UNCHANGED <<serverVars, tabVars, left>>
       PROVE  FreshSockets' /\ OwnedSockets' /\ TInv'
  <2>1. MailTypeOK'
    BY <1>14, MailResume DEF SInv, CInv, TInv
  <2>2. UNCHANGED socketOf
    BY <1>14 DEF tabVars
  <2> QED
    BY <1>13, <1>14, <2>1, <2>2, SocketsResume
<1>15. ASSUME NEW s \in Socket, notice(s) PROVE FreshSockets' /\ OwnedSockets' /\ TInv'
  <2>1. MailTypeOK'
    BY <1>15, MailNotice DEF SInv, CInv, TInv, notice
  <2> QED
    BY <1>13, <1>15, <2>1, SocketsNotice DEF notice
<1>16. ASSUME handleEvents, UNCHANGED <<serverVars, tabVars, left>>
       PROVE  FreshSockets' /\ OwnedSockets' /\ TInv'
  <2>1. MailTypeOK'
    BY <1>16, MailDelivered DEF TInv
  <2>2. UNCHANGED <<user, connected, sessions, joining, socketOf>>
    BY <1>16 DEF handleEvents, tabVars
  <2> QED
    BY <1>2, <1>13, <1>16, <2>1, <2>2
<1>17. CASE UNCHANGED clientVars
  <2>1. UNCHANGED <<user, connected, sessions, joining, socketOf>>
    BY <1>17 DEF clientVars, gatewayVars, presenceVars, tabVars
  <2>2. UNCHANGED <<buffer, inbox, sessions, call, tabView>>
    BY <1>17 DEF clientVars, gatewayVars, queueVars, presenceVars, serverVars, tabVars, editorVars, viewVars, tabView
  <2> QED
    BY <1>2, <1>9, <2>1, <2>2
<1> QED
  BY <1>3, <1>4, <1>5, <1>6, <1>7, <1>8, <1>10, <1>11, <1>12, <1>14, <1>15, <1>16, <1>17 DEF Next

-----------------------------------------------------------------------------
(* Who is where, and who knows. *)

(* The last a tab says of a document is a join if that document is open, and *)
(* a leave otherwise.                                                        *)
OutboxOK(t) ==
  \A d \in Doc :
    IF d = active[t] THEN Followed(outbox[t], "leave", "join", d)
    ELSE Followed(outbox[t], "join", "leave", d)

(* A socket that is in a document its tab does not look at, or will be, is   *)
(* about to leave it, or left while a join of it waited.                     *)
GhostOK(t) ==
  \A d \in Doc, s \in Socket :
    /\ s = socketOf[t] /\ d # active[t]
    /\ s \in byDocument[d] \/ joining[s][d] > 0
    => << s, d >> \in overtaken \/ Holds(outbox[t], "leave", d)

(* When the events and the mail have arrived, the list is what is shown.     *)
Converges(events, mail, d, list, shown) ==
  \/ Newest(events, d, list)
  \/ Silent(events, d) /\ Newest(mail, d, list)
  \/ Silent(events, d) /\ Silent(mail, d) /\ shown = list

(* The document a tab looks at will be joined, or its list will be shown.    *)
JoinedOK(t) ==
  \A d \in Doc :
    d = active[t] /\ t \notin dropped =>
      \/ Holds(outbox[t], "join", d)
      \/ \E s \in Socket :
           /\ s = socketOf[t]
           /\ \/ joining[s][d] > 0 \/ << s, d >> \in refused
              \/ s \in byDocument[d] /\ Converges(buffer, inbox[s], d, byDocument[d], participants[t])

(* A tab that has always heard of a document once it was rendered.           *)
Placed(t) == OutboxOK(t) /\ GhostOK(t) /\ JoinedOK(t)

WInv == \A t \in Tab : t \notin late => Placed(t)

(* In the beginning nobody is anywhere.                                      *)
LEMMA WInvInit == Init => WInv
<1> SUFFICES ASSUME Init PROVE WInv
  OBVIOUS
<1> SUFFICES ASSUME NEW t \in Tab PROVE OutboxOK(t) /\ GhostOK(t) /\ JoinedOK(t)
  BY DEF WInv, Placed
<1>1. outbox[t] = << >> /\ active[t] = NoDoc /\ socketOf[t] = NoSocket
  BY DEF Init
<1>2. OutboxOK(t)
  BY <1>1, EmptyQueue DEF OutboxOK, Followed
<1>3. GhostOK(t)
  BY <1>1, NoneAssumption DEF GhostOK
<1>4. JoinedOK(t)
  BY <1>1, NoneAssumption DEF JoinedOK
<1> QED
  BY <1>2, <1>3, <1>4

(* Steps that leave all that alone.                                          *)
whereVars == <<buffer, byDocument, joining, overtaken, refused, inbox, active, outbox, participants,
               dropped, socketOf, late>>

(* None of them changed.                                                     *)
LEMMA WInvQuiet ==
  ASSUME WInv, UNCHANGED whereVars
  PROVE  WInv'
  BY DEF WInv, Placed, whereVars, OutboxOK, GhostOK, JoinedOK

(* A tab a step does not concern keeps what it has said; its place and its   *)
(* list are up to the server.                                                *)
LEMMA OutboxKept ==
  ASSUME NEW t \in Tab, OutboxOK(t), outbox'[t] = outbox[t], active'[t] = active[t]
  PROVE  OutboxOK(t)'
  BY DEF OutboxOK

(* It is in no document it was not in or about to be in, ...                 *)
LEMMA GhostKept ==
  ASSUME NEW t \in Tab, GhostOK(t), outbox'[t] = outbox[t], active'[t] = active[t],
         socketOf'[t] = socketOf[t], overtaken \subseteq overtaken',
         \A s \in Socket, d \in Doc : s = socketOf[t] /\ (s \in byDocument'[d] \/ joining'[s][d] > 0)
                                       => s \in byDocument[d] \/ joining[s][d] > 0
  PROVE  GhostOK(t)'
<1> SUFFICES ASSUME NEW d \in Doc, NEW s \in Socket, s = socketOf'[t], d # active'[t],
                    s \in byDocument'[d] \/ joining'[s][d] > 0
             PROVE  << s, d >> \in overtaken' \/ Holds(outbox'[t], "leave", d)
  BY DEF GhostOK
<1>1. s = socketOf[t] /\ d # active[t] /\ (s \in byDocument[d] \/ joining[s][d] > 0)
  OBVIOUS
<1> QED
  BY <1>1 DEF GhostOK

(* ... and stays in its own, told of whoever comes and goes.                 *)
LEMMA JoinedKept ==
  ASSUME NEW t \in Tab, JoinedOK(t), outbox'[t] = outbox[t], active'[t] = active[t],
         socketOf'[t] = socketOf[t], participants'[t] = participants[t], dropped' = dropped,
         refused \subseteq refused',
         \A s \in Socket, d \in Doc :
           s = socketOf[t] /\ d = active[t] =>
             /\ joining[s][d] > 0 =>
                  \/ joining'[s][d] > 0 \/ << s, d >> \in refused'
                  \/ s \in byDocument'[d] /\ Converges(buffer', inbox'[s], d, byDocument'[d], participants[t])
             /\ s \in byDocument[d] /\ Converges(buffer, inbox[s], d, byDocument[d], participants[t]) =>
                  s \in byDocument'[d] /\ Converges(buffer', inbox'[s], d, byDocument'[d], participants[t])
  PROVE  JoinedOK(t)'
<1> SUFFICES ASSUME NEW d \in Doc, d = active'[t], t \notin dropped'
             PROVE  \/ Holds(outbox'[t], "join", d)
                    \/ \E s \in Socket :
                         /\ s = socketOf'[t]
                         /\ \/ joining'[s][d] > 0 \/ << s, d >> \in refused'
                            \/ /\ s \in byDocument'[d]
                               /\ Converges(buffer', inbox'[s], d, byDocument'[d], participants'[t])
  BY DEF JoinedOK
<1>1. CASE Holds(outbox[t], "join", d)
  BY <1>1
<1>2. CASE \E s \in Socket :
             /\ s = socketOf[t]
             /\ \/ joining[s][d] > 0 \/ << s, d >> \in refused
                \/ s \in byDocument[d] /\ Converges(buffer, inbox[s], d, byDocument[d], participants[t])
  <2>1. PICK s \in Socket :
             /\ s = socketOf[t]
             /\ \/ joining[s][d] > 0 \/ << s, d >> \in refused
                \/ s \in byDocument[d] /\ Converges(buffer, inbox[s], d, byDocument[d], participants[t])
    BY <1>2
  <2> QED
    BY <2>1
<1> QED
  BY <1>1, <1>2 DEF JoinedOK

(* A list that would have been shown is, after a step that publishes.        *)
LEMMA ConvergesOn ==
  ASSUME NEW r, Republishes(r), IsSeq(buffer), NEW mail, NEW m, IsSeq(mail), NEW d \in Doc, NEW shown,
         NEW after, after = mail \/ (after = Append(mail, m) /\ m.doc \in Doc
                                        /\ Newest(r, m.doc, byDocument'[m.doc])),
         Converges(buffer, mail, d, byDocument[d], shown)
  PROVE  Converges(buffer', after, d, byDocument'[d], shown)
<1> DEFINE p == byDocument'[d]
<1>1. IsSeq(r) /\ buffer' = buffer \o r
  BY DEF Republishes, Documented
<1>2. CASE Newest(r, d, p)
  BY <1>1, <1>2, NewestOfEnd DEF Converges
<1>3. CASE Silent(r, d) /\ p = byDocument[d]
  <2>1. PICK events : events = buffer \o r
    OBVIOUS
  <2>2. /\ \A x : Newest(buffer, d, x) => Newest(events, d, x)
        /\ Silent(buffer, d) => Silent(events, d)
    BY <1>1, <1>3, <2>1, NewestOfBeginning, SilentConcat
  <2>3. /\ \A x : Newest(mail, d, x) => Newest(after, d, x)
        /\ Silent(mail, d) => Silent(after, d)
    <3>1. CASE after = mail
      BY <3>1
    <3>2. CASE after = Append(mail, m) /\ m.doc \in Doc /\ Newest(r, m.doc, byDocument'[m.doc])
      <4>1. m.doc # d
        <5>1. ASSUME m.doc = d PROVE FALSE
          <6>1. Newest(r, d, byDocument'[d])
            BY <3>2, <5>1
          <6> QED
            BY <1>3, <6>1 DEF Newest, Silent
        <5> QED
          BY <5>1
      <4>2. PICK o : o = << m >>
        OBVIOUS
      <4>3. IsSeq(o) /\ after = mail \o o /\ (~Lists(m, d) => Silent(o, d))
        BY <3>2, <4>2, OneMessage
      <4>4. Silent(o, d)
        BY <4>1, <4>3 DEF Lists
      <4> QED
        BY <4>3, <4>4, NewestOfBeginning, SilentConcat
    <3> QED
      BY <3>1, <3>2
  <2> QED
    BY <1>1, <1>3, <2>1, <2>2, <2>3 DEF Converges
<1> QED
  BY <1>2, <1>3 DEF Republishes

-----------------------------------------------------------------------------
(* One action after the other. *)

(* A new socket is nowhere.                                                  *)
LEMMA WhereOpen ==
  ASSUME BInv, WInv, NEW t \in Tab, open(t)
  PROVE  WInv'
<1> USE DEF BInv, SInv, CInv, PInv
<1>1. PICK s \in Socket :
        /\ socketOf[t] = NoSocket /\ user[s] = Nobody
        /\ connect(s, UserOf[t]) /\ socketOf' = [socketOf EXCEPT ![t] = s]
        /\ UNCHANGED <<outbox, active, participants, dropped, late>>
  BY DEF open, editorVars, viewVars, pastVars
<1>2. UNCHANGED <<buffer, byDocument, joining, overtaken, refused, inbox>>
  BY <1>1 DEF connect, queueVars
<1>3. \A u \in Tab : socketOf'[u] = IF u = t THEN s ELSE socketOf[u]
  BY <1>1 DEF SocketTypeOK
<1>4. \A d \in Doc : s \notin byDocument[d] /\ joining[s][d] = 0
  BY <1>1 DEF FreshSockets, PresenceIsConsistent
<1> SUFFICES ASSUME NEW u \in Tab, u \notin late' PROVE OutboxOK(u)' /\ GhostOK(u)' /\ JoinedOK(u)'
  BY DEF WInv, Placed
<1>5. OutboxOK(u)'
  BY <1>1, OutboxKept DEF WInv, Placed
<1>6. GhostOK(u)'
  BY <1>1, <1>2, <1>3, <1>4 DEF WInv, Placed, GhostOK
<1>7. JoinedOK(u)'
  <2>1. CASE u = t
    <3>1. \A d \in Doc : d = active[t] /\ t \notin dropped => Holds(outbox[t], "join", d)
      BY <1>1, <2>1, NoneAssumption DEF WInv, Placed, JoinedOK
    <3> QED
      BY <1>1, <2>1, <3>1 DEF JoinedOK
  <2>2. CASE u # t
    BY <1>1, <1>2, <1>3, <2>2 DEF WInv, Placed, JoinedOK
  <2> QED
    BY <2>1, <2>2
<1> QED
  BY <1>5, <1>6, <1>7

(* A tab without a socket has said nothing, and counts as dropped.           *)
LEMMA WhereLose ==
  ASSUME BInv, WInv, NEW t \in Tab, lose(t)
  PROVE  WInv'
<1> USE DEF BInv, SInv, CInv, PInv
<1>1. /\ socketOf' = [socketOf EXCEPT ![t] = NoSocket]
      /\ outbox' = [outbox EXCEPT ![t] = << >>]
      /\ dropped' = dropped \cup {t}
      /\ UNCHANGED <<active, participants, late, buffer, byDocument, joining, overtaken, refused, inbox>>
  BY DEF lose, editorVars, viewVars, gatewayVars, queueVars, presenceVars
<1>2. \A u \in Tab : /\ socketOf'[u] = IF u = t THEN NoSocket ELSE socketOf[u]
                     /\ outbox'[u] = IF u = t THEN << >> ELSE outbox[u]
  BY <1>1 DEF SocketTypeOK, TInv, TabTypeOK
<1> SUFFICES ASSUME NEW u \in Tab, u \notin late' PROVE OutboxOK(u)' /\ GhostOK(u)' /\ JoinedOK(u)'
  BY DEF WInv, Placed
<1>3. CASE u = t
  <2>1. outbox'[u] = << >> /\ socketOf'[u] = NoSocket /\ u \in dropped'
    BY <1>1, <1>2, <1>3
  <2>2. OutboxOK(u)'
    BY <2>1, EmptyQueue DEF OutboxOK, Followed
  <2>3. GhostOK(u)' /\ JoinedOK(u)'
    BY <2>1, NoneAssumption DEF GhostOK, JoinedOK
  <2> QED
    BY <2>2, <2>3
<1>4. CASE u # t
  <2>1. outbox'[u] = outbox[u] /\ socketOf'[u] = socketOf[u] /\ (u \in dropped' <=> u \in dropped)
    BY <1>1, <1>2, <1>4
  <2>2. OutboxOK(u)'
    BY <1>1, <2>1, OutboxKept DEF WInv, Placed
  <2>3. GhostOK(u)'
    BY <1>1, <2>1, GhostKept DEF WInv, Placed
  <2>4. JoinedOK(u)'
    BY <1>1, <2>1 DEF WInv, Placed, JoinedOK
  <2> QED
    BY <2>2, <2>3, <2>4
<1> QED
  BY <1>3, <1>4

(* What is opened will be joined, and what was open before left.             *)
LEMMA WhereOpened ==
  ASSUME BInv, WInv, NEW k \in Call, opened(k)
  PROVE  WInv'
<1> USE DEF BInv, TInv
<1>0. PICK t \in Tab, d \in Doc : t = call[k].tab /\ d = call[k].doc
  BY TabOpened
<1>1. /\ active' = [active EXCEPT ![t] = d]
      /\ dropped' = dropped \ {t}
      /\ late \subseteq late' /\ (t \notin late' => activeRef(t) = active[t])
      /\ UNCHANGED <<gatewayVars, socketOf, participants>>
      /\ \A u \in Tab : u # t => outbox'[u] = outbox[u]
      /\ outbox'[t] = outbox[t] \o Leaves(t, d) \o << Join(d) >>
  BY <1>0, TabOpened
<1>2. UNCHANGED <<buffer, byDocument, joining, overtaken, refused, inbox>>
  BY <1>1 DEF gatewayVars, queueVars, presenceVars
<1>3. \A u \in Tab : active'[u] = IF u = t THEN d ELSE active[u]
  BY <1>1 DEF TabTypeOK
<1>4. PICK r : /\ outbox'[t] = outbox[t] \o r
               /\ Emits(r)
               /\ \A e \in Doc : Holds(r, "join", e) <=> e = d
               /\ \A e \in Doc : Holds(r, "leave", e) <=> (e = activeRef(t) /\ e # d)
               /\ \A e \in Doc : e = d => Followed(r, "leave", "join", e)
               /\ \A e \in Doc : e # d => Followed(r, "join", "leave", e)
  BY <1>1, WhatOpens
<1>5. PICK q : q = outbox[t] /\ IsSeq(q) /\ IsSeq(r)
  BY <1>4 DEF TabTypeOK, Emits, Documented
<1>6. \A e \in Doc : /\ Holds(q \o r, "join", e) <=> Holds(q, "join", e) \/ e = d
                     /\ Holds(q \o r, "leave", e) <=> Holds(q, "leave", e) \/ (e = activeRef(t) /\ e # d)
  BY <1>4, <1>5, HoldsConcat
<1>7. ASSUME t \notin late' PROVE OutboxOK(t)'
  <2>0. activeRef(t) = active[t] /\ OutboxOK(t)
    BY <1>1, <1>7 DEF WInv, Placed
  <2>1. ASSUME NEW e \in Doc, e = d PROVE Followed(q \o r, "leave", "join", e)
    <3>1. Holds(r, "join", e) /\ Followed(r, "leave", "join", e)
      BY <1>4, <2>1
    <3> QED
      BY <1>5, <3>1, FollowedConcat
  <2>2. ASSUME NEW e \in Doc, e # d PROVE Followed(q \o r, "join", "leave", e)
    <3>1. ~Holds(r, "join", e) /\ Followed(r, "join", "leave", e)
      BY <1>4, <2>2
    <3>2. e = active[t] => Holds(r, "leave", e)
      BY <1>4, <2>0, <2>2
    <3>3. e # active[t] => Followed(q, "join", "leave", e)
      BY <1>5, <2>0 DEF OutboxOK
    <3> QED
      BY <1>5, <3>1, <3>2, <3>3, FollowedConcat
  <2> QED
    BY <1>3, <1>4, <1>5, <2>1, <2>2 DEF OutboxOK
<1>8. ASSUME t \notin late' PROVE GhostOK(t)'
  <2>0. activeRef(t) = active[t] /\ GhostOK(t)
    BY <1>1, <1>8 DEF WInv, Placed
  <2> SUFFICES ASSUME NEW e \in Doc, NEW s \in Socket, s = socketOf[t], e # d,
                      s \in byDocument[e] \/ joining[s][e] > 0
               PROVE  << s, e >> \in overtaken \/ Holds(q \o r, "leave", e)
    BY <1>1, <1>2, <1>3, <1>4, <1>5 DEF GhostOK
  <2>1. CASE e = active[t]
    BY <1>6, <2>0, <2>1
  <2>2. CASE e # active[t]
    <3>1. << s, e >> \in overtaken \/ Holds(q, "leave", e)
      BY <1>5, <2>0, <2>2 DEF GhostOK
    <3> QED
      BY <1>6, <3>1
  <2> QED
    BY <2>1, <2>2
<1>9. JoinedOK(t)'
  <2>1. Holds(q \o r, "join", d)
    BY <1>6
  <2> QED
    BY <1>3, <1>4, <1>5, <2>1 DEF JoinedOK
<1>10. ASSUME NEW u \in Tab, u # t, u \notin late' PROVE OutboxOK(u)' /\ GhostOK(u)' /\ JoinedOK(u)'
  <2>1. /\ outbox'[u] = outbox[u] /\ active'[u] = active[u] /\ socketOf'[u] = socketOf[u]
        /\ participants'[u] = participants[u] /\ (u \in dropped' <=> u \in dropped)
        /\ Placed(u)
    BY <1>1, <1>3, <1>10 DEF WInv, Placed
  <2>2. OutboxOK(u)' /\ GhostOK(u)'
    BY <1>2, <2>1, OutboxKept, GhostKept DEF Placed
  <2>3. JoinedOK(u)'
    BY <1>2, <2>1 DEF Placed, JoinedOK
  <2> QED
    BY <2>2, <2>3
<1> QED
  BY <1>7, <1>8, <1>9, <1>10 DEF WInv, Placed

(* A message that is not yet taken, and the one that is.                     *)
LEMMA WhereReceive ==
  ASSUME BInv, WInv, NEW t \in Tab, receive(t)
  PROVE  WInv'
<1> USE DEF BInv
<1>0. PInv /\ IsSeq(buffer)
  BY DEF SInv, CInv, TInv, MailTypeOK, Documented
<1>1. PICK s \in Socket, d \in Doc :
        /\ s = socketOf[t] /\ s \in connected /\ s # NoSocket
        /\ outbox[t] # << >> /\ IsSeq(outbox[t])
        /\ outbox' = [outbox EXCEPT ![t] = Tail(outbox[t])]
        /\ UNCHANGED <<socketOf, editorVars, participants, dropped, late>>
        /\ \/ Says(Head(outbox[t]), "join", d) /\ receiveJoin(s, d)
           \/ Says(Head(outbox[t]), "leave", d) /\ receiveLeave(s, d)
  BY Receives DEF pastVars
<1>2. \A u \in Tab : outbox'[u] = IF u = t THEN Tail(outbox[t]) ELSE outbox[u]
  BY <1>1 DEF TInv, TabTypeOK
<1>3. UNCHANGED active /\ UNCHANGED inbox
  BY <1>1, LeaveEffect DEF editorVars, viewVars, receiveJoin, receiveLeave
<1>4. \A u \in Tab : u # t => socketOf[u] # s
  BY <1>1 DEF SInv, OwnedSockets
<1>5. PICK q : q = outbox[t] /\ IsSeq(q) /\ q # << >>
  BY <1>1
<1>6. ASSUME t \notin late PROVE OutboxOK(t)'
  <2>1. \A e \in Doc : IF e = active[t] THEN Followed(Tail(q), "leave", "join", e)
                       ELSE Followed(Tail(q), "join", "leave", e)
    BY <1>5, <1>6, FollowedTail DEF WInv, Placed, OutboxOK
  <2> QED
    BY <1>2, <1>3, <1>5, <2>1 DEF OutboxOK
<1>7. ASSUME t \notin late
      PROVE  /\ Says(Head(q), "join", d) /\ d # active[t] => Holds(Tail(q), "leave", d)
             /\ Says(Head(q), "leave", d) /\ d = active[t] => Holds(Tail(q), "join", d)
  BY <1>5, <1>7, FollowedTail DEF WInv, Placed, OutboxOK
<1>8. \A what, e : Holds(q, what, e) => Says(Head(q), what, e) \/ Holds(Tail(q), what, e)
  BY <1>5, HoldsTail
<1>9. CASE Says(Head(q), "join", d) /\ receiveJoin(s, d)
  <2>1. /\ joining'[s][d] > 0
        /\ \A z \in Socket, e \in Doc : z # s \/ e # d => joining'[z][e] = joining[z][e]
        /\ UNCHANGED <<buffer, byDocument, overtaken, refused>>
    BY <1>0, <1>9, JoinEffect DEF receiveJoin, queueVars
  <2>2. \A e \in Doc : /\ Says(Head(q), "join", e) => e = d
                       /\ ~Says(Head(q), "leave", e)
    BY <1>9 DEF Says
  <2>3. ASSUME t \notin late PROVE GhostOK(t)'
    <3> SUFFICES ASSUME NEW e \in Doc, e # active[t], s \in byDocument[e] \/ joining'[s][e] > 0
                 PROVE  << s, e >> \in overtaken \/ Holds(Tail(q), "leave", e)
      BY <1>1, <1>2, <1>3, <1>5, <2>1 DEF GhostOK
    <3>1. CASE e = d
      BY <1>7, <1>9, <2>3, <3>1
    <3>2. CASE e # d
      <4>1. << s, e >> \in overtaken \/ Holds(q, "leave", e)
        BY <1>1, <1>5, <2>1, <2>3, <3>2 DEF WInv, Placed, GhostOK
      <4> QED
        BY <1>8, <2>2, <4>1
    <3> QED
      BY <3>1, <3>2
  <2>4. ASSUME t \notin late PROVE JoinedOK(t)'
    <3> SUFFICES ASSUME NEW e \in Doc, e = active[t], t \notin dropped
                 PROVE  \/ Holds(Tail(q), "join", e)
                        \/ joining'[s][e] > 0 \/ << s, e >> \in refused
                        \/ s \in byDocument[e] /\ Converges(buffer, inbox[s], e, byDocument[e], participants[t])
      BY <1>1, <1>2, <1>3, <1>5, <2>1 DEF JoinedOK
    <3>1. CASE e = d
      BY <2>1, <3>1
    <3>2. CASE e # d
      <4>1. \/ Holds(q, "join", e)
            \/ joining[s][e] > 0 \/ << s, e >> \in refused
            \/ s \in byDocument[e] /\ Converges(buffer, inbox[s], e, byDocument[e], participants[t])
        BY <1>1, <1>5, <2>4 DEF WInv, Placed, JoinedOK
      <4> QED
        BY <1>8, <2>1, <2>2, <3>2, <4>1
    <3> QED
      BY <3>1, <3>2
  <2>5. ASSUME NEW u \in Tab, u # t, u \notin late PROVE OutboxOK(u)' /\ GhostOK(u)' /\ JoinedOK(u)'
    <3>1. /\ outbox'[u] = outbox[u] /\ active'[u] = active[u] /\ socketOf'[u] = socketOf[u]
          /\ participants'[u] = participants[u] /\ dropped' = dropped /\ socketOf[u] # s
          /\ Placed(u)
      BY <1>1, <1>2, <1>3, <1>4, <2>5 DEF WInv, Placed
    <3>2. OutboxOK(u)'
      BY <3>1, OutboxKept DEF Placed
    <3>3. GhostOK(u)'
      BY <2>1, <3>1, GhostKept DEF Placed
    <3>4. JoinedOK(u)'
      BY <1>3, <2>1, <3>1, JoinedKept DEF Placed
    <3> QED
      BY <3>2, <3>3, <3>4
  <2> QED
    BY <1>1, <1>6, <2>3, <2>4, <2>5 DEF WInv, Placed
<1>10. CASE Says(Head(q), "leave", d) /\ receiveLeave(s, d)
  <2>1. /\ s \notin byDocument'[d]
        /\ \A e \in Doc : byDocument'[e] \subseteq byDocument[e]
        /\ \A e \in Doc \ {d} : byDocument'[e] = byDocument[e]
        /\ \A e \in Doc, z \in Socket : z # s /\ z \in byDocument[e] => z \in byDocument'[e]
        /\ joining[s][d] > 0 => << s, d >> \in overtaken'
        /\ overtaken \subseteq overtaken'
        /\ UNCHANGED <<joining, refused>>
    BY <1>0, <1>10, LeaveEffect
  <2>2. PICK r : Republishes(r)
    BY <1>0, <1>10, LeavePublishes
  <2>3. \A e \in Doc : /\ Says(Head(q), "leave", e) => e = d
                       /\ ~Says(Head(q), "join", e)
    BY <1>10 DEF Says
  <2>4. ASSUME t \notin late PROVE GhostOK(t)'
    <3> SUFFICES ASSUME NEW e \in Doc, e # active[t], s \in byDocument'[e] \/ joining[s][e] > 0
                 PROVE  << s, e >> \in overtaken' \/ Holds(Tail(q), "leave", e)
      BY <1>1, <1>2, <1>3, <1>5, <2>1 DEF GhostOK
    <3>1. CASE e = d
      BY <2>1, <3>1
    <3>2. CASE e # d
      <4>1. << s, e >> \in overtaken \/ Holds(q, "leave", e)
        BY <1>1, <1>5, <2>1, <2>4, <3>2 DEF WInv, Placed, GhostOK
      <4> QED
        BY <1>8, <2>1, <2>3, <3>2, <4>1
    <3> QED
      BY <3>1, <3>2
  <2>5. ASSUME NEW u \in Tab, NEW z \in Socket, z = socketOf[u], NEW e \in Doc, z # s \/ e # d, z \in byDocument[e],
               Converges(buffer, inbox[z], e, byDocument[e], participants[u])
        PROVE  z \in byDocument'[e] /\ Converges(buffer', inbox'[z], e, byDocument'[e], participants[u])
    <3>1. z \in byDocument'[e]
      BY <2>1, <2>5
    <3>2. IsSeq(inbox[z]) /\ inbox'[z] = inbox[z]
      BY <1>3 DEF TInv, MailTypeOK, Documented
    <3>3. Converges(buffer', inbox'[z], e, byDocument'[e], participants[u])
      BY <1>0, <2>2, <2>5, <3>2, ConvergesOn
    <3> QED
      BY <3>1, <3>3
  <2>6. ASSUME t \notin late PROVE JoinedOK(t)'
    <3> SUFFICES ASSUME NEW e \in Doc, e = active[t], t \notin dropped
                 PROVE  \/ Holds(Tail(q), "join", e)
                        \/ joining[s][e] > 0 \/ << s, e >> \in refused
                        \/ s \in byDocument'[e] /\ Converges(buffer', inbox'[s], e, byDocument'[e], participants[t])
      BY <1>1, <1>2, <1>3, <1>5, <2>1 DEF JoinedOK
    <3>1. CASE e = d
      BY <1>7, <1>10, <2>6, <3>1
    <3>2. CASE e # d
      <4>1. \/ Holds(q, "join", e)
            \/ joining[s][e] > 0 \/ << s, e >> \in refused
            \/ s \in byDocument[e] /\ Converges(buffer, inbox[s], e, byDocument[e], participants[t])
        BY <1>1, <1>5, <2>6 DEF WInv, Placed, JoinedOK
      <4> QED
        BY <1>1, <1>8, <2>3, <2>5, <3>2, <4>1
    <3> QED
      BY <3>1, <3>2
  <2>7. ASSUME NEW u \in Tab, u # t, u \notin late PROVE OutboxOK(u)' /\ GhostOK(u)' /\ JoinedOK(u)'
    <3>1. /\ outbox'[u] = outbox[u] /\ active'[u] = active[u] /\ socketOf'[u] = socketOf[u]
          /\ participants'[u] = participants[u] /\ dropped' = dropped /\ socketOf[u] # s
          /\ Placed(u)
      BY <1>1, <1>2, <1>3, <1>4, <2>7 DEF WInv, Placed
    <3>2. OutboxOK(u)'
      BY <3>1, OutboxKept DEF Placed
    <3>3. GhostOK(u)'
      BY <2>1, <3>1, GhostKept DEF Placed
    <3>4. JoinedOK(u)'
      BY <2>1, <2>5, <3>1, JoinedKept DEF Placed
    <3> QED
      BY <3>2, <3>3, <3>4
  <2> QED
    BY <1>1, <1>6, <2>4, <2>6, <2>7 DEF WInv, Placed
<1> QED
  BY <1>1, <1>5, <1>9, <1>10

(* Steps of the server alone: who joins, goes or edits, publishes.           *)
LEMMA WherePublished ==
  ASSUME BInv, WInv, NEW r, Republishes(r), UNCHANGED <<active, outbox, participants, dropped, socketOf, late>>,
         overtaken \subseteq overtaken', refused \subseteq refused',
         NEW out, \A t \in Tab : socketOf[t] # out,
         \A z \in Socket, e \in Doc : z \in byDocument'[e] \/ joining'[z][e] > 0
                                        => z \in byDocument[e] \/ joining[z][e] > 0,
         \A z \in Socket, e \in Doc : z # out /\ z \in byDocument[e] => z \in byDocument'[e],
         \A z \in Socket, e \in Doc :
           joining[z][e] > 0 =>
             \/ joining'[z][e] > 0 \/ << z, e >> \in refused'
             \/ z \in byDocument'[e] /\ Newest(r, e, byDocument'[e]),
         \A z \in Socket :
           z # out => \/ inbox'[z] = inbox[z]
                      \/ \E m : /\ inbox'[z] = Append(inbox[z], m)
                                /\ m.doc \in Doc /\ Newest(r, m.doc, byDocument'[m.doc])
  PROVE  WInv'
<1> USE DEF BInv
<1>0. IsSeq(buffer) /\ IsSeq(r) /\ buffer' = buffer \o r
  BY DEF TInv, MailTypeOK, Documented, Republishes
<1> SUFFICES ASSUME NEW u \in Tab, u \notin late' PROVE OutboxOK(u)' /\ GhostOK(u)' /\ JoinedOK(u)'
  BY DEF WInv, Placed
<1>1. OutboxOK(u)'
  BY OutboxKept DEF WInv, Placed
<1>2. GhostOK(u)'
  BY GhostKept DEF WInv, Placed
<1>3. ASSUME NEW z \in Socket, z = socketOf[u], NEW e \in Doc, z \in byDocument[e],
             Converges(buffer, inbox[z], e, byDocument[e], participants[u])
      PROVE  z \in byDocument'[e] /\ Converges(buffer', inbox'[z], e, byDocument'[e], participants[u])
  <2>1. z \in byDocument'[e]
    BY <1>3
  <2>2. IsSeq(inbox[z])
    BY DEF TInv, MailTypeOK, Documented
  <2>3. CASE inbox'[z] = inbox[z]
    BY <1>0, <1>3, <2>2, <2>3, ConvergesOn
  <2>4. ASSUME NEW m, inbox'[z] = Append(inbox[z], m), m.doc \in Doc, Newest(r, m.doc, byDocument'[m.doc])
        PROVE  Converges(buffer', inbox'[z], e, byDocument'[e], participants[u])
    BY <1>0, <1>3, <2>2, <2>4, ConvergesOn
  <2>5. Converges(buffer', inbox'[z], e, byDocument'[e], participants[u])
    BY <1>0, <1>3, <2>2, <2>3, <2>4, ConvergesOn
  <2> QED
    BY <2>1, <2>5
<1>4. ASSUME NEW z \in Socket, NEW e \in Doc, Newest(r, e, byDocument'[e])
      PROVE  Converges(buffer', inbox'[z], e, byDocument'[e], participants[u])
  BY <1>0, <1>4, NewestOfEnd DEF Converges
<1>5. JoinedOK(u)'
  BY <1>3, <1>4, JoinedKept DEF WInv, Placed
<1> QED
  BY <1>1, <1>2, <1>5

(* A join enters and tells everybody, or is refused.                         *)
LEMMA WhereResume ==
  ASSUME BInv, WInv, NEW s \in Socket, NEW d \in Doc, resumeJoin(s, d), UNCHANGED tabVars
  PROVE  WInv'
<1> USE DEF BInv
<1>0. PInv /\ IsSeq(buffer) /\ inbox = [z \in Socket |-> inbox[z]]
  BY DEF SInv, CInv, TInv, MailTypeOK, Documented
<1>1. PICK r : /\ Republishes(r)
               /\ \/ inbox' = inbox
                  \/ \E m : /\ m.type = "joined" /\ m.doc = d
                            /\ inbox' = [inbox EXCEPT ![s] = Append(@, m)]
               /\ << s, d >> \in refused' \/ Newest(r, d, byDocument'[d])
               /\ inbox' # inbox => Newest(r, d, byDocument'[d])
  BY <1>0, ResumePublishes
<1>2. /\ \A z \in Socket, e \in Doc : z # s \/ e # d => joining'[z][e] = joining[z][e]
      /\ \A z \in Socket, e \in Doc : joining'[z][e] <= joining[z][e]
      /\ joining[s][d] > 0
      /\ \A z \in Socket, e \in Doc :
           z \in byDocument'[e] => z \in byDocument[e] \/ (z = s /\ e = d)
      /\ \A e \in Doc : byDocument[e] \subseteq byDocument'[e]
      /\ << s, d >> \in refused' \/ s \in byDocument'[d]
      /\ refused \subseteq refused'
  BY <1>0, ResumeEffect
<1>3. UNCHANGED <<active, outbox, participants, dropped, socketOf, late, overtaken>>
  BY DEF tabVars, editorVars, viewVars, pastVars, resumeJoin
<1>4. PICK out : out \notin Socket \cup {NoSocket}
  <2>1. PICK x : x = {y \in Socket \cup {NoSocket} : y \notin y}
    OBVIOUS
  <2> QED
    BY <2>1
<1>5. \A t \in Tab : socketOf[t] # out
  BY <1>4 DEF SInv, CInv, SocketTypeOK
<1>6. \A z \in Socket, e \in Doc : joining[z][e] \in Nat /\ joining'[z][e] \in Nat
  <2>1. joining \in [Socket -> [Doc -> Nat]]
    BY <1>0 DEF PInv, MembershipTypeOK
  <2>2. joining' \in [Socket -> [Doc -> Nat]]
    <3>1. PInv'
      BY <1>0, PInvResume
    <3> QED
      BY <3>1 DEF PInv, MembershipTypeOK
  <2> QED
    BY <2>1, <2>2
<1>7. \A z \in Socket, e \in Doc : z \in byDocument'[e] \/ joining'[z][e] > 0
                                     => z \in byDocument[e] \/ joining[z][e] > 0
  BY <1>2, <1>6
<1>8. \A z \in Socket, e \in Doc :
        joining[z][e] > 0 =>
          \/ joining'[z][e] > 0 \/ << z, e >> \in refused'
          \/ z \in byDocument'[e] /\ Newest(r, e, byDocument'[e])
  BY <1>1, <1>2
<1>9. \A z \in Socket : \/ inbox'[z] = inbox[z]
                        \/ \E m : /\ inbox'[z] = Append(inbox[z], m)
                                  /\ m.doc \in Doc /\ Newest(r, m.doc, byDocument'[m.doc])
  <2> TAKE z \in Socket
  <2>1. CASE inbox'[z] = inbox[z]
    BY <2>1
  <2>2. CASE inbox'[z] # inbox[z]
    <3>1. PICK m : m.doc = d /\ inbox' = [inbox EXCEPT ![s] = Append(@, m)]
      BY <1>1, <2>2
    <3>2. inbox'[z] = Append(inbox[z], m)
      BY <1>0, <2>2, <3>1
    <3>3. Newest(r, m.doc, byDocument'[m.doc])
      <4>1. Newest(r, d, byDocument'[d])
        BY <1>1, <2>2
      <4> QED
        BY <3>1, <4>1
    <3> QED
      BY <3>1, <3>2, <3>3
  <2> QED
    BY <2>1, <2>2
<1>10. \A z \in Socket, e \in Doc : z # out /\ z \in byDocument[e] => z \in byDocument'[e]
  BY <1>2
<1>11. Republishes(r) /\ overtaken \subseteq overtaken' /\ refused \subseteq refused'
  BY <1>1, <1>2, <1>3
<1>12. UNCHANGED <<active, outbox, participants, dropped, socketOf, late>>
  BY <1>3
<1>13. \A z \in Socket :
         z # out => \/ inbox'[z] = inbox[z]
                    \/ \E m : /\ inbox'[z] = Append(inbox[z], m)
                              /\ m.doc \in Doc /\ Newest(r, m.doc, byDocument'[m.doc])
  BY <1>9
<1> QED
  BY <1>5, <1>7, <1>8, <1>10, <1>11, <1>12, <1>13, WherePublished

(* A socket no tab has leaves what it was in, and tells everybody.           *)
LEMMA WhereNotice ==
  ASSUME BInv, WInv, NEW s \in Socket, notice(s)
  PROVE  WInv'
<1> USE DEF BInv
<1>0. PInv /\ IsSeq(buffer) /\ IsFiniteSet(sessions[s]) /\ inbox = [z \in Socket |-> inbox[z]]
  BY DEF SInv, CInv, TInv, MailTypeOK, Documented
<1>1. disconnect(s) /\ UNCHANGED <<active, outbox, participants, dropped, socketOf, late>>
  BY DEF notice, tabVars, editorVars, viewVars, pastVars
<1>2. PICK r : Republishes(r)
  BY <1>0, <1>1, DisconnectPublishes
<1>3. /\ \A e \in Doc : byDocument'[e] = IF e \in sessions[s] THEN byDocument[e] \ {s} ELSE byDocument[e]
      /\ inbox' = [inbox EXCEPT ![s] = << >>]
      /\ UNCHANGED <<joining, refused, overtaken>>
  BY <1>0, <1>1, DisconnectEffect
<1>4. \A t \in Tab : socketOf[t] # s
  BY DEF notice, Abandoned
<1>5. \A z \in Socket : z # s => inbox'[z] = inbox[z]
  BY <1>0, <1>3
<1>6. \A z \in Socket, e \in Doc : z \in byDocument'[e] \/ joining'[z][e] > 0
                                     => z \in byDocument[e] \/ joining[z][e] > 0
  BY <1>3
<1>7. \A z \in Socket, e \in Doc : z # s /\ z \in byDocument[e] => z \in byDocument'[e]
  BY <1>3
<1>8. overtaken \subseteq overtaken' /\ refused \subseteq refused'
  BY <1>3
<1>9. \A z \in Socket, e \in Doc :
        joining[z][e] > 0 =>
          \/ joining'[z][e] > 0 \/ << z, e >> \in refused'
          \/ z \in byDocument'[e] /\ Newest(r, e, byDocument'[e])
  BY <1>3
<1>10. \A z \in Socket :
         z # s => \/ inbox'[z] = inbox[z]
                  \/ \E m : /\ inbox'[z] = Append(inbox[z], m)
                            /\ m.doc \in Doc /\ Newest(r, m.doc, byDocument'[m.doc])
  BY <1>5
<1> QED
  BY <1>1, <1>2, <1>4, <1>6, <1>7, <1>8, <1>9, <1>10, WherePublished

(* An edit says nothing of who is where.                                     *)
LEMMA WhereEdit ==
  ASSUME BInv, WInv, NEW k \in Call, edit(k)
  PROVE  WInv'
<1> USE DEF BInv
<1>1. UNCHANGED <<byDocument, joining, overtaken, refused, inbox, active, outbox, participants, dropped, socketOf,
               late>>
  BY DEF edit, announce, gatewayVars, presenceVars, tabVars, editorVars, viewVars, pastVars
<1>2. CASE UNCHANGED gatewayVars
  BY <1>1, <1>2, WInvQuiet DEF gatewayVars, queueVars, whereVars
<1>3. ASSUME NEW v, NEW op, NEW x, announce(EditEvent(call[k].doc, v, op, x)) PROVE WInv'
  <2>1. publish(EditEvent(call[k].doc, v, op, x)) /\ IsSeq(buffer) /\ call[k].doc \in Doc
    BY <1>3 DEF announce, TInv, MailTypeOK, Documented, CallTypeOK, edit
  <2>2. PICK r : Republishes(r)
    BY <1>1, <2>1, EditPublishes
  <2>3. PICK out : out \notin Socket \cup {NoSocket}
    <3>1. PICK y : y = {z \in Socket \cup {NoSocket} : z \notin z}
      OBVIOUS
    <3> QED
      BY <3>1
  <2>4. \A t \in Tab : socketOf[t] # out
    BY <2>3 DEF SInv, CInv, SocketTypeOK
  <2>5. overtaken \subseteq overtaken' /\ refused \subseteq refused'
    BY <1>1
  <2>6. \A z \in Socket, e \in Doc : z \in byDocument'[e] \/ joining'[z][e] > 0
                                       => z \in byDocument[e] \/ joining[z][e] > 0
    BY <1>1
  <2>7. \A z \in Socket, e \in Doc : z # out /\ z \in byDocument[e] => z \in byDocument'[e]
    BY <1>1
  <2>8. \A z \in Socket, e \in Doc :
          joining[z][e] > 0 =>
            \/ joining'[z][e] > 0 \/ << z, e >> \in refused'
            \/ z \in byDocument'[e] /\ Newest(r, e, byDocument'[e])
    BY <1>1
  <2>9. \A z \in Socket :
          z # out => \/ inbox'[z] = inbox[z]
                     \/ \E m : /\ inbox'[z] = Append(inbox[z], m)
                               /\ m.doc \in Doc /\ Newest(r, m.doc, byDocument'[m.doc])
    BY <1>1
  <2>10. UNCHANGED <<active, outbox, participants, dropped, socketOf, late>>
    BY <1>1
  <2> QED
    BY <2>2, <2>4, <2>5, <2>6, <2>7, <2>8, <2>9, <2>10, WherePublished
<1> QED
  BY <1>2, <1>3 DEF edit

(* The events reach the sockets of their rooms, lists and all.               *)
LEMMA WhereDelivered ==
  ASSUME BInv, WInv, handleEvents, UNCHANGED tabVars
  PROVE  WInv'
<1> USE DEF BInv
<1>1. UNCHANGED <<byDocument, joining, overtaken, refused, active, outbox, participants, dropped, socketOf, late>>
  BY DEF handleEvents, tabVars, editorVars, viewVars, pastVars
<1>2. /\ buffer' = << >>
      /\ inbox' = [s \in Socket |->
           IF s \in connected
           THEN inbox[s] \o ElementsAt(buffer, {i \in 1..Len(buffer) : s \in rooms[buffer[i].doc]})
           ELSE << >>]
  BY DEF handleEvents, deliver
<1> SUFFICES ASSUME NEW u \in Tab, u \notin late' PROVE OutboxOK(u)' /\ GhostOK(u)' /\ JoinedOK(u)'
  BY DEF WInv, Placed
<1>3. OutboxOK(u)' /\ GhostOK(u)'
  BY <1>1, OutboxKept, GhostKept DEF WInv, Placed
<1>4. ASSUME NEW z \in Socket, z = socketOf[u], NEW d \in Doc, z \in byDocument[d],
             Converges(buffer, inbox[z], d, byDocument[d], participants[u])
      PROVE  Converges(buffer', inbox'[z], d, byDocument[d], participants[u])
  <2>1. z \in connected /\ rooms = byDocument
    BY <1>4, NoneAssumption DEF SInv, OwnedSockets, CInv, PInv, PresenceIsConsistent
  <2>2. PICK I \in SUBSET (1..Len(buffer)) : I = {i \in 1..Len(buffer) : z \in rooms[buffer[i].doc]}
    OBVIOUS
  <2>3. PICK w : w = ElementsAt(buffer, I)
    OBVIOUS
  <2>4. inbox'[z] = inbox[z] \o w
    BY <1>2, <2>1, <2>2, <2>3
  <2>5. IsSeq(buffer) /\ IsSeq(inbox[z]) /\ IsSeq(w)
    BY <2>3, QueuePick DEF TInv, MailTypeOK, Documented
  <2>6. \A i \in 1..Len(buffer) : Lists(buffer[i], d) => i \in I
    BY <1>4, <2>1, <2>2 DEF Lists
  <2>7. /\ Silent(buffer, d) => Silent(w, d)
        /\ \A p : Newest(buffer, d, p) => Newest(w, d, p)
    BY <2>3, <2>5, <2>6, PickedLists
  <2>8. Silent(buffer', d)
    <3>1. Silent(<< >>, d)
      BY EmptyQueue DEF Silent
    <3> QED
      BY <1>2, <3>1
  <2>9. CASE Newest(buffer, d, byDocument[d])
    BY <2>4, <2>5, <2>7, <2>8, <2>9, NewestOfEnd DEF Converges
  <2>10. CASE Silent(buffer, d) /\ Newest(inbox[z], d, byDocument[d])
    BY <2>4, <2>5, <2>7, <2>8, <2>10, NewestOfBeginning DEF Converges
  <2>11. CASE Silent(buffer, d) /\ Silent(inbox[z], d) /\ participants[u] = byDocument[d]
    BY <2>4, <2>5, <2>7, <2>8, <2>11, SilentConcat DEF Converges
  <2> QED
    BY <1>4, <2>9, <2>10, <2>11 DEF Converges
<1>5. JoinedOK(u)'
  BY <1>1, <1>4, JoinedKept DEF WInv, Placed
<1> QED
  BY <1>3, <1>5

(* A message is shown, or says nothing about who is there.                   *)
LEMMA WhereMessage ==
  ASSUME BInv, WInv, NEW t \in Tab, onParticipants(t) \/ onEdit(t)
  PROVE  WInv'
<1> USE DEF BInv
<1>1. PICK s \in Socket :
        /\ s = socketOf[t] /\ s # NoSocket
        /\ Documented(inbox[s]) /\ inbox[s] # << >>
        /\ message(t) = Head(inbox[s])
        /\ take(s)
        /\ \A z \in Socket : inbox'[z] = IF z = s THEN Tail(inbox[s]) ELSE inbox[z]
  <2>1. PICK types : Incoming(t, types)
    BY DEF onParticipants, onEdit
  <2> QED
    BY <2>1, Hears
<1>2. UNCHANGED <<buffer, byDocument, joining, overtaken, refused, active, outbox, dropped, socketOf>>
  BY <1>1 DEF take, queueVars, onParticipants, onEdit, editorVars, viewVars
<1>3. \/ /\ message(t).type \in {"joined", "presence"}
         /\ late \subseteq late'
         /\ \/ t \in late' \/ activeRef(t) = active[t]
            \/ message(t).doc # activeRef(t) /\ message(t).doc # active[t]
         /\ participants' = IF message(t).doc = activeRef(t)
                            THEN [participants EXCEPT ![t] = message(t).participants]
                            ELSE participants
      \/ message(t).type = "edit" /\ participants' = participants /\ late' = late
  <2>1. CASE onParticipants(t)
    BY <2>1, Hears DEF onParticipants
  <2>2. CASE onEdit(t)
    <3>1. message(t).type \in {"edit"}
      BY <2>2, Hears DEF onEdit
    <3> QED
      BY <2>2, <3>1 DEF onEdit
  <2> QED
    BY <2>1, <2>2
<1>4. participants = [u \in Tab |-> participants[u]]
  BY DEF TInv, TabTypeOK
<1>5. \A u \in Tab : u # t => participants'[u] = participants[u] /\ socketOf[u] # s
  BY <1>1, <1>3, <1>4 DEF SInv, OwnedSockets
<1>6. ASSUME NEW u \in Tab, u \notin late' PROVE Placed(u) /\ OutboxOK(u)' /\ GhostOK(u)'
  <2>1. Placed(u)
    BY <1>3, <1>6 DEF WInv, Placed
  <2> QED
    BY <1>2, <2>1, OutboxKept, GhostKept DEF Placed
<1>7. ASSUME NEW u \in Tab, u # t, u \notin late' PROVE JoinedOK(u)'
  <2>1. participants'[u] = participants[u] /\ \A z \in Socket : z = socketOf[u] => inbox'[z] = inbox[z]
    BY <1>1, <1>5, <1>7
  <2> QED
    BY <1>2, <1>6, <1>7, <2>1, JoinedKept DEF Placed
<1>8. ASSUME t \notin late' PROVE JoinedOK(t)'
  <2> SUFFICES ASSUME NEW d \in Doc, d = active[t], t \notin dropped,
                      s \in byDocument[d], Converges(buffer, inbox[s], d, byDocument[d], participants[t])
               PROVE  Converges(buffer, Tail(inbox[s]), d, byDocument[d], participants'[t])
    BY <1>1, <1>2, <1>6, <1>8 DEF Placed, JoinedOK
  <2>1. PICK mail : mail = inbox[s] /\ IsSeq(mail) /\ mail # << >>
    BY <1>1 DEF Documented
  <2>2. /\ Silent(mail, d) => Silent(Tail(mail), d) /\ ~Lists(Head(mail), d)
        /\ \A p : Newest(mail, d, p) =>
             \/ Newest(Tail(mail), d, p)
             \/ Silent(Tail(mail), d) /\ Lists(Head(mail), d) /\ Head(mail).participants = p
    BY <2>1, ListsTail
  <2>3. PICK m : m = Head(mail) /\ m = message(t)
    BY <1>1, <2>1
  <2>4. Lists(m, d) => participants'[t] = m.participants
    BY <1>3, <1>4, <1>8, <2>3 DEF Lists
  <2>5. ~Lists(m, d) => participants'[t] = participants[t]
    BY <1>3, <1>8, <2>3 DEF Lists
  <2> QED
    BY <2>1, <2>2, <2>3, <2>4, <2>5 DEF Converges
<1> QED
  BY <1>6, <1>7, <1>8 DEF WInv, Placed

-----------------------------------------------------------------------------
(* No step leads out.                                                        *)
LEMMA WInvStep == BInv /\ WInv /\ [Next]_clientVars => WInv'
<1> SUFFICES ASSUME BInv, WInv, [Next]_clientVars PROVE WInv'
  OBVIOUS
<1>1. ASSUME UNCHANGED <<gatewayVars, socketOf, outbox, active, participants, dropped, late>> PROVE WInv'
  BY <1>1, WInvQuiet DEF gatewayVars, queueVars, presenceVars, whereVars
<1>2. ASSUME NEW k \in Call, authorize(k) \/ read(k) \/ saved(k) \/ conflicted(k) PROVE WInv'
  BY <1>1, <1>2 DEF authorize, read, saved, conflicted, tabVars, editorVars, viewVars, pastVars
<1>3. ASSUME NEW t \in Tab,
             type(t) \/ render(t) \/ effect(t) \/ flush(t) \/ \E d \in Doc : openDocument(t, d)
      PROVE  WInv'
  BY <1>1, <1>3 DEF type, render, effect, flush, openDocument, tabVars, editorVars, viewVars, pastVars
<1>4. ASSUME NEW t \in Tab, handleShare(t) PROVE WInv'
  <2>1. UNCHANGED <<queueVars, presenceVars, tabVars>>
    BY <1>4 DEF handleShare, share, revoke
  <2> QED
    BY <2>1, WInvQuiet DEF queueVars, presenceVars, tabVars, editorVars, viewVars, pastVars, whereVars
<1>5. CASE UNCHANGED clientVars
  BY <1>1, <1>5 DEF clientVars, tabVars, editorVars, viewVars, pastVars
<1> QED
  BY <1>2, <1>3, <1>4, <1>5, WhereOpen, WhereLose, WhereOpened, WhereReceive, WhereResume, WhereNotice,
     WhereEdit, WhereDelivered, WhereMessage DEF Next

(* Sockets, types, places and lists always are as they should be.            *)
LEMMA AlwaysWInv == Spec => [](BInv /\ WInv)
<1>1. Init => BInv /\ WInv
  BY SInvInit, TInvInit, WInvInit DEF BInv
<1>2. BInv /\ WInv /\ [Next]_clientVars => BInv' /\ WInv'
  BY BInvStep, WInvStep
<1> QED
  BY <1>1, <1>2, PTL DEF Spec

(* PresenceListsConverge: when everything has settled, a tab whose join was  *)
(* not refused, whose connection has held and that was never late, is in the *)
(* document it shows and shows who else is.                                  *)
THEOREM ListsConverge == Spec => []PresenceListsConverge
<1>1. BInv /\ WInv => PresenceListsConverge
  <2> SUFFICES ASSUME BInv, WInv, Quiet, NEW t \in Tab, t \notin late, active[t] # NoDoc, socketOf[t] # NoSocket,
                      t \notin dropped, << socketOf[t], active[t] >> \notin refused
               PROVE  /\ socketOf[t] \in byDocument[active[t]]
                      /\ participants[t] = byDocument[active[t]]
    BY DEF PresenceListsConverge
  <2> USE DEF BInv
  <2>1. PICK s \in Socket, d \in Doc : s = socketOf[t] /\ d = active[t]
    BY DEF SInv, CInv, SocketTypeOK, TInv, TabTypeOK
  <2>2. outbox[t] = << >> /\ joining[s][d] = 0 /\ buffer = << >> /\ inbox[s] = << >>
    BY DEF Quiet
  <2>3. ~Holds(<< >>, "join", d) /\ \A p : ~Newest(<< >>, d, p)
    BY EmptyQueue DEF Holds, Newest
  <2>4. s \in byDocument[d] /\ Converges(buffer, inbox[s], d, byDocument[d], participants[t])
    <3>1. JoinedOK(t) /\ ~(joining[s][d] > 0) /\ << s, d >> \notin refused
      BY <2>1, <2>2 DEF WInv, Placed
    <3>2. ~Holds(outbox[t], "join", d)
      BY <2>2, <2>3
    <3> QED
      BY <2>1, <3>1, <3>2 DEF JoinedOK
  <2> QED
    BY <2>1, <2>2, <2>3, <2>4 DEF Converges
<1> QED
  BY <1>1, AlwaysWInv, PTL

(* OnlyRacesLeaveGhosts: when everything has settled, whoever is in a        *)
(* document looks at it, or was left there by a late render (App.jsx:614) or *)
(* by a join that a disconnection or a leave has overtaken (socket.js:78).   *)
THEOREM GhostsAreOfRaces == Spec => []OnlyRacesLeaveGhosts
<1>1. BInv /\ WInv => OnlyRacesLeaveGhosts
  <2> SUFFICES ASSUME BInv, WInv, Quiet, NEW d \in Doc, NEW s \in byDocument[d],
                      s \notin interrupted, << s, d >> \notin overtaken
               PROVE  \E t \in Tab : socketOf[t] = s /\ (active[t] = d \/ t \in late)
    BY DEF OnlyRacesLeaveGhosts
  <2> USE DEF BInv
  <2>1. s \in Socket
    BY DEF SInv, CInv, PInv, MembershipTypeOK
  <2>2. d \in sessions[s]
    BY <2>1 DEF SInv, CInv, PInv, PresenceIsConsistent
  <2>3. s \in connected
    BY <2>1, <2>2 DEF SInv, CInv, PInv, PresenceIsConsistent
  <2>4. PICK t \in Tab : socketOf[t] = s
    BY <2>3 DEF Quiet, Abandoned
  <2>5. outbox[t] = << >>
    BY DEF Quiet
  <2>6. ~Holds(<< >>, "leave", d)
    BY EmptyQueue DEF Holds
  <2>7. active[t] = d \/ t \in late
    BY <2>1, <2>4, <2>5, <2>6 DEF WInv, Placed, GhostOK
  <2> QED
    BY <2>4, <2>7
<1> QED
  BY <1>1, AlwaysWInv, PTL

-----------------------------------------------------------------------------
(* What tabs are told of texts. *)

HistoryOK ==
  /\ history = [d \in Doc |-> history[d]]
  /\ \A d \in Doc : IsSeq(history[d]) /\ Len(history[d]) >= 1

(* A text and the version it is of.                                          *)
Held(d, version, shown) == version \in 1..Len(history[d]) /\ shown = history[d][version]

(* An edit that is announced is of one who writes, and makes its version out *)
(* of the one before.                                                        *)
Announces(m, texts, users) ==
  m.type = "edit" =>
    /\ m.user \in users
    /\ m.version \in 2..Len(texts[m.doc])
    /\ texts[m.doc][m.version] = applyOperation(texts[m.doc][m.version - 1], m.operation)

Announced(q, texts, users) == \A i \in 1..Len(q) : Announces(q[i], texts, users)

EventsOK ==
  Announced(buffer, history, writers) /\ \A s \in Socket : Announced(inbox[s], history, writers)

(* Who saves is a writer; who reads gets some of a version there is.         *)
Answers(c) ==
  /\ c.stage \in {"post", "saved", "conflict"} => UserOf[c.tab] \in writers
  /\ c.stage = "opened" => c.version \in 1..Len(history[c.doc])

(* What a tab shows that was told the truth and nobody types in.             *)
ViewOK(t) ==
  t \notin misled /\ Reader(t) /\ active[t] # NoDoc =>
    Held(active[t], committed[t].version, committed[t].text) /\ text[t] = committed[t].text

EditorsOK ==
  /\ committed = [t \in Tab |-> committed[t]]
  /\ text = [t \in Tab |-> text[t]]
  /\ \A t \in Tab : ViewOK(t)

RInv ==
  /\ HistoryOK /\ EventsOK /\ EditorsOK
  /\ \A k \in Call : Answers(call[k])

(* In the beginning every document has one version and nothing is said of it. *)
LEMMA RInvInit == Init => RInv
<1> SUFFICES ASSUME Init PROVE RInv
  OBVIOUS
<1>1. HistoryOK
  <2>1. PICK h : h = << << >> >>
    OBVIOUS
  <2>2. IsSeq(h) /\ Len(h) = 1
    BY <2>1, OneMessage
  <2> QED
    BY <2>1, <2>2 DEF Init, HistoryOK
<1>2. EventsOK
  BY EmptyQueue DEF Init, GatewayInit, QueueInit, EventsOK, Announced
<1>3. EditorsOK
  BY DEF Init, EditorsOK, ViewOK
<1>4. \A k \in Call : Answers(call[k])
  BY DEF Init, NoCall, Answers
<1> QED
  BY <1>1, <1>2, <1>3, <1>4 DEF RInv

-----------------------------------------------------------------------------
(* Versions are only added, and what was said of the others stays true. *)
Grows ==
  /\ writers \subseteq writers'
  /\ \A d \in Doc :
       /\ Len(history'[d]) \in Nat /\ Len(history[d]) <= Len(history'[d])
       /\ \A i \in 1..Len(history[d]) : history'[d][i] = history[d][i]

(* Nothing is added, ...                                                     *)
LEMMA GrowsQuiet ==
  ASSUME HistoryOK, UNCHANGED history, writers \subseteq writers'
  PROVE  Grows /\ HistoryOK'
<1>1. \A d \in Doc : Len(history[d]) \in Nat
  BY QueueFacts DEF HistoryOK
<1> QED
  BY <1>1 DEF Grows, HistoryOK, IsSeq

(* ... or one version of one document.                                       *)
LEMMA GrowsAppend ==
  ASSUME HistoryOK, NEW d \in Doc, NEW x, history' = [history EXCEPT ![d] = Append(@, x)],
         writers \subseteq writers'
  PROVE  /\ Grows /\ HistoryOK'
         /\ Len(history[d]) \in Nat \ {0} /\ Len(history'[d]) = Len(history[d]) + 1
         /\ history'[d][Len(history[d]) + 1] = x
<1>1. PICK h : h = history[d] /\ IsSeq(h) /\ Len(h) >= 1
  BY DEF HistoryOK
<1>2. PICK g : g = Append(h, x)
  OBVIOUS
<1>3. /\ IsSeq(g) /\ Len(h) \in Nat /\ Len(g) = Len(h) + 1
      /\ \A i \in 1..Len(h) : g[i] = h[i]
      /\ g[Len(h) + 1] = x
  BY <1>1, <1>2, QueueAppend
<1>4. history' = [history EXCEPT ![d] = g]
  BY <1>1, <1>2
<1>5. \A e \in Doc : history'[e] = IF e = d THEN g ELSE history[e]
  BY <1>4 DEF HistoryOK
<1>6. \A e \in Doc : Len(history[e]) \in Nat
  BY QueueFacts DEF HistoryOK
<1>7. Grows
  <2> SUFFICES ASSUME NEW e \in Doc
               PROVE  /\ Len(history'[e]) \in Nat /\ Len(history[e]) <= Len(history'[e])
                      /\ \A i \in 1..Len(history[e]) : history'[e][i] = history[e][i]
    BY DEF Grows
  <2>1. CASE e = d
    BY <1>1, <1>3, <1>5, <2>1
  <2>2. CASE e # d
    BY <1>5, <1>6, <2>2
  <2> QED
    BY <2>1, <2>2
<1>8. HistoryOK'
  <2>1. history' = [e \in Doc |-> history'[e]]
    BY <1>4 DEF HistoryOK
  <2>2. ASSUME NEW e \in Doc PROVE IsSeq(history'[e]) /\ Len(history'[e]) >= 1
    <3>1. CASE e = d
      <4>1. history'[e] = g
        BY <1>5, <3>1
      <4>2. Len(g) >= 1
        BY <1>3
      <4> QED
        BY <1>3, <4>1, <4>2
    <3>2. CASE e # d
      <4>1. history'[e] = history[e] /\ IsSeq(history[e]) /\ Len(history[e]) >= 1
        BY <1>5, <3>2 DEF HistoryOK
      <4> QED
        BY <4>1
    <3> QED
      BY <3>1, <3>2
  <2> QED
    BY <2>1, <2>2 DEF HistoryOK, IsSeq
<1> QED
  BY <1>1, <1>3, <1>5, <1>7, <1>8

(* A version held is held on, ...                                            *)
LEMMA HeldKept ==
  ASSUME HistoryOK, Grows, NEW d \in Doc, NEW v, NEW x, Held(d, v, x)
  PROVE  Held(d, v, x)'
<1>1. Len(history[d]) \in Nat
  BY QueueFacts DEF HistoryOK
<1> QED
  BY <1>1 DEF Held, Grows

(* ... an edit announced made its version, ...                               *)
LEMMA AnnouncesKept ==
  ASSUME HistoryOK, Grows, NEW m, m.doc \in Doc, Announces(m, history, writers)
  PROVE  Announces(m, history', writers')
<1>1. PICK d \in Doc : d = m.doc
  OBVIOUS
<1>2. PICK n \in Nat : n = Len(history[d])
  BY QueueFacts DEF HistoryOK
<1> SUFFICES ASSUME m.type = "edit"
             PROVE  /\ m.user \in writers'
                    /\ m.version \in 2..Len(history'[d])
                    /\ history'[d][m.version] = applyOperation(history'[d][m.version - 1], m.operation)
  BY <1>1 DEF Announces
<1>3. PICK v \in 2..n : v = m.version /\ history[d][v] = applyOperation(history[d][v - 1], m.operation)
  BY <1>1, <1>2 DEF Announces
<1>4. history'[d][v] = history[d][v] /\ history'[d][v - 1] = history[d][v - 1] /\ v \in 2..Len(history'[d])
  BY <1>2, <1>3 DEF Grows
<1>5. m.user \in writers'
  BY DEF Announces, Grows
<1> QED
  BY <1>3, <1>4, <1>5

(* ... so did all edits of a queue, ...                                      *)
LEMMA AnnouncedKept ==
  ASSUME HistoryOK, Grows, NEW q, Documented(q), Announced(q, history, writers)
  PROVE  Announced(q, history', writers')
<1> SUFFICES ASSUME NEW i \in 1..Len(q) PROVE Announces(q[i], history', writers')
  BY DEF Announced
<1>1. q[i].doc \in Doc /\ Announces(q[i], history, writers)
  BY DEF Documented, Announced
<1> QED
  BY <1>1, AnnouncesKept

(* ... and answers are good for as long as they are under way.               *)
LEMMA AnsweredKept ==
  ASSUME HistoryOK, Grows, NEW c, WellMade(c), Answers(c)
  PROVE  Answers(c)'
<1>1. c.stage \in {"post", "saved", "conflict"} => UserOf[c.tab] \in writers'
  BY DEF Answers, Grows
<1>2. ASSUME c.stage = "opened" PROVE c.version \in 1..Len(history'[c.doc])
  <2>1. PICK d \in Doc : d = c.doc /\ c.version \in 1..Len(history[d])
    BY <1>2 DEF Answers, WellMade
  <2>2. Len(history[d]) \in Nat /\ Len(history'[d]) \in Nat /\ Len(history[d]) <= Len(history'[d])
    BY QueueFacts DEF HistoryOK, Grows
  <2> QED
    BY <2>1, <2>2
<1> QED
  BY <1>1, <1>2 DEF Answers

(* A tab that does not change shows a version as before.                     *)
LEMMA ViewKept ==
  ASSUME TInv, HistoryOK, Grows, NEW t \in Tab, ViewOK(t),
         active'[t] = active[t], committed'[t] = committed[t], text'[t] = text[t],
         t \in misled => t \in misled'
  PROVE  ViewOK(t)'
<1>2. ASSUME t \notin misled', Reader(t)', active[t] # NoDoc
      PROVE  Held(active[t], committed[t].version, committed[t].text)' /\ text[t] = committed[t].text
  <2>0. PICK c : c = committed[t]
    OBVIOUS
  <2>1. PICK d \in Doc : d = active[t]
    BY <1>2 DEF TInv, TabTypeOK
  <2>2. Reader(t)
    BY <1>2 DEF Reader, Grows
  <2>3. Held(d, c.version, c.text) /\ text[t] = c.text
    BY <1>2, <2>0, <2>1, <2>2 DEF ViewOK
  <2>4. Held(d, c.version, c.text)'
    BY <2>3, HeldKept
  <2> QED
    BY <2>0, <2>1, <2>3, <2>4 DEF Held
<1> QED
  BY <1>2 DEF ViewOK, Held

-----------------------------------------------------------------------------
(* What is said of edits, queue by queue. *)
LEMMA AnnouncedConcat ==
  ASSUME NEW h, NEW u, NEW q, NEW r, IsSeq(q), IsSeq(r), Announced(q, h, u), Announced(r, h, u)
  PROVE  Announced(q \o r, h, u)
<1>1. /\ Len(q) \in Nat /\ Len(r) \in Nat /\ Len(q \o r) = Len(q) + Len(r)
      /\ \A i \in 1..Len(q) : (q \o r)[i] = q[i]
      /\ \A i \in 1..Len(r) : (q \o r)[Len(q) + i] = r[i]
  BY QueueConcat
<1> SUFFICES ASSUME NEW i \in 1..Len(q \o r)
             PROVE  Announces((q \o r)[i], h, u)
  BY DEF Announced
<1>2. CASE i \in 1..Len(q)
  BY <1>1, <1>2 DEF Announced
<1>3. CASE i \notin 1..Len(q)
  <2>1. i - Len(q) \in 1..Len(r) /\ Len(q) + (i - Len(q)) = i
    BY <1>1, <1>3
  <2> QED
    BY <1>1, <2>1 DEF Announced
<1> QED
  BY <1>2, <1>3

(* Some of a queue of true announcements are true, ...                       *)
LEMMA AnnouncedPick ==
  ASSUME NEW h, NEW u, NEW q, IsSeq(q), Announced(q, h, u), NEW I \in SUBSET (1..Len(q))
  PROVE  Announced(ElementsAt(q, I), h, u)
<1>1. PICK z : z = ElementsAt(q, I)
  OBVIOUS
<1>2. \E at \in [1..Len(z) -> I] : \A k \in 1..Len(z) : z[k] = q[at[k]]
  BY <1>1, QueuePick
<1>3. Announced(z, h, u)
  BY <1>2 DEF Announced
<1> QED
  BY <1>1, <1>3

(* ... as are its first and the rest, ...                                    *)
LEMMA AnnouncedTail ==
  ASSUME NEW h, NEW u, NEW q, IsSeq(q), q # << >>, Announced(q, h, u)
  PROVE  Announced(Tail(q), h, u) /\ Announces(Head(q), h, u)
  BY QueueTail DEF Announced

(* ... and a queue of one.                                                   *)
LEMMA AnnouncedOne ==
  ASSUME NEW h, NEW u, NEW m, Announces(m, h, u)
  PROVE  Announced(<< m >>, h, u)
<1>1. PICK q : q = << m >>
  OBVIOUS
<1>2. Len(q) = 1 /\ q[1] = m
  BY <1>1
<1>3. Announced(q, h, u)
  BY <1>2 DEF Announced
<1> QED
  BY <1>1, <1>3

(* Steps that publish lists, or an edit that is true.                        *)
LEMMA EventsPublished ==
  ASSUME MailTypeOK, HistoryOK, EventsOK, Grows,
         NEW r, IsSeq(r), Announced(r, history', writers'), buffer' = buffer \o r,
         \A z \in Socket :
           \/ inbox'[z] = inbox[z] \/ inbox'[z] = << >>
           \/ \E m : inbox'[z] = Append(inbox[z], m) /\ m.type = "joined"
  PROVE  EventsOK'
<1>1. PICK h, u : h = history' /\ u = writers'
  OBVIOUS
<1>2. ASSUME NEW q, Documented(q), Announced(q, history, writers)
      PROVE  IsSeq(q) /\ Announced(q, h, u)
  BY <1>1, <1>2, AnnouncedKept DEF Documented
<1>3. Announced(buffer', h, u)
  <2>1. PICK q : q = buffer /\ IsSeq(q) /\ Announced(q, h, u)
    BY <1>2 DEF EventsOK, MailTypeOK
  <2> QED
    BY <1>1, <2>1, AnnouncedConcat
<1>4. ASSUME NEW z \in Socket PROVE Announced(inbox'[z], h, u)
  <2>1. PICK q : q = inbox[z] /\ IsSeq(q) /\ Announced(q, h, u)
    BY <1>2 DEF EventsOK, MailTypeOK
  <2>2. ASSUME NEW m, inbox'[z] = Append(q, m), m.type = "joined" PROVE Announced(inbox'[z], h, u)
    <3>1. PICK w : w = << m >>
      OBVIOUS
    <3>2. IsSeq(w) /\ Append(q, m) = q \o w
      BY <2>1, <3>1, OneMessage
    <3>3. Announced(w, h, u)
      BY <2>2, <3>1, AnnouncedOne DEF Announces
    <3> QED
      BY <2>1, <2>2, <3>2, <3>3, AnnouncedConcat
  <2>3. CASE inbox'[z] = << >>
    BY <2>3, EmptyQueue DEF Announced
  <2> QED
    BY <2>1, <2>2, <2>3
<1> QED
  BY <1>1, <1>3, <1>4 DEF EventsOK

(* Lists say nothing of edits.                                               *)
LEMMA ListsAnnounceNothing ==
  ASSUME NEW r, OnlyPresence(r), NEW h, NEW u
  PROVE  Announced(r, h, u)
  BY DEF OnlyPresence, Announced, Announces

(* Nothing is published, and no document edited.                             *)
LEMMA EventsQuiet ==
  ASSUME MailTypeOK, HistoryOK, EventsOK, Grows, UNCHANGED <<buffer, inbox>>
  PROVE  EventsOK'
<1>1. PICK h, u : h = history' /\ u = writers'
  OBVIOUS
<1>2. ASSUME NEW q, Documented(q), Announced(q, history, writers)
      PROVE  Announced(q, h, u)
  BY <1>1, <1>2, AnnouncedKept
<1>3. Announced(buffer, h, u) /\ \A z \in Socket : Announced(inbox[z], h, u)
  BY <1>2 DEF EventsOK, MailTypeOK
<1> QED
  BY <1>1, <1>3 DEF EventsOK

(* What is delivered was said before, ...                                    *)
LEMMA EventsDelivered ==
  ASSUME MailTypeOK, EventsOK, handleEvents, UNCHANGED <<history, writers>>
  PROVE  EventsOK'
<1>1. /\ buffer' = << >>
      /\ inbox' = [s \in Socket |->
           IF s \in connected
           THEN inbox[s] \o ElementsAt(buffer, {i \in 1..Len(buffer) : s \in rooms[buffer[i].doc]})
           ELSE << >>]
  BY DEF handleEvents, deliver
<1>2. Announced(<< >>, history, writers)
  BY EmptyQueue DEF Announced
<1>3. ASSUME NEW s \in Socket PROVE Announced(inbox'[s], history, writers)
  <2>1. PICK I \in SUBSET (1..Len(buffer)) : I = {i \in 1..Len(buffer) : s \in rooms[buffer[i].doc]}
    OBVIOUS
  <2>2. IsSeq(buffer) /\ IsSeq(inbox[s])
    BY DEF MailTypeOK, Documented
  <2>3. PICK w : w = ElementsAt(buffer, I) /\ IsSeq(w) /\ Announced(w, history, writers)
    BY <2>2, QueuePick, AnnouncedPick DEF EventsOK
  <2>4. Announced(inbox[s] \o w, history, writers)
    BY <2>2, <2>3, AnnouncedConcat DEF EventsOK
  <2> QED
    BY <1>1, <1>2, <2>1, <2>3, <2>4
<1> QED
  BY <1>1, <1>2, <1>3 DEF EventsOK

(* ... and what a tab takes is true.                                         *)
LEMMA EventsTaken ==
  ASSUME MailTypeOK, HistoryOK, EventsOK, NEW s \in Socket, take(s), UNCHANGED <<history, writers>>
  PROVE  EventsOK' /\ Announces(Head(inbox[s]), history, writers)
<1>1. /\ inbox[s] # << >> /\ inbox' = [inbox EXCEPT ![s] = Tail(@)]
      /\ UNCHANGED buffer
  BY DEF take, queueVars
<1>2. Announced(Tail(inbox[s]), history, writers) /\ Announces(Head(inbox[s]), history, writers)
  BY <1>1, AnnouncedTail DEF MailTypeOK, EventsOK, Documented
<1>3. \A z \in Socket : inbox'[z] = IF z = s THEN Tail(inbox[s]) ELSE inbox[z]
  BY <1>1 DEF MailTypeOK
<1> QED
  BY <1>1, <1>2, <1>3 DEF EventsOK

-----------------------------------------------------------------------------
(* Texts, one action after the other. *)

(* Calls and tabs a step does not concern need no look.                      *)
LEMMA RInvFrom ==
  ASSUME BInv, RInv, Grows, HistoryOK', EventsOK',
         \A k \in Call : call'[k] = call[k] \/ Answers(call[k])',
         committed' = [t \in Tab |-> committed'[t]], text' = [t \in Tab |-> text'[t]],
         \A t \in Tab : \/ ViewOK(t)'
                        \/ /\ active'[t] = active[t] /\ committed'[t] = committed[t]
                           /\ text'[t] = text[t] /\ (t \in misled => t \in misled')
  PROVE  RInv'
<1>1. ASSUME NEW k \in Call, call'[k] = call[k] PROVE Answers(call[k])'
  <2>1. PICK c : c = call[k]
    OBVIOUS
  <2>2. WellMade(c) /\ Answers(c)
    BY <2>1 DEF BInv, TInv, CallTypeOK, WellMade, RInv
  <2>3. Answers(c)'
    BY <2>2, AnsweredKept DEF RInv
  <2> QED
    BY <1>1, <2>1, <2>3 DEF Answers, Held
<1>2. ASSUME NEW t \in Tab, active'[t] = active[t], committed'[t] = committed[t],
             text'[t] = text[t], t \in misled => t \in misled'
      PROVE  ViewOK(t)'
  BY <1>2, ViewKept DEF BInv, RInv, EditorsOK
<1>3. EditorsOK'
  BY <1>2 DEF EditorsOK
<1> QED
  BY <1>1, <1>3 DEF RInv

(* Steps of sockets alone, and of those who share.                           *)
LEMMA RInvSockets ==
  ASSUME BInv, RInv, UNCHANGED <<history, call, active, committed, text, writers, misled>>, EventsOK'
  PROVE  RInv'
<1>1. Grows /\ HistoryOK'
  BY GrowsQuiet DEF RInv
<1> QED
  BY <1>1, RInvFrom DEF RInv, EditorsOK

(* Whoever enters or leaves, no text changes.                                *)
LEMMA RInvPublished ==
  ASSUME BInv, RInv, UNCHANGED <<history, call, active, committed, text, writers, misled>>,
         NEW r, Republishes(r), OnlyPresence(r),
         \A z \in Socket :
           \/ inbox'[z] = inbox[z] \/ inbox'[z] = << >>
           \/ \E m : inbox'[z] = Append(inbox[z], m) /\ m.type = "joined"
  PROVE  RInv'
<1>1. Grows
  BY GrowsQuiet DEF RInv
<1>2. IsSeq(r) /\ Announced(r, history', writers') /\ buffer' = buffer \o r
  BY ListsAnnounceNothing DEF Republishes, Documented
<1>3. EventsOK'
  BY <1>1, <1>2, EventsPublished DEF BInv, TInv, RInv
<1> QED
  BY <1>3, RInvSockets

(* Nothing of it changed.                                                    *)
LEMMA RInvQuiet ==
  ASSUME BInv, RInv, UNCHANGED <<history, call, active, committed, text, writers, misled, buffer, inbox>>
  PROVE  RInv'
<1>1. Grows
  BY GrowsQuiet DEF RInv
<1>2. EventsOK'
  BY <1>1, EventsQuiet DEF BInv, TInv, RInv
<1> QED
  BY <1>2, RInvSockets

(* A join or a leave is received, ...                                        *)
LEMMA RInvReceive ==
  ASSUME BInv, RInv, NEW t \in Tab, receive(t)
  PROVE  RInv'
<1>1. PICK s \in Socket, d \in Doc :
        /\ UNCHANGED <<serverVars, socketOf, editorVars, participants, left, pastVars>>
        /\ receiveJoin(s, d) \/ receiveLeave(s, d)
  BY Receives DEF BInv
<1>2. UNCHANGED <<history, call, active, committed, text, writers, misled>>
  BY <1>1 DEF serverVars, editorVars, viewVars, pastVars
<1>3. CASE receiveJoin(s, d)
  BY <1>2, <1>3, RInvQuiet DEF receiveJoin, queueVars
<1>4. CASE receiveLeave(s, d)
  <2>1. PInv /\ IsSeq(buffer)
    BY DEF BInv, SInv, CInv, TInv, MailTypeOK, Documented
  <2>2. PICK r : Republishes(r) /\ OnlyPresence(r)
    BY <1>4, <2>1, LeavePublishes
  <2>3. \A z \in Socket : inbox'[z] = inbox[z]
    BY <1>4 DEF receiveLeave
  <2> QED
    BY <1>2, <2>2, <2>3, RInvPublished
<1> QED
  BY <1>1, <1>3, <1>4

(* ... a join goes on, ...                                                   *)
LEMMA RInvResume ==
  ASSUME BInv, RInv, NEW s \in Socket, NEW d \in Doc, resumeJoin(s, d), UNCHANGED <<serverVars, tabVars>>
  PROVE  RInv'
<1>1. PInv /\ IsSeq(buffer) /\ inbox = [z \in Socket |-> inbox[z]]
  BY DEF BInv, SInv, CInv, TInv, MailTypeOK, Documented
<1>2. PICK r : /\ Republishes(r) /\ OnlyPresence(r)
               /\ \/ inbox' = inbox
                  \/ \E m : /\ m.type = "joined" /\ m.doc = d
                            /\ inbox' = [inbox EXCEPT ![s] = Append(@, m)]
  BY <1>1, ResumePublishes
<1>3. \A z \in Socket :
        \/ inbox'[z] = inbox[z]
        \/ \E m : inbox'[z] = Append(inbox[z], m) /\ m.type = "joined"
  BY <1>1, <1>2
<1>4. UNCHANGED <<history, call, active, committed, text, writers, misled>>
  BY DEF serverVars, tabVars, editorVars, viewVars, pastVars
<1> QED
  BY <1>2, <1>3, <1>4, RInvPublished

(* ... a socket is dropped, ...                                              *)
LEMMA RInvNotice ==
  ASSUME BInv, RInv, NEW s \in Socket, notice(s)
  PROVE  RInv'
<1>1. PInv /\ IsSeq(buffer) /\ IsFiniteSet(sessions[s]) /\ inbox = [z \in Socket |-> inbox[z]]
  BY DEF BInv, SInv, CInv, TInv, MailTypeOK, Documented
<1>2. PICK r : Republishes(r) /\ OnlyPresence(r)
  BY <1>1, DisconnectPublishes DEF notice
<1>3. inbox' = [inbox EXCEPT ![s] = << >>]
  BY DEF notice, disconnect
<1>4. \A z \in Socket : inbox'[z] = inbox[z] \/ inbox'[z] = << >>
  BY <1>1, <1>3
<1>5. UNCHANGED <<history, call, active, committed, text, writers, misled>>
  BY DEF notice, serverVars, tabVars, editorVars, viewVars, pastVars
<1> QED
  BY <1>2, <1>4, <1>5, RInvPublished

(* ... events are delivered.                                                 *)
LEMMA RInvDelivered ==
  ASSUME BInv, RInv, handleEvents, UNCHANGED <<serverVars, tabVars>>
  PROVE  RInv'
<1>1. UNCHANGED <<history, call, active, committed, text, writers, misled>>
  BY DEF serverVars, tabVars, editorVars, viewVars, pastVars
<1>2. EventsOK'
  BY <1>1, EventsDelivered DEF BInv, TInv, RInv
<1> QED
  BY <1>1, <1>2, RInvSockets

-----------------------------------------------------------------------------
(* Steps of calls. *)
LEMMA RInvRead ==
  ASSUME BInv, RInv, NEW k \in Call, authorize(k) \/ read(k) \/ conflicted(k)
  PROVE  RInv'
<1>1. UNCHANGED <<history, active, committed, text, writers, misled, buffer, inbox>>
  BY DEF authorize, read, conflicted, tabVars, editorVars, viewVars, pastVars, gatewayVars, queueVars,
         presenceVars
<1>2. Grows /\ HistoryOK'
  BY <1>1, GrowsQuiet DEF RInv
<1>3. EventsOK'
  BY <1>1, <1>2, EventsQuiet DEF BInv, TInv, RInv
<1>4. PICK d \in Doc : d = call[k].doc
  BY DEF BInv, TInv, CallTypeOK, authorize, read, conflicted
<1>5. PICK c : Answers(c) /\ Goes(k, c)
  <2>1. Answers(NoCall)
    BY DEF Answers, NoCall
  <2>2. \A u : Answers(Get(u, d))
    BY DEF Answers, Get
  <2>3. \A u, n, e : Answers([stage |-> "read", tab |-> u, doc |-> d, pages |-> n, canEdit |-> e])
    BY DEF Answers
  <2>4. ASSUME NEW u, NEW x, NEW e
        PROVE  Answers([stage |-> "opened", tab |-> u, doc |-> d, text |-> x,
                        version |-> Len(history[d]), canEdit |-> e])
    <3>1. PICK n : n = Len(history[d]) /\ n \in 1..Len(history[d])
      <4>1. IsSeq(history[d]) /\ Len(history[d]) >= 1
        BY DEF RInv, HistoryOK
      <4>2. Len(history[d]) \in Nat
        BY <4>1, QueueFacts
      <4> QED
        BY <4>1, <4>2
    <3>2. Answers([stage |-> "opened", tab |-> u, doc |-> d, text |-> x, version |-> n, canEdit |-> e])
      BY <3>1 DEF Answers
    <3> QED
      BY <3>1, <3>2
  <2>5. CASE authorize(k)
    <3>1. CASE Goes(k, NoCall)
      BY <2>1, <3>1
    <3>2. ASSUME NEW n, NEW e,
                 Goes(k, [stage |-> "read", tab |-> call[k].tab, doc |-> d, pages |-> n, canEdit |-> e])
          PROVE  \E c : Answers(c) /\ Goes(k, c)
      BY <2>3, <3>2
    <3> QED
      BY <1>4, <2>5, <3>1, <3>2 DEF authorize
  <2>6. CASE read(k)
    <3>1. PICK x, e :
            Goes(k, [stage |-> "opened", tab |-> call[k].tab, doc |-> d, text |-> x,
                     version |-> Len(history[d]), canEdit |-> e])
      BY <1>4, <2>6 DEF read
    <3> QED
      BY <2>4, <3>1
  <2>7. CASE conflicted(k)
    BY <1>4, <2>2, <2>7 DEF conflicted
  <2> QED
    BY <2>5, <2>6, <2>7
<1>6. \A j \in Call : call'[j] = IF j = k THEN c ELSE call[j]
  BY <1>5, CallMoves DEF BInv, TInv
<1>7. \A j \in Call : call'[j] = call[j] \/ Answers(call[j])'
  BY <1>1, <1>5, <1>6 DEF Answers
<1> QED
  BY <1>1, <1>2, <1>3, <1>7, RInvFrom DEF RInv, EditorsOK

(* An edit becomes a version, and is announced as what makes it.             *)
LEMMA RInvEdit ==
  ASSUME BInv, RInv, NEW k \in Call, edit(k)
  PROVE  RInv'
<1>1. UNCHANGED <<active, committed, text, writers, misled, inbox, byDocument>>
  BY DEF edit, announce, gatewayVars, presenceVars, tabVars, editorVars, viewVars, pastVars
<1>2. PICK t \in Tab, d \in Doc : t = call[k].tab /\ d = call[k].doc
  BY DEF BInv, TInv, CallTypeOK, edit
<1>3. UserOf[t] \in writers
  BY <1>2 DEF edit, RInv, Answers
<1>4. \A u, x, v, ops :
        /\ Answers(NoCall)'
        /\ Answers([stage |-> "conflict", tab |-> t, doc |-> d])'
        /\ Answers([stage |-> "saved", tab |-> t, doc |-> d, text |-> x, version |-> v, rest |-> ops])'
  BY <1>1, <1>3 DEF Answers, NoCall
<1>5. PICK c : Answers(c)' /\ Goes(k, c)
  BY <1>2, <1>4 DEF edit
<1>6. \A j \in Call : call'[j] = IF j = k THEN c ELSE call[j]
  BY <1>5, CallMoves DEF BInv, TInv
<1>7. \A j \in Call : call'[j] = call[j] \/ Answers(call[j])'
  BY <1>5, <1>6 DEF Answers, Held
<1>8. Grows /\ HistoryOK' /\ EventsOK'
  <2>1. CASE UNCHANGED <<gatewayVars, history>>
    <3>1. Grows /\ HistoryOK'
      BY <1>1, <2>1, GrowsQuiet DEF RInv
    <3> QED
      BY <2>1, <3>1, EventsQuiet DEF BInv, TInv, RInv, gatewayVars, queueVars, presenceVars
  <2>2. ASSUME NEW op, NEW n, n = Len(history[d]),
               history' = [history EXCEPT ![d] = Append(@, applyOperation(Last(history[d]), op))],
               announce(EditEvent(d, n + 1, op, UserOf[t]))
        PROVE  Grows /\ HistoryOK' /\ EventsOK'
    <3>1. PICK after : after = applyOperation(Last(history[d]), op)
      OBVIOUS
    <3>2. history' = [history EXCEPT ![d] = Append(@, after)]
      BY <2>2, <3>1
    <3>3. /\ Grows /\ HistoryOK'
          /\ n \in Nat \ {0} /\ Len(history'[d]) = n + 1 /\ history'[d][n + 1] = after
      BY <1>1, <2>2, <3>2, GrowsAppend DEF RInv
    <3>4. publish(EditEvent(d, n + 1, op, UserOf[t])) /\ IsSeq(buffer)
      BY <2>2 DEF announce, BInv, TInv, MailTypeOK, Documented
    <3>5. PICK r, m : /\ r = << m >> /\ Republishes(r)
                      /\ m.type = "edit" /\ m.doc = d /\ m.version = n + 1 /\ m.operation = op
                      /\ m.user = UserOf[t]
      BY <1>1, <3>4, EditPublishes
    <3>6. history'[d][n] = Last(history[d])
      <4>1. n \in 1..Len(history[d])
        BY <2>2, <3>3
      <4>2. history'[d][n] = history[d][n]
        BY <3>3, <4>1 DEF Grows
      <4> QED
        BY <2>2, <4>2 DEF Last
    <3>7. history'[d][n + 1] = applyOperation(history'[d][n], op)
      BY <3>1, <3>3, <3>6
    <3>8. n + 1 \in 2..Len(history'[d]) /\ (n + 1) - 1 = n
      BY <3>3
    <3>9. Announces(m, history', writers')
      <4>1. m.version - 1 = n
        BY <3>5, <3>8
      <4> QED
        BY <1>1, <1>3, <3>5, <3>7, <3>8, <4>1 DEF Announces
    <3>10. Announced(r, history', writers') /\ IsSeq(r) /\ buffer' = buffer \o r
      BY <3>5, <3>9, AnnouncedOne DEF Republishes, Documented
    <3>11. EventsOK'
      BY <1>1, <3>3, <3>10, EventsPublished DEF BInv, TInv, RInv
    <3> QED
      BY <3>3, <3>11
  <2> QED
    BY <1>2, <2>1, <2>2 DEF edit
<1> QED
  BY <1>1, <1>7, <1>8, RInvFrom DEF RInv, EditorsOK

(* Steps that leave the texts on the server alone.                           *)
LEMMA RInvTab ==
  ASSUME BInv, RInv, writers \subseteq writers', UNCHANGED <<history, buffer, inbox>>,
         \A k \in Call : call'[k] = call[k] \/ Answers(call[k])',
         committed' = [t \in Tab |-> committed'[t]], text' = [t \in Tab |-> text'[t]],
         \A t \in Tab : \/ ViewOK(t)'
                        \/ /\ active'[t] = active[t] /\ committed'[t] = committed[t]
                           /\ text'[t] = text[t] /\ (t \in misled => t \in misled')
  PROVE  RInv'
<1>1. Grows /\ HistoryOK'
  BY GrowsQuiet DEF RInv
<1>2. EventsOK'
  BY <1>1, EventsQuiet DEF BInv, TInv, RInv
<1> QED
  BY <1>1, <1>2, RInvFrom

(* Who has had an edit saved is no reader.                                   *)
LEMMA RInvSaved ==
  ASSUME BInv, RInv, NEW k \in Call, saved(k)
  PROVE  RInv'
<1>1. UNCHANGED <<history, active, text, writers, misled, buffer, inbox>>
  BY DEF saved, viewVars, pastVars, gatewayVars, queueVars, presenceVars
<1>2. PICK t \in Tab, d \in Doc : t = call[k].tab /\ d = call[k].doc
  BY DEF BInv, TInv, CallTypeOK, saved
<1>3. UserOf[t] \in writers
  BY <1>2 DEF saved, RInv, Answers
<1>4. PICK c : Answers(c)' /\ Goes(k, c)
  <2>1. \A ops, last : Answers(NoCall)' /\ Answers(Post(t, d, ops, last))'
    BY <1>1, <1>3 DEF Answers, NoCall, Post
  <2> QED
    BY <1>2, <2>1 DEF saved
<1>5. \A j \in Call : call'[j] = IF j = k THEN c ELSE call[j]
  BY <1>4, CallMoves DEF BInv, TInv
<1>6. \A j \in Call : call'[j] = call[j] \/ Answers(call[j])'
  BY <1>4, <1>5 DEF Answers, Held
<1>7. PICK x : committed' = [committed EXCEPT ![t] = x]
  BY <1>2 DEF saved, Confirms
<1>8. /\ committed' = [u \in Tab |-> committed'[u]] /\ text' = [u \in Tab |-> text'[u]]
      /\ \A u \in Tab : u # t => committed'[u] = committed[u]
  BY <1>1, <1>7 DEF RInv, EditorsOK
<1>9. ViewOK(t)'
  BY <1>1, <1>3 DEF ViewOK, Reader
<1> QED
  BY <1>1, <1>6, <1>8, <1>9, RInvTab

(* A document is opened as it was read.                                      *)
LEMMA RInvOpened ==
  ASSUME BInv, RInv, NEW k \in Call, opened(k)
  PROVE  RInv'
<1>1. UNCHANGED <<history, writers, buffer, inbox>>
  BY DEF opened, gatewayVars, queueVars, presenceVars
<1>2. PICK t \in Tab, d \in Doc : t = call[k].tab /\ d = call[k].doc
  BY DEF BInv, TInv, CallTypeOK, opened
<1>3. PICK x, v : x = call[k].text /\ v = call[k].version
  OBVIOUS
<1>4. v \in 1..Len(history[d])
  BY <1>2, <1>3 DEF opened, RInv, Answers
<1>5. /\ Goes(k, NoCall)
      /\ active' = [active EXCEPT ![t] = d]
      /\ committed' = [committed EXCEPT ![t] = [text |-> x, version |-> v]]
      /\ text' = [text EXCEPT ![t] = x]
      /\ misled' = IF x = history[d][v] THEN misled \ {t} ELSE misled \cup {t}
  BY <1>2, <1>3 DEF opened, Confirms, Shows
<1>6. /\ active'[t] = d /\ committed'[t] = [text |-> x, version |-> v] /\ text'[t] = x
      /\ committed' = [u \in Tab |-> committed'[u]] /\ text' = [u \in Tab |-> text'[u]]
  BY <1>5 DEF RInv, EditorsOK, BInv, TInv, TabTypeOK
<1>7. committed'[t].text = x /\ committed'[t].version = v
  BY <1>6
<1>8. t \notin misled' => Held(d, v, x)
  BY <1>4, <1>5 DEF Held
<1>9. ViewOK(t)'
  BY <1>1, <1>6, <1>7, <1>8 DEF ViewOK, Held
<1>10. \A u \in Tab : u # t => /\ active'[u] = active[u] /\ committed'[u] = committed[u]
                               /\ text'[u] = text[u] /\ (u \in misled => u \in misled')
  BY <1>5 DEF RInv, EditorsOK, BInv, TInv, TabTypeOK
<1>11. \A j \in Call : call'[j] = IF j = k THEN NoCall ELSE call[j]
  BY <1>5, CallMoves DEF BInv, TInv
<1>12. \A j \in Call : call'[j] = call[j] \/ Answers(call[j])'
  BY <1>11 DEF Answers, NoCall
<1> QED
  BY <1>1, <1>6, <1>9, <1>10, <1>12, RInvTab

(* Whoever types is no reader.                                               *)
LEMMA RInvType ==
  ASSUME BInv, RInv, NEW t \in Tab, type(t)
  PROVE  RInv'
<1>1. /\ UNCHANGED <<history, call, active, committed, misled, buffer, inbox>>
      /\ writers' = writers \cup {UserOf[t]}
  BY DEF type, serverVars, gatewayVars, queueVars, presenceVars
<1>2. PICK new : text' = [text EXCEPT ![t] = new]
  BY DEF type
<1>3. /\ committed' = [u \in Tab |-> committed'[u]] /\ text' = [u \in Tab |-> text'[u]]
      /\ \A u \in Tab : u # t => text'[u] = text[u]
  BY <1>1, <1>2 DEF RInv, EditorsOK
<1>4. ViewOK(t)'
  BY <1>1 DEF ViewOK, Reader
<1> QED
  BY <1>1, <1>3, <1>4, RInvTab

(* Whoever saves is no reader.                                               *)
LEMMA RInvFlush ==
  ASSUME BInv, RInv, NEW t \in Tab, flush(t) \/ \E d \in Doc : openDocument(t, d)
  PROVE  RInv'
<1>1. UNCHANGED <<history, active, committed, text, misled, buffer, inbox>> /\ writers \subseteq writers'
  BY DEF flush, openDocument, gatewayVars, queueVars, presenceVars, tabVars, editorVars, viewVars, pastVars
<1>2. \A k \in Call : call'[k] = call[k] \/ Answers(call[k])'
  <2>1. CASE UNCHANGED call
    BY <2>1
  <2>2. ASSUME NEW c, Begins(c), Answers(c)' PROVE \A k \in Call : call'[k] = call[k] \/ Answers(call[k])'
    <3>1. PICK k \in Call : \A j \in Call : call'[j] = IF j = k THEN c ELSE call[j]
      BY <2>2, CallBegins DEF BInv, TInv
    <3> QED
      BY <2>2, <3>1 DEF Answers
  <2>3. \A d : Answers(Get(t, d))'
    BY DEF Answers, Get
  <2>4. ASSUME UserOf[t] \in writers' PROVE \A d, ops, last : Answers(Post(t, d, ops, last))'
    BY <2>4 DEF Answers, Post
  <2>5. CASE flush(t)
    <3>1. UNCHANGED call \/ \E d, ops, last : Begins(Post(t, d, ops, last)) /\ UserOf[t] \in writers'
      BY <2>5 DEF flush
    <3> QED
      BY <2>1, <2>2, <2>4, <3>1
  <2>6. ASSUME NEW d \in Doc, openDocument(t, d) PROVE \E c : Begins(c) /\ Answers(c)'
    BY <2>3, <2>6 DEF openDocument
  <2> QED
    BY <2>2, <2>5, <2>6
<1> QED
  BY <1>1, <1>2, RInvTab DEF RInv, EditorsOK

(* What is rendered is what was set before.                                  *)
LEMMA RInvRenders ==
  ASSUME BInv, RInv, NEW t \in Tab, render(t) \/ effect(t)
  PROVE  RInv'
<1>1. UNCHANGED <<history, call, active, committed, text, writers, misled, buffer, inbox>>
  BY DEF render, effect, serverVars, viewVars, pastVars, gatewayVars, queueVars, presenceVars
<1> QED
  BY <1>1, RInvQuiet

(* The edit after the version a reader shows makes the next version of what  *)
(* it shows.                                                                 *)
LEMMA RInvHeard ==
  ASSUME BInv, RInv, NEW t \in Tab, onEdit(t)
  PROVE  RInv'
<1>1. PICK s \in Socket :
        /\ s = socketOf[t] /\ take(s) /\ message(t) = Head(inbox[s])
        /\ message(t).type \in {"edit"} /\ message(t).doc \in Doc
  <2>1. Incoming(t, {"edit"})
    BY DEF onEdit
  <2> QED
    BY <2>1, Hears DEF BInv
<1>2. UNCHANGED <<history, active, writers, buffer>>
  BY <1>1 DEF onEdit, take, queueVars
<1>3. Grows /\ HistoryOK'
  BY <1>2, GrowsQuiet DEF RInv
<1>4. EventsOK' /\ Announces(Head(inbox[s]), history, writers)
  BY <1>1, <1>2, EventsTaken DEF BInv, TInv, RInv
<1>5. PICK m : m = message(t) /\ m.type = "edit" /\ m.doc \in Doc /\ Announces(m, history, writers)
  BY <1>1, <1>4
<1>6. CASE UNCHANGED <<committed, text, misled, call>>
  BY <1>2, <1>3, <1>4, <1>6, RInvFrom DEF RInv, EditorsOK
<1>7. CASE /\ m.user = UserOf[t] /\ Confirms(t, committed[t].text, m.version) /\ UNCHANGED <<text, call>>
           /\ misled \subseteq misled'
  <2>1. UserOf[t] \in writers
    BY <1>5, <1>7 DEF Announces
  <2>2. ViewOK(t)'
    BY <1>2, <2>1 DEF ViewOK, Reader
  <2>3. /\ committed' = [u \in Tab |-> committed'[u]] /\ text' = [u \in Tab |-> text'[u]]
        /\ \A u \in Tab : u # t => committed'[u] = committed[u]
    BY <1>7 DEF Confirms, RInv, EditorsOK
  <2>4. \A u \in Tab : \/ ViewOK(u)'
                       \/ /\ active'[u] = active[u] /\ committed'[u] = committed[u]
                          /\ text'[u] = text[u] /\ (u \in misled => u \in misled')
    BY <1>2, <1>7, <2>2, <2>3
  <2> QED
    BY <1>3, <1>4, <1>7, <2>3, <2>4, RInvFrom
<1>8. CASE /\ m.doc = activeRef(t) /\ IsNext(t, m) /\ UNCHANGED call
           /\ Confirms(t, applyOperation(committed[t].text, m.operation), m.version)
           /\ Shows(t, applyOperation(committed[t].text, m.operation))
           /\ misled \subseteq misled' /\ (t \notin misled' => activeRef(t) = active[t])
  <2>0. PICK d \in Doc : d = m.doc
    BY <1>5
  <2>1. PICK x, v : x = applyOperation(committed[t].text, m.operation) /\ v = m.version
    OBVIOUS
  <2>2. /\ committed' = [committed EXCEPT ![t] = [text |-> x, version |-> v]]
        /\ text' = [text EXCEPT ![t] = x]
    BY <1>8, <2>1 DEF Confirms, Shows
  <2>3. /\ committed'[t] = [text |-> x, version |-> v] /\ text'[t] = x
        /\ committed' = [u \in Tab |-> committed'[u]] /\ text' = [u \in Tab |-> text'[u]]
    BY <2>2 DEF RInv, EditorsOK
  <2>4. committed'[t].text = x /\ committed'[t].version = v
    BY <2>3
  <2>6. \A u \in Tab : u # t => committed'[u] = committed[u] /\ text'[u] = text[u]
    BY <2>2 DEF RInv, EditorsOK
  <2>7. ASSUME Reader(t), t \notin misled' PROVE active[t] = d /\ Held(d, v, x)
    <3>1. active[t] = d /\ d # NoDoc /\ t \notin misled
      BY <1>8, <2>0, <2>7, NoneAssumption
    <3>2. Held(d, committed[t].version, committed[t].text)
      BY <2>7, <3>1 DEF RInv, EditorsOK, ViewOK
    <3>3. PICK n, y : n = committed[t].version /\ y = committed[t].text
      OBVIOUS
    <3>4. n \in 1..Len(history[d]) /\ y = history[d][n]
      BY <3>2, <3>3 DEF Held
    <3>5. v = n + 1
      BY <1>8, <2>1, <3>3 DEF IsNext
    <3>6. v - 1 = n
      BY <3>4, <3>5
    <3>7. /\ v \in 2..Len(history[d])
          /\ history[d][v] = applyOperation(history[d][v - 1], m.operation)
      BY <1>5, <2>0, <2>1 DEF Announces
    <3>8. Len(history[d]) \in Nat
      BY QueueFacts DEF RInv, HistoryOK
    <3>9. v \in 1..Len(history[d])
      BY <3>7, <3>8
    <3>10. x = history[d][v]
      BY <2>1, <3>3, <3>4, <3>6, <3>7
    <3> QED
      BY <3>1, <3>9, <3>10 DEF Held
  <2>8. ViewOK(t)'
    BY <1>2, <2>3, <2>4, <2>7 DEF ViewOK, Reader, Held
  <2>9. \A u \in Tab : \/ ViewOK(u)'
                       \/ /\ active'[u] = active[u] /\ committed'[u] = committed[u]
                          /\ text'[u] = text[u] /\ (u \in misled => u \in misled')
    BY <1>2, <1>8, <2>6, <2>8
  <2> QED
    BY <1>3, <1>4, <1>8, <2>3, <2>9, RInvFrom
<1>9. CASE Begins(Get(t, m.doc)) /\ UNCHANGED <<committed, text, misled>>
  <2>1. PICK c : c = Get(t, m.doc)
    OBVIOUS
  <2>2. Answers(c)'
    BY <2>1 DEF Answers, Get
  <2>3. PICK k \in Call : \A j \in Call : call'[j] = IF j = k THEN c ELSE call[j]
    BY <1>9, <2>1, CallBegins DEF BInv, TInv
  <2>4. \A j \in Call : call'[j] = call[j] \/ Answers(call[j])'
    BY <2>2, <2>3 DEF Answers
  <2> QED
    BY <1>2, <1>3, <1>4, <1>9, <2>4, RInvFrom DEF RInv, EditorsOK
<1>10. PICK e : e = message(t)
  OBVIOUS
<1>11. \/ UNCHANGED <<committed, text, misled, call>>
       \/ /\ e.user = UserOf[t] /\ Confirms(t, committed[t].text, e.version) /\ UNCHANGED <<text, call>>
          /\ misled' = misled \cup {u \in {t} : activeRef(u) # active[u]}
       \/ /\ e.doc = activeRef(t) /\ IsNext(t, e) /\ UNCHANGED call
          /\ Confirms(t, applyOperation(committed[t].text, e.operation), e.version)
          /\ Shows(t, applyOperation(committed[t].text, e.operation))
          /\ misled' = misled \cup {u \in {t} : activeRef(u) # active[u]}
       \/ Begins(Get(t, e.doc)) /\ UNCHANGED <<committed, text, misled>>
  BY <1>10 DEF onEdit
<1>12. ASSUME misled' = misled \cup {u \in {t} : activeRef(u) # active[u]}
       PROVE  misled \subseteq misled' /\ (t \notin misled' => activeRef(t) = active[t])
  BY <1>12
<1>13. e = m
  BY <1>5, <1>10
<1> QED
  BY <1>6, <1>7, <1>8, <1>9, <1>11, <1>12, <1>13

(* What is said of presence shows no text.                                   *)
LEMMA RInvListed ==
  ASSUME BInv, RInv, NEW t \in Tab, onParticipants(t)
  PROVE  RInv'
<1>1. PICK s \in Socket : take(s)
  BY Hears DEF BInv, onParticipants
<1>2. UNCHANGED <<history, call, active, committed, text, writers, misled>>
  BY DEF onParticipants, serverVars, editorVars, viewVars
<1>3. EventsOK'
  BY <1>1, <1>2, EventsTaken DEF BInv, TInv, RInv
<1> QED
  BY <1>2, <1>3, RInvSockets

-----------------------------------------------------------------------------
(* No step leads out.                                                        *)
LEMMA RInvStep == BInv /\ RInv /\ [Next]_clientVars => RInv'
<1> SUFFICES ASSUME BInv, RInv, [Next]_clientVars PROVE RInv'
  OBVIOUS
<1>1. ASSUME NEW t \in Tab, handleShare(t) \/ open(t) \/ lose(t) PROVE RInv'
  <2>1. UNCHANGED <<history, call, active, committed, text, writers, misled, buffer, inbox>>
    BY <1>1 DEF handleShare, share, revoke, open, connect, lose, serverVars, tabVars, editorVars, viewVars, pastVars,
                gatewayVars, queueVars, presenceVars
  <2> QED
    BY <2>1, RInvQuiet
<1>2. CASE UNCHANGED clientVars
  BY <1>2, RInvQuiet DEF clientVars, serverVars, tabVars, editorVars, viewVars, pastVars, gatewayVars, queueVars, presenceVars
<1> QED
  BY <1>1, <1>2, RInvRead, RInvEdit, RInvOpened, RInvSaved, RInvType, RInvRenders, RInvFlush, RInvReceive,
     RInvListed, RInvHeard, RInvResume, RInvNotice, RInvDelivered DEF Next

(* ReadersHoldServerText: whoever does not type shows the text of the        *)
(* version it says, in whatever order answers, announcements and renders     *)
(* come, unless the answer was not whole (Engine.js:311) or an event of the  *)
(* document shown before came ahead of the render (App.jsx:614).             *)
THEOREM ReadersAreTold == Spec => []ReadersHoldServerText
<1>1. Init => BInv /\ RInv
  BY SInvInit, TInvInit, RInvInit DEF BInv
<1>2. BInv /\ RInv /\ [Next]_clientVars => BInv' /\ RInv'
  BY BInvStep, RInvStep
<1>3. BInv /\ RInv => ReadersHoldServerText
  <2> SUFFICES ASSUME BInv, RInv, NEW t \in Tab, t \notin misled, Reader(t), active[t] # NoDoc
               PROVE  /\ committed[t].version \in DOMAIN history[active[t]]
                      /\ committed[t].text = history[active[t]][committed[t].version]
                      /\ text[t] = committed[t].text
    BY DEF ReadersHoldServerText, HoldsServerText
  <2>1. PICK d \in Doc : d = active[t]
    BY DEF BInv, TInv, TabTypeOK
  <2>2. DOMAIN history[d] = 1..Len(history[d])
    BY QueueFacts DEF RInv, HistoryOK
  <2> QED
    BY <2>1, <2>2 DEF RInv, EditorsOK, ViewOK, Held
<1> QED
  BY <1>1, <1>2, <1>3, PTL DEF Spec
=============================================================================
