------------------------------- MODULE Client -------------------------------
(***************************************************************************)
(* The editor in the browser, src/client/App.jsx, against the HTTP         *)
(* handlers that read and edit a document and the sockets of Gateway.      *)
(*                                                                         *)
(* A tab sends its edits over HTTP and hears of everybody's over its       *)
(* socket: an answer and the announcement of the same edit arrive in       *)
(* either order.  Calls of a tab overlap: opening, reloading and saving    *)
(* wait for nothing.  The engine edits a document in one step, as          *)
(* SharedDocument promises, and reads one over the pages it had when it    *)
(* was asked.                                                              *)
(*                                                                         *)
(* React 18 (external) renders what an answer or an event has set in a     *)
(* later turn, and runs the effect of the render in one after that;        *)
(* anything may come between.  What a keystroke sets is rendered with it.  *)
(***************************************************************************)
EXTENDS Gateway, ConflictResolver

CONSTANTS
  Tab,           \* browser tabs
  UserOf,        \* [Tab -> User]
  Call,          \* HTTP calls in progress at a time
  PageText,      \* how much text a page takes
  Budgets        \* bounds, of which a behaviour keeps to one: how often each
                 \* tab connects, opens a document, types and changes a role

ASSUME ClientAssumption ==
  /\ UserOf \in [Tab -> User]
  /\ PageText \in Nat \ {0}
  /\ \A b \in Budgets, what \in {"connects", "opens", "keystrokes", "grants"} :
       b[what] \in [Tab -> Nat]

VARIABLES
  history,       \* [Doc -> the texts of its versions so far]
  call,          \* [Call -> an HTTP call and what it will do with the answer]
  socketOf,      \* [Tab -> its socket, or none]
  outbox,        \* [Tab -> what it has emitted and the server has not seen]
  active,        \* [Tab -> the open document, or none]
  committed,     \* [Tab -> text and version of committedRef]
  text,          \* [Tab -> what is, or will be, in the editor]
  canEdit,       \* [Tab -> whether the role it opened the document with edits]
  rendered,      \* [Tab -> active, text and canEdit as last rendered]
  pending,       \* [Tab -> what React has still to do, of "render" and "effect"]
  timer,         \* [Tab -> << >>, or << the text the running timer will save >>]
  participants,  \* [Tab -> who the tab shows as being in the document]
  left,          \* what is left of the budget
  dropped,       \* history: tabs that lost their connection since they last
                 \* opened a document
  writers,       \* history: users who have typed, or a tab of whom has saved
  late,          \* history: tabs that opened a document, or got a list of
                 \* participants, while another document was rendered
  misled         \* history: tabs with a text made of an answer that was not
                 \* whole, or of an event for the document rendered before

viewVars == <<active, text, canEdit>>
editorVars == <<viewVars, committed, rendered, pending, timer>>
pastVars == <<dropped, writers, late, misled>>
tabVars == <<socketOf, outbox, editorVars, participants, pastVars>>
serverVars == <<history, call>>
clientVars == <<gatewayVars, serverVars, tabVars, left>>

NoSocket == 0
NoDoc == "none"
NoCall == [stage |-> "none"]

ASSUME NoneAssumption == NoSocket \notin Socket /\ NoDoc \notin Doc

WRITE_ROLES == {"owner", "editor"}
role(t, d) == getPermission(UserOf[t], d)

Init ==
  /\ GatewayInit
  /\ history = [d \in Doc |-> << << >> >>]
  /\ call = [k \in Call |-> NoCall]
  /\ socketOf = [t \in Tab |-> NoSocket]
  /\ outbox = [t \in Tab |-> << >>]
  /\ active = [t \in Tab |-> NoDoc]
  /\ committed = [t \in Tab |-> [text |-> << >>, version |-> 0]]
  /\ text = [t \in Tab |-> << >>]
  /\ canEdit = [t \in Tab |-> FALSE]
  /\ rendered = [t \in Tab |-> [active |-> NoDoc, text |-> << >>, canEdit |-> FALSE]]
  /\ pending = [t \in Tab |-> {}]
  /\ timer = [t \in Tab |-> << >>]
  /\ participants = [t \in Tab |-> {}]
  /\ left \in Budgets
  /\ dropped = {} /\ writers = {} /\ late = {} /\ misled = {}

Spends(t, what) ==
  /\ left[what][t] > 0
  /\ left' = [left EXCEPT ![what][t] = @ - 1]

-----------------------------------------------------------------------------
(* Calls.  Every call has a free place of its own. *)

Begins(c) ==
  \E k \in Call :
    /\ call[k] = NoCall /\ \A j \in Call : j < k => call[j] # NoCall
    /\ call' = [call EXCEPT ![k] = c]

Goes(k, c) == call' = [call EXCEPT ![k] = c]

Get(t, d) == [stage |-> "get", tab |-> t, doc |-> d]

(* Save i of the operations a flush found; basis is the text they were       *)
(* found against.                                                            *)
Post(t, d, operations, last) ==
  [stage |-> "post", tab |-> t, doc |-> d, operations |-> operations,
   base |-> last.version, basis |-> last.text]

(* The pages a document has had for its versions so far; its chain never     *)
(* shrinks.                                                                  *)
PagesFor(shown) == Max({1, (Len(shown) + PageText - 1) \div PageText})

Chain(d) == Max({PagesFor(history[d][v]) : v \in DOMAIN history[d]})

FirstPages(shown, n) == SubSeq(shown, 1, Min({Len(shown), n * PageText}))

(* GET /api/documents/:id: the access check, and the list of pages that      *)
(* readDocument takes in the same turn.                                      *)
authorize(k) ==
  LET c == call[k]
  IN  /\ c.stage = "get"
      /\ \/ role(c.tab, c.doc) = "none" /\ Goes(k, NoCall)
         \/ /\ role(c.tab, c.doc) # "none"
            /\ Goes(k, [stage |-> "read", tab |-> c.tab, doc |-> c.doc, pages |-> Chain(c.doc),
                        canEdit |-> role(c.tab, c.doc) \in WRITE_ROLES])
      /\ UNCHANGED <<gatewayVars, history, tabVars, left>>

(* ... and its answer, once it has the locks of those pages: the version of  *)
(* now, and what its text has on the pages of then, to which an edit under   *)
(* way or aborted may have added already.                                    *)
read(k) ==
  LET c == call[k]
  IN  /\ c.stage = "read"
      /\ \E n \in c.pages..Chain(c.doc) :
           Goes(k, [stage |-> "opened", tab |-> c.tab, doc |-> c.doc,
                    text |-> FirstPages(Last(history[c.doc]), n),
                    version |-> Len(history[c.doc]), canEdit |-> c.canEdit])
      /\ UNCHANGED <<gatewayVars, history, tabVars, left>>

EditEvent(d, version, operation, u) ==
  [type |-> "edit", doc |-> d, sequence |-> 0, version |-> version,
   operation |-> operation, user |-> u]

(* POST /api/documents/:id/edit: refused, in conflict, or committed and      *)
(* announced.                                                                *)
edit(k) ==
  LET c       == call[k]
      current == Len(history[c.doc])
      after   == applyOperation(Last(history[c.doc]), Head(c.operations))
  IN  /\ c.stage = "post"
      /\ \/ /\ role(c.tab, c.doc) \notin WRITE_ROLES
            /\ Goes(k, NoCall)
            /\ UNCHANGED <<gatewayVars, history>>
         \/ /\ role(c.tab, c.doc) \in WRITE_ROLES /\ c.base # current
            /\ Goes(k, [stage |-> "conflict", tab |-> c.tab, doc |-> c.doc])
            /\ UNCHANGED <<gatewayVars, history>>
         \/ /\ role(c.tab, c.doc) \in WRITE_ROLES /\ c.base = current
            /\ history' = [history EXCEPT ![c.doc] = Append(@, after)]
            /\ announce(EditEvent(c.doc, current + 1, Head(c.operations), UserOf[c.tab]))
            /\ Goes(k, [stage |-> "saved", tab |-> c.tab, doc |-> c.doc, text |-> after,
                        version |-> current + 1, rest |-> Tail(c.operations)])
      /\ UNCHANGED <<tabVars, left>>

-----------------------------------------------------------------------------
(* The tab.  activeRef follows the document at a render, committedRef at     *)
(* once; the effect restarts the timer, which runs while the editor as it    *)
(* was rendered differs from committedRef.                                   *)

Shows(t, shown) ==
  /\ text' = [text EXCEPT ![t] = shown]
  /\ pending' = [pending EXCEPT ![t] = @ \cup {"render"}]

Confirms(t, shown, version) ==
  committed' = [committed EXCEPT ![t] = [text |-> shown, version |-> version]]

activeRef(t) == rendered[t].active

Timed(shown, last) == IF shown = last.text THEN << >> ELSE << shown >>

render(t) ==
  /\ pending[t] = {"render"}
  /\ pending' = [pending EXCEPT ![t] = {"effect"}]
  /\ rendered' = [rendered EXCEPT ![t] =
                    [active |-> active[t], text |-> text[t], canEdit |-> canEdit[t]]]
  /\ UNCHANGED <<gatewayVars, serverVars, socketOf, outbox, viewVars, committed, timer,
                 participants, left, pastVars>>

effect(t) ==
  /\ "effect" \in pending[t]
  /\ pending' = [pending EXCEPT ![t] = @ \ {"effect"}]
  /\ timer' = [timer EXCEPT ![t] = Timed(rendered[t].text, committed[t])]
  /\ UNCHANGED <<gatewayVars, serverVars, socketOf, outbox, viewVars, committed, rendered,
                 participants, left, pastVars>>

(* Mutant of Leaves: the previous document is not left. *)
Stays(t, d) == << >>

Leaves(t, d) ==
  IF activeRef(t) \in {NoDoc, d} THEN << >>
  ELSE << [type |-> "leave", doc |-> activeRef(t)] >>

openDocument(t, d) ==
  /\ Spends(t, "opens")
  /\ Begins(Get(t, d))
  /\ UNCHANGED <<gatewayVars, history, tabVars>>

(* The rest of openDocument.  What is emitted without a connection waits for *)
(* one.                                                                      *)
opened(k) ==
  LET c == call[k]   t == c.tab
      whole == c.text = history[c.doc][c.version]
  IN  /\ c.stage = "opened"
      /\ Goes(k, NoCall)
      /\ outbox' = [outbox EXCEPT ![t] =
                      @ \o Leaves(t, c.doc) \o << [type |-> "join", doc |-> c.doc] >>]
      /\ Confirms(t, c.text, c.version)
      /\ Shows(t, c.text)
      /\ active' = [active EXCEPT ![t] = c.doc]
      /\ canEdit' = [canEdit EXCEPT ![t] = c.canEdit]
      /\ dropped' = dropped \ {t}
      /\ late' = late \cup {u \in {t} : activeRef(u) # active[u]}
      /\ misled' = IF whole THEN misled \ {t} ELSE misled \cup {t}
      /\ UNCHANGED <<gatewayVars, history, socketOf, rendered, timer, participants, left, writers>>

(* onChange of the editor, for an owner or editor: a character is put in     *)
(* front, or the first is removed.  It is rendered, and the timer started    *)
(* again, at once; a document that was opened is rendered when it is due.    *)
type(t) ==
  /\ rendered[t].canEdit
  /\ Spends(t, "keystrokes") /\ writers' = writers \cup {UserOf[t]}
  /\ LET shown == rendered[t].text
     IN  \E new \in {<< t >> \o shown} \cup {Tail(x) : x \in {shown} \ {<< >>}} :
           /\ text' = [text EXCEPT ![t] = new]
           /\ rendered' = [rendered EXCEPT ![t].text = new]
           /\ timer' = [timer EXCEPT ![t] = Timed(new, committed[t])]
  /\ pending' = [pending EXCEPT ![t] = @ \ {"effect"}]
  /\ UNCHANGED <<gatewayVars, serverVars, socketOf, outbox, active, canEdit, committed,
                 participants, dropped, late, misled>>

(* What lies between the common prefix and the common suffix of two texts is *)
(* deleted, and inserted.                                                    *)
diffToOperations(before, after) ==
  LET Shorter == IF Len(before) < Len(after) THEN Len(before) ELSE Len(after)
      First == CHOOSE n \in 0..Shorter :
                 /\ \A i \in 1..n : before[i] = after[i]
                 /\ n = Shorter \/ before[n + 1] # after[n + 1]
      Tails == CHOOSE n \in 0..(Shorter - First) :
                 /\ \A i \in 0..(n - 1) : before[Len(before) - i] = after[Len(after) - i]
                 /\ n = Shorter - First \/ before[Len(before) - n] # after[Len(after) - n]
      gone  == Len(before) - Tails - First
      fresh == SubSeq(after, First + 1, Len(after) - Tails)
  IN  SelectSeq(<< [position |-> First, length |-> gone, content |-> << >>],
                   [position |-> First, length |-> 0, content |-> fresh] >>,
                LAMBDA o : o.length > 0 \/ o.content # << >>)

(* The flush timer. *)
flush(t) ==
  /\ timer[t] # << >> /\ timer' = [timer EXCEPT ![t] = << >>]
  /\ LET operations == diffToOperations(committed[t].text, Head(timer[t]))
     IN  \/ /\ activeRef(t) = NoDoc \/ operations = << >>
            /\ UNCHANGED <<call, writers>>
         \/ /\ activeRef(t) # NoDoc /\ operations # << >>
            /\ Begins(Post(t, activeRef(t), operations, committed[t]))
            /\ writers' = writers \cup {UserOf[t]}
  /\ UNCHANGED <<gatewayVars, history, socketOf, outbox, viewVars, committed, rendered, pending,
                 participants, left, dropped, late, misled>>

(* The answer to a save, whatever document is open by now; the next          *)
(* operation is sent at once.                                                *)
saved(k) ==
  LET c == call[k]
  IN  /\ c.stage = "saved"
      /\ Confirms(c.tab, c.text, c.version)
      /\ Goes(k, IF c.rest = << >> THEN NoCall
                 ELSE Post(c.tab, c.doc, c.rest, [text |-> c.text, version |-> c.version]))
      /\ UNCHANGED <<gatewayVars, history, socketOf, outbox, viewVars, rendered, pending, timer,
                     participants, left, pastVars>>

(* VERSION_CONFLICT: the document is opened again. *)
conflicted(k) ==
  /\ call[k].stage = "conflict"
  /\ Goes(k, Get(call[k].tab, call[k].doc))
  /\ UNCHANGED <<gatewayVars, history, tabVars, left>>

-----------------------------------------------------------------------------
(* The socket of a tab. *)

open(t) ==
  \E s \in Socket :
    /\ socketOf[t] = NoSocket
    /\ user[s] = Nobody /\ \A r \in Socket : r < s => user[r] # Nobody
    /\ Spends(t, "connects")
    /\ connect(s, UserOf[t])
    /\ socketOf' = [socketOf EXCEPT ![t] = s]
    /\ UNCHANGED <<serverVars, outbox, editorVars, participants, pastVars>>

(* The connection breaks, and with it what was on its way to the server.     *)
lose(t) ==
  /\ socketOf[t] # NoSocket
  /\ socketOf' = [socketOf EXCEPT ![t] = NoSocket]
  /\ outbox' = [outbox EXCEPT ![t] = << >>]
  /\ dropped' = dropped \cup {t}
  /\ UNCHANGED <<gatewayVars, serverVars, editorVars, participants, left, writers, late, misled>>

(* The server finds out, perhaps after the tab has connected again. *)
Abandoned == connected \ {socketOf[t] : t \in Tab}

notice(s) ==
  /\ s \in Abandoned /\ disconnect(s)
  /\ UNCHANGED <<serverVars, tabVars, left>>

receive(t) ==
  /\ socketOf[t] # NoSocket /\ outbox[t] # << >>
  /\ LET m == Head(outbox[t])
     IN  IF m.type = "join" THEN receiveJoin(socketOf[t], m.doc)
         ELSE receiveLeave(socketOf[t], m.doc)
  /\ outbox' = [outbox EXCEPT ![t] = Tail(@)]
  /\ UNCHANGED <<serverVars, socketOf, editorVars, participants, left, pastVars>>

Incoming(t, types) ==
  /\ socketOf[t] # NoSocket
  /\ take(socketOf[t]) /\ Head(inbox[socketOf[t]]).type \in types

message(t) == Head(inbox[socketOf[t]])

(* document:joined and presence. *)
onParticipants(t) ==
  /\ Incoming(t, {"joined", "presence"})
  /\ participants' = IF message(t).doc = activeRef(t)
                     THEN [participants EXCEPT ![t] = message(t).participants]
                     ELSE participants
  /\ late' = late \cup {u \in {t} : /\ activeRef(u) # active[u]
                                    /\ message(u).doc \in {activeRef(u), active[u]}}
  /\ UNCHANGED <<serverVars, socketOf, outbox, editorVars, left, dropped, writers, misled>>

(* Mutant of IsNext: any later version is applied in place. *)
IsLater(t, event) == event.version > committed[t].version

IsNext(t, event) == event.version = committed[t].version + 1

(* edit: of another document, one's own, the next one, or any other. *)
onEdit(t) ==
  LET event == message(t)
      mine  == event.user = UserOf[t]
      updated == applyOperation(committed[t].text, event.operation)
      Mistaken == {u \in {t} : activeRef(u) # active[u]}
  IN  /\ Incoming(t, {"edit"})
      /\ \/ /\ event.doc # activeRef(t)
            /\ UNCHANGED <<committed, text, pending, call, misled>>
         \/ /\ event.doc = activeRef(t) /\ mine
            /\ Confirms(t, committed[t].text, event.version)
            /\ misled' = misled \cup Mistaken
            /\ UNCHANGED <<text, pending, call>>
         \/ /\ event.doc = activeRef(t) /\ ~mine /\ IsNext(t, event)
            /\ Confirms(t, updated, event.version)
            /\ Shows(t, updated)
            /\ misled' = misled \cup Mistaken
            /\ UNCHANGED call
         \/ /\ event.doc = activeRef(t) /\ ~mine /\ ~IsNext(t, event)
            /\ Begins(Get(t, event.doc))
            /\ UNCHANGED <<committed, text, pending, misled>>
      /\ UNCHANGED <<history, socketOf, outbox, active, canEdit, rendered, timer, participants,
                     left, dropped, writers, late>>

-----------------------------------------------------------------------------
(* The owner of a document gives and takes roles. *)
handleShare(t) ==
  /\ Spends(t, "grants")
  /\ \E u \in User, d \in Doc :
       \/ \E r \in ROLES : share(UserOf[t], u, d, r)
       \/ revoke(UserOf[t], u, d)
  /\ UNCHANGED <<serverVars, tabVars>>

-----------------------------------------------------------------------------
Next ==
  \/ \E t \in Tab :
       \/ \E d \in Doc : openDocument(t, d)
       \/ type(t) \/ render(t) \/ effect(t) \/ flush(t) \/ handleShare(t)
       \/ open(t) \/ lose(t) \/ receive(t) \/ onParticipants(t) \/ onEdit(t)
  \/ \E k \in Call : authorize(k) \/ read(k) \/ edit(k) \/ opened(k) \/ saved(k) \/ conflicted(k)
  \/ \E s \in Socket, d \in Doc :
       resumeJoin(s, d) /\ UNCHANGED <<serverVars, tabVars, left>>
  \/ \E s \in Socket : notice(s)
  \/ handleEvents /\ UNCHANGED <<serverVars, tabVars, left>>

Spec == Init /\ [][Next]_clientVars

-----------------------------------------------------------------------------
(* Everything sent has arrived and every answer is in. *)
Quiet ==
  /\ buffer = << >> /\ Abandoned = {}
  /\ \A s \in Socket : inbox[s] = << >> /\ \A d \in Doc : joining[s][d] = 0
  /\ \A t \in Tab : outbox[t] = << >>
  /\ \A k \in Call : call[k] = NoCall

(* Once everything has settled, a tab that has not lost its connection since *)
(* it opened its document, was not refused it, and has heard of no document  *)
(* before it was rendered, is in that document and shows who is in it.       *)
PresenceListsConverge ==
  Quiet =>
    \A t \in Tab \ late :
      LET s == socketOf[t]   d == active[t]
      IN  d # NoDoc /\ s # NoSocket /\ t \notin dropped /\ << s, d >> \notin refused =>
            s \in byDocument[d] /\ participants[t] = byDocument[d]

(* ... and a session in a document that nobody looks at through it is one    *)
(* that a slow join or a late render left behind.                            *)
OnlyRacesLeaveGhosts ==
  Quiet =>
    \A d \in Doc : \A s \in byDocument[d] :
      \/ \E t \in Tab : socketOf[t] = s /\ (active[t] = d \/ t \in late)
      \/ s \in interrupted \/ << s, d >> \in overtaken

Reader(t) == UserOf[t] \notin writers

HoldsServerText(t) ==
  /\ committed[t].version \in DOMAIN history[active[t]]
  /\ committed[t].text = history[active[t]][committed[t].version]
  /\ text[t] = committed[t].text

(* "The last text the server is known to hold, and the version it was at"    *)
(* (App.jsx:608), for a user who only reads: in whatever order answers,      *)
(* announcements and renders come, what a tab shows is the text of the       *)
(* version it says, unless an answer was not whole or an event of the        *)
(* document before came ahead of the render.                                 *)
ReadersHoldServerText ==
  \A t \in Tab \ misled : Reader(t) /\ active[t] # NoDoc => HoldsServerText(t)

(* "Operations are diffed against this" (App.jsx:609): what a tab asks the   *)
(* server to do to a version, it found against the text of that version.     *)
OperationsFitTheirVersion ==
  \A k \in Call :
    call[k].stage = "post" =>
      /\ call[k].base \in DOMAIN history[call[k].doc]
      /\ call[k].basis = history[call[k].doc][call[k].base]
=============================================================================
