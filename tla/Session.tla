-------------------------------- MODULE Session --------------------------------
(***************************************************************************)
(* Sessions of TasksTracker: signing in, registering, logging out and      *)
(* relaunching, over one Core Data store that outlives every session       *)
(* (AuthorizationViewController, RegistrationViewController,               *)
(* SettingsViewController, SceneDelegate, TapBar).                         *)
(*                                                                         *)
(* Who is signed in changes on Firebase Auth's own queue; the screens      *)
(* change in callbacks on the main queue, later.  A task list captures the *)
(* signed-in user once, when it is made; it is never unsubscribed from     *)
(* Firestore, and all lists write to the same store.  The list itself is   *)
(* module TaskSync's; here a confirmed tap is one step, the upload that    *)
(* follows another, Firestore's own queue is left out, and the document of *)
(* a row has the row's name.                                               *)
(***************************************************************************)
EXTENDS Naturals, Sequences, FiniteSets, Functions

CONSTANTS User, Nobody,
          Shared,      \* number of documents in the cloud at first launch
          MaxAuth,     \* bound: sign-in and registration requests
          MaxEdit,     \* bound: confirmed taps in task lists
          MaxCloud,    \* bound: changes on other devices, rejected listeners,
                       \* refused tokens
          MaxCrash     \* bound: times the process dies and is relaunched

ASSUME NobodyAssumption == Nobody \notin User
ASSUME LimitAssumption == {Shared, MaxAuth, MaxEdit, MaxCloud, MaxCrash} \subseteq Nat

VARIABLES user,       \* Auth.auth().currentUser, which the keychain keeps
          requests,   \* calls of Firebase Auth that were not answered
          stack,      \* the screens above AuthorizationViewController
          lists,      \* task lists made since launch: the captured userId and
                      \* the rows the list shows
          syncing,    \* the list in whose group.wait() the main thread is
          mainQ,      \* callbacks queued for the main thread
          rows,       \* rows of the context: name -> synchronizedStatus
          disk,       \* rows of the store
          docs,       \* Firestore's documents: name -> userId
          listeners,  \* lists with a snapshot listener that was not rejected
          used,       \* how much of each bound is spent
          author,     \* history: in whose list each task was entered
          source,     \* history: the list whose snapshot filled the store last
          overlapped, \* history: an authentication began while another was under way
          expelled,   \* history: a refused token signed the last user out
          stranded    \* history: tasks waiting in the store when the process died
                      \* with nobody signed in

auth == <<user, requests>>
screens == <<stack, lists>>
store == <<rows, disk>>
cloud == <<docs, listeners>>
past == <<expelled, stranded>>
vars == <<auth, screens, syncing, mainQ, store, cloud, used, author, source, overlapped, past>>

-----------------------------------------------------------------------------
Registration == 0
NoList == 0
Owner == User \cup {Nobody}
AuthEvent == {"signedIn", "refused", "registered"}

Name == 1 .. Len(author)
OwnedBy(ds, u) == {n \in DOMAIN ds : ds[n] = u}

\* The screen on top is a task list (or its settings tab).
Top == stack[Len(stack)]
ListIsVisible == stack # << >> /\ Top # Registration

\* An authentication is under way until its callback has run.
Underway == \/ requests # << >>
            \/ \E i \in 1 .. Len(mainQ) : mainQ[i].ev \in AuthEvent

MainIsFree == syncing = NoList
Spend(what, max) == used[what] < max /\ used' = [used EXCEPT ![what] = @ + 1]

\* The documents changed to ds: every listener of a user in who is told, in any
\* order.
Raised(ds, who) ==
  LET told == {c \in listeners : lists[c].owner \in who}
      Orders == {f \in [1 .. Cardinality(told) -> told] : Range(f) = told}
  IN  {[i \in DOMAIN f |-> [ev |-> "snapshot", list |-> f[i],
                            docs |-> OwnedBy(ds, lists[f[i]].owner)]] : f \in Orders}

-----------------------------------------------------------------------------
\* A new TapBar: its task list captures the signed-in user and starts to sync.
Launched(u, rs) == /\ lists' = <<[owner |-> u, shown |-> DOMAIN rs]>>
                   /\ stack' = <<1>> /\ syncing' = 1

Init ==
  /\ user = Nobody /\ requests = << >>
  /\ stack = << >> /\ lists = << >> /\ syncing = NoList /\ mainQ = << >>
  /\ rows = << >> /\ disk = << >>
  /\ author \in [1 .. Shared -> User] /\ docs = author
  /\ listeners = {}
  /\ used = [auth |-> 0, edit |-> 0, cloud |-> 0, crash |-> 0]
  /\ source = NoList /\ overlapped = FALSE /\ expelled = FALSE /\ stranded = {}

-----------------------------------------------------------------------------
(* Authentication.                                                         *)

Ask(op) ==
  /\ Spend("auth", MaxAuth)
  /\ requests' = Append(requests, [op |-> op, here |-> TRUE])
  /\ overlapped' = (overlapped \/ Underway)
  /\ UNCHANGED <<user, screens, syncing, mainQ, store, cloud, author, source, past>>

TrySignIn == MainIsFree /\ stack = << >> /\ Ask("signIn")
TryRegister == MainIsFree /\ stack # << >> /\ Top = Registration /\ Ask("register")

\* An account nobody has used.
Fresh(u) == u \notin Range(docs) /\ \A c \in 1 .. Len(lists) : lists[c].owner # u

\* Firebase Auth answers: the user changes at once, the callback is queued.  A
\* registration signs the new user in.
Answered(i, ev, u) ==
  /\ requests' = [j \in 1 .. Len(requests) - 1 |-> requests[IF j < i THEN j ELSE j + 1]]
  /\ mainQ' = Append(mainQ, [ev |-> ev, here |-> requests[i].here])
  /\ user' = u
  /\ expelled' = (expelled /\ u = Nobody)
  /\ UNCHANGED <<screens, syncing, store, cloud, used, author, source, overlapped, stranded>>

Answer(i) ==
  \/ /\ requests[i].op = "signIn"
     /\ \/ \E u \in User : Answered(i, "signedIn", u)
        \/ Answered(i, "refused", user)
  \/ /\ requests[i].op = "register"
     /\ \E u \in {v \in User : Fresh(v)} \cup {user} : Answered(i, "registered", u)

\* The server refuses to renew the user's token, which Firestore asks for from the
\* first list on: Firebase Auth signs the user out, and no screen is told.
TokenRefused ==
  /\ user # Nobody /\ lists # << >> /\ Spend("cloud", MaxCloud)
  /\ user' = Nobody
  /\ expelled' = TRUE
  /\ UNCHANGED <<requests, screens, syncing, mainQ, store, cloud, author, source, overlapped,
                 stranded>>

Callback(ev) == /\ MainIsFree /\ mainQ # << >> /\ Head(mainQ).ev = ev
                /\ mainQ' = Tail(mainQ)

\* A task list that disappears saves its changes.
SavedIf(disappears) == disk' = IF disappears THEN rows ELSE disk

SignedIn ==
  /\ Callback("signedIn")
  /\ lists' = Append(lists, [owner |-> user, shown |-> DOMAIN rows])
  /\ stack' = Append(stack, Len(lists'))
  /\ syncing' = Len(lists')
  /\ SavedIf(ListIsVisible)
  /\ UNCHANGED <<auth, rows, cloud, used, author, source, overlapped, past>>

Refused ==
  /\ Callback("refused")
  /\ UNCHANGED <<auth, screens, syncing, store, cloud, used, author, source, overlapped, past>>

\* The top screen is popped.  The callback of a registration screen that is
\* gone finds no navigation controller any more.
Popped(q) ==
  LET orphaned(s) == [i \in 1 .. Len(s) |->
        IF Top = Registration /\ "here" \in DOMAIN s[i]
        THEN [s[i] EXCEPT !.here = FALSE] ELSE s[i]]
  IN  /\ stack' = SubSeq(stack, 1, Len(stack) - 1)
      /\ requests' = orphaned(requests)
      /\ mainQ' = orphaned(q)
      /\ SavedIf(ListIsVisible)

\* With or without an error the top screen is popped.
Registered ==
  /\ MainIsFree /\ mainQ # << >> /\ Head(mainQ).ev = "registered"
  /\ IF Head(mainQ).here THEN Popped(Tail(mainQ))
     ELSE mainQ' = Tail(mainQ) /\ UNCHANGED <<stack, requests, disk>>
  /\ UNCHANGED <<user, lists, syncing, rows, cloud, used, author, source, overlapped, past>>

OpenRegistration ==
  /\ MainIsFree /\ stack = << >>
  /\ stack' = <<Registration>>
  /\ UNCHANGED <<auth, lists, syncing, mainQ, store, cloud, used, author, source, overlapped, past>>

Back ==
  /\ MainIsFree /\ stack # << >> /\ Top = Registration
  /\ Popped(mainQ)
  /\ UNCHANGED <<user, lists, syncing, rows, cloud, used, author, source, overlapped, past>>

\* Faulty variant: the screen stays.
LogOutStays ==
  /\ MainIsFree /\ ListIsVisible
  /\ user' \in {user, Nobody}
  /\ UNCHANGED <<requests, screens, syncing, mainQ, store, cloud, used, author, source, overlapped, past>>

\* signOut may fail, which is ignored.  Nothing else is cleared.
LogOut ==
  /\ MainIsFree /\ ListIsVisible
  /\ user' \in {user, Nobody}
  /\ Popped(mainQ)
  /\ UNCHANGED <<lists, syncing, rows, cloud, used, author, source, overlapped, past>>

-----------------------------------------------------------------------------
(* The visible task list.                                                  *)

\* saveChanges() and syncCoreDataWithFirebase() of the visible list, once the
\* context holds rs.
SaveAndSync(rs) ==
  /\ rows' = rs /\ disk' = rs
  /\ lists' = [lists EXCEPT ![Top].shown = DOMAIN rs]
  /\ syncing' = Top
  /\ Spend("edit", MaxEdit)
  /\ UNCHANGED <<auth, stack, mainQ, cloud, source, overlapped, past>>

\* Faulty variant: the upload is left to the next sync.
AddTaskLater ==
  /\ MainIsFree /\ ListIsVisible
  /\ author' = Append(author, lists[Top].owner)
  /\ rows' = [n \in DOMAIN rows \cup {Len(author')} |->
                IF n \in DOMAIN rows THEN rows[n] ELSE "created"]
  /\ disk' = rows'
  /\ lists' = [lists EXCEPT ![Top].shown = DOMAIN rows']
  /\ Spend("edit", MaxEdit)
  /\ UNCHANGED <<auth, stack, syncing, mainQ, cloud, source, overlapped, past>>

AddTask ==
  /\ MainIsFree /\ ListIsVisible
  /\ author' = Append(author, lists[Top].owner)
  /\ SaveAndSync([n \in DOMAIN rows \cup {Len(author')} |->
                    IF n \in DOMAIN rows THEN rows[n] ELSE "created"])

\* A change of a row that a snapshot has replaced meanwhile is dropped.
EditTask ==
  /\ MainIsFree /\ ListIsVisible
  /\ \/ \E n \in lists[Top].shown : SaveAndSync([rows EXCEPT ![n] = "updated"])
     \/ lists[Top].shown # DOMAIN rows /\ SaveAndSync(rows)
  /\ UNCHANGED author

\* The workers: without a user addTask returns at once, updateTask does not.
Upload ==
  /\ ~MainIsFree
  /\ LET owner == lists[syncing].owner
         sent == {n \in DOMAIN rows : rows[n] = "updated" \/ (rows[n] = "created" /\ owner # Nobody)}
         affected == IF sent = {} THEN {}
                     ELSE {owner} \cup {docs[n] : n \in sent \cap DOMAIN docs}
         done == <<[ev |-> "notify", list |-> syncing]>>
     IN  /\ docs' = [n \in DOMAIN docs \cup sent |-> IF n \in sent THEN owner ELSE docs[n]]
         /\ rows' = [n \in DOMAIN rows |-> IF n \in sent THEN "sent" ELSE rows[n]]
         /\ \E told \in Raised(docs', affected) :
              mainQ' \in {mainQ \o told \o done, mainQ \o done \o told}
  /\ syncing' = NoList
  /\ UNCHANGED <<auth, screens, disk, listeners, used, author, source, overlapped, past>>

\* Faulty variant: the query has no condition on userId.
NotifyUnfiltered ==
  /\ MainIsFree /\ mainQ # << >> /\ Head(mainQ).ev = "notify"
  /\ disk' = rows
  /\ LET c == Head(mainQ).list
     IN  /\ listeners' = listeners \cup {c}
         /\ mainQ' = Append(Tail(mainQ), [ev |-> "snapshot", list |-> c, docs |-> DOMAIN docs])
  /\ UNCHANGED <<auth, screens, syncing, rows, docs, used, author, source, overlapped, past>>

\* loadData does nothing without a user.
Notify ==
  /\ MainIsFree /\ mainQ # << >> /\ Head(mainQ).ev = "notify"
  /\ disk' = rows
  /\ LET c == Head(mainQ).list
     IN  IF lists[c].owner = Nobody THEN mainQ' = Tail(mainQ) /\ UNCHANGED listeners
         ELSE /\ listeners' = listeners \cup {c}
              /\ mainQ' = Append(Tail(mainQ), [ev |-> "snapshot", list |-> c,
                                               docs |-> OwnedBy(docs, lists[c].owner)])
  /\ UNCHANGED <<auth, screens, syncing, rows, docs, used, author, source, overlapped, past>>

\* Faulty variant: the old rows are not deleted first.
SnapshotMerges ==
  /\ Callback("snapshot")
  /\ LET c == Head(mainQ).list
         new == Head(mainQ).docs
     IN  /\ rows' = [n \in DOMAIN rows \cup new |-> IF n \in new THEN "sent" ELSE rows[n]]
         /\ disk' = rows'
         /\ lists' = [lists EXCEPT ![c].shown = DOMAIN rows']
         /\ source' = c
  /\ UNCHANGED <<auth, stack, syncing, cloud, used, author, overlapped, past>>

\* The snapshot's list, visible or not, deletes all rows and inserts its own;
\* the objects the other lists show are gone.
Snapshot ==
  /\ Callback("snapshot")
  /\ LET c == Head(mainQ).list
         new == Head(mainQ).docs
     IN  /\ rows' = [n \in new |-> "sent"] /\ disk' = rows'
         /\ lists' = [d \in 1 .. Len(lists) |->
                        [lists[d] EXCEPT !.shown = IF d = c THEN new ELSE {}]]
         /\ source' = c
  /\ UNCHANGED <<auth, stack, syncing, cloud, used, author, overlapped, past>>

SnapshotError ==
  /\ Callback("error")
  /\ disk' = rows
  /\ lists' = [lists EXCEPT ![Head(mainQ).list].shown = DOMAIN rows]
  /\ UNCHANGED <<auth, stack, syncing, rows, cloud, used, author, source, overlapped, past>>

-----------------------------------------------------------------------------
(* Firestore, other devices, and relaunching.                              *)

Reject(c) ==
  /\ c \in listeners /\ Spend("cloud", MaxCloud)
  /\ listeners' = listeners \ {c}
  /\ mainQ' = Append(mainQ, [ev |-> "error", list |-> c])
  /\ UNCHANGED <<auth, screens, syncing, store, docs, author, source, overlapped, past>>

\* Another device of u adds or deletes a document.
Remote(u) ==
  /\ Spend("cloud", MaxCloud)
  /\ \/ author' = Append(author, u) /\ docs' = [n \in DOMAIN docs \cup {Len(author')} |->
                                                  IF n \in DOMAIN docs THEN docs[n] ELSE u]
     \/ \E n \in OwnedBy(docs, u) : docs' = Restrict(docs, DOMAIN docs \ {n}) /\ UNCHANGED author
  /\ \E told \in Raised(docs', {u}) : mainQ' = mainQ \o told
  /\ UNCHANGED <<auth, screens, syncing, store, listeners, source, overlapped, past>>

\* The process dies; the relaunched one shows a task list if a user is signed in.
Crash ==
  /\ Spend("crash", MaxCrash)
  /\ requests' = << >> /\ mainQ' = << >> /\ listeners' = {} /\ rows' = disk
  /\ IF user = Nobody THEN stack' = << >> /\ lists' = << >> /\ syncing' = NoList
     ELSE Launched(user, disk)
  /\ source' = NoList
  /\ stranded' = IF user = Nobody THEN stranded \cup {n \in DOMAIN disk : disk[n] = "created"}
                 ELSE stranded
  /\ UNCHANGED <<user, disk, docs, author, overlapped, expelled>>

-----------------------------------------------------------------------------
Next ==
  \/ TrySignIn \/ TryRegister \/ \E i \in 1 .. Len(requests) : Answer(i)
  \/ TokenRefused
  \/ SignedIn \/ Refused \/ Registered
  \/ OpenRegistration \/ Back \/ LogOut
  \/ AddTask \/ EditTask \/ Upload \/ Notify \/ Snapshot \/ SnapshotError
  \/ \E c \in listeners : Reject(c)
  \/ \E u \in User : Remote(u)
  \/ Crash

Spec == Init /\ [][Next]_vars

-----------------------------------------------------------------------------
(* Properties.                                                             *)

Event == [ev : AuthEvent, here : BOOLEAN]
           \cup [ev : {"notify", "error"}, list : 1 .. Len(lists)]
           \cup [ev : {"snapshot"}, list : 1 .. Len(lists), docs : SUBSET Name]

\* The state has its shape; in particular every list on the stack, in a
\* callback or in a sync exists, and every row and document was entered
\* somewhere.
TypeOK ==
  /\ user \in Owner
  /\ requests \in Seq([op : {"signIn", "register"}, here : BOOLEAN])
  /\ author \in Seq(Owner)
  /\ lists \in Seq([owner : Owner, shown : SUBSET Name])
  /\ stack \in Seq({Registration} \cup 1 .. Len(lists))
  /\ syncing \in {NoList} \cup 1 .. Len(lists)
  /\ source \in {NoList} \cup 1 .. Len(lists)
  /\ mainQ \in Seq(Event)
  /\ \A f \in {rows, disk} : /\ DOMAIN f \subseteq Name
                             /\ f \in [DOMAIN f -> {"created", "updated", "sent"}]
  /\ DOMAIN docs \subseteq Name /\ docs \in [DOMAIN docs -> Owner]
  /\ listeners \subseteq 1 .. Len(lists)
  /\ used \in [{"auth", "edit", "cloud", "crash"} -> Nat]
  /\ overlapped \in BOOLEAN /\ expelled \in BOOLEAN /\ stranded \subseteq Name

\* The task list on the screen works for the signed-in user, or for a user whom a
\* refused token signed out under the list: it stays, and goes on for that user,
\* until it is left.  Only two overlapping authentications, the second tap of an
\* impatient user, show the list of one account while another is signed in.
ListIsTheUsers ==
  ListIsVisible => \/ overlapped
                   \/ lists[Top].owner = user
                   \/ user = Nobody /\ expelled

\* A new task becomes a document of the user in whose list it was entered, also
\* after a log-out, another login, or a relaunch that repeats the upload.  The
\* exceptions need a user without an account: the task was entered in a list
\* that captured nobody, or the process died before the upload when a refused
\* token had signed the user out, and the next user's list uploads what it finds.
TasksGoToTheirAuthor ==
  [][\A n \in DOMAIN rows :
       rows[n] = "created" /\ n \in DOMAIN docs' \ DOMAIN docs
         => \/ overlapped
            \/ docs'[n] = author[n]
            \/ author[n] = Nobody \/ n \in stranded]_vars

\* A document changes hands only through a list that has not been filled by its
\* own snapshot: it still shows, or shows again, the rows of a former user.
OnlyUnfilledListsMoveDocuments ==
  [][\A n \in DOMAIN docs \cap DOMAIN docs' :
       docs'[n] # docs[n] => overlapped \/ source # syncing]_vars

\* At rest the store holds the documents of one user: those of the list whose
\* snapshot came last, as long as its listener lives.  Tasks entered in a list
\* without a user are excepted: they wait in the store, or are nobody's.
StoreIsOneUsers ==
  MainIsFree /\ mainQ = << >> /\ source \in listeners =>
    \A n \in Name : author[n] # Nobody =>
      (n \in DOMAIN rows <=> n \in OwnedBy(docs, lists[source].owner))
=============================================================================
