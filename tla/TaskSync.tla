------------------------------- MODULE TaskSync -------------------------------
(***************************************************************************)
(* The task list of TasksTracker: the Core Data rows the list shows, the   *)
(* screens that edit them, the upload of local changes to Firestore and    *)
(* the snapshots that come back (Views/Tasks/ViewController.swift with     *)
(* FirestoreTasksRepository.swift and CoreDataStack.swift).                *)
(*                                                                         *)
(* Three threads of control meet here: the main thread, which runs every   *)
(* UI handler and every Firestore callback one after another; the GCD      *)
(* workers that upload rows while the main thread is blocked in            *)
(* group.wait(); and Firestore's own worker queue.  A task's content       *)
(* (title, text, deadline, status) is one opaque value.  The order of the  *)
(* list is not modelled: once the list was fetched again, a row index      *)
(* taken earlier may denote any row.                                       *)
(***************************************************************************)
EXTENDS Naturals, Sequences, Functions

CONSTANTS Text,        \* contents a user can enter
          Blank,       \* content of a row nobody has filled in
          Draft,       \* handles of managed objects the app creates itself
          Shared,      \* documents already in the cloud at first launch
          MaxSync,     \* bound: user operations that end in a sync or listener
          MaxRemote,   \* bound: changes made on other devices
          MaxReject,   \* bound: times Firestore rejects the listeners
          MaxCrash     \* bound: times the process dies and is relaunched

ASSUME BlankAssumption == Blank \notin Text
ASSUME DraftAssumption == Draft \cap Nat = {}
ASSUME BoundAssumption == {Shared, MaxSync, MaxRemote, MaxReject, MaxCrash} \subseteq Nat

VARIABLES mem,       \* managed objects of viewContext: handle -> row
          deleted,   \* objects whose deletion is pending in the context
          disk,      \* rows of Tasks.sqlite
          tasks,     \* ViewController.tasks, as the set of fetched handles
          screen,    \* the modal screen or context menu, and what it captured
          waiting,   \* the main thread is blocked in group.wait()
          running,   \* rows whose upload worker has not left the group
          mainQ,     \* callbacks queued for the main thread
          fsQ,       \* calls queued for Firestore's worker
          view,      \* the user's documents as the Firestore client sees them
          unacked,   \* mutations the server has not acknowledged
          listeners, \* snapshot listeners registered and not rejected
          minted,    \* number of document names and UUIDs given out
          used,      \* how much of each bound is spent
          hidden     \* history: documents deleted by the user since the last
                     \* snapshot

coreData == <<mem, deleted, disk>>
ui == <<tasks, screen>>
upload == <<waiting, running>>
firestore == <<view, unacked, listeners>>
vars == <<coreData, ui, upload, mainQ, fsQ, firestore, minted, used, hidden>>

-----------------------------------------------------------------------------
NoName == 0
Content == Text \cup {Blank}

\* Document names and UUIDs are numbers, each given out once.  A row that a
\* snapshot inserts for document n is the object n; a row the app inserts
\* itself is an object of Draft.
Object == (Nat \ {NoName}) \cup Draft

Row == [content : Content, sync : {"created", "updated", "synchronized"}, id : Nat]

\* Task(context:) with the model's default attribute values.
NewRow == [content |-> Blank, sync |-> "created", id |-> NoName]

\* A row that holds a change the user confirmed and that has not been handed
\* to Firestore.
Unsent(r) == r.sync # "synchronized" /\ r # NewRow

Put(f, x, v) == [y \in DOMAIN f \cup {x} |-> IF y = x THEN v ELSE f[y]]
Live == DOMAIN mem \ deleted
NoScreen == [kind |-> "none"]
Opened(kind, o) == [kind |-> kind, obj |-> o, attached |-> TRUE, moved |-> FALSE]

\* The list is fetched again under an open menu: the row index the menu
\* captured may now denote another row.
Moved(s) == IF s.kind = "menu" THEN [s EXCEPT !.moved = TRUE] ELSE s

\* The objects in gone leave the context, or lose their rows to a batch
\* deletion, under an open screen: what is written to the captured object later
\* is dropped on save (the merge policy is StoreTrump).
Detached(s, gone) ==
  IF s # NoScreen /\ s.obj \in gone THEN [s EXCEPT !.attached = FALSE] ELSE s

Copies(e, n) == [i \in 1 .. n |-> e]
Raise(docs, n) == Copies([ev |-> "snapshot", docs |-> docs], n)
Listen == [op |-> "listen"]
SetDoc(n, c) == [op |-> "set", name |-> n, content |-> c]
DeleteDoc(n) == [op |-> "delete", name |-> n]

-----------------------------------------------------------------------------
Init ==
  /\ view \in [1 .. Shared -> Text]
  /\ minted = Shared
  /\ mem = << >> /\ disk = << >> /\ deleted = {}
  /\ tasks = {} /\ screen = NoScreen
  /\ waiting = TRUE /\ running = {}
  /\ mainQ = << >> /\ fsQ = << >> /\ unacked = << >> /\ listeners = 0
  /\ used = [sync |-> 0, remote |-> 0, reject |-> 0, crash |-> 0]
  /\ hidden = {}

\* Faulty variant: nothing is saved.
NotSaved(m) == mem' = m /\ deleted' = {} /\ UNCHANGED disk

\* saveChanges() after the context became m with no deletion pending.
Saved(m) == mem' = m /\ disk' = m /\ deleted' = {}

\* syncCoreDataWithFirebase() up to group.wait(): fetch, one worker per row.  A
\* worker whose row is synchronized only enters and leaves the group.
StartSync(m) ==
  /\ tasks' = DOMAIN m
  /\ waiting' = TRUE
  /\ running' = {o \in DOMAIN m : m[o].sync # "synchronized"}

Spend(what, max) == used[what] < max /\ used' = [used EXCEPT ![what] = @ + 1]

-----------------------------------------------------------------------------
(* Upload workers and the end of group.wait().                             *)

\* addTask: a document under a new name; the row gets the UUID that
\* FirebaseTask(task:) made up, which is not that name.
AddTask(o) ==
  /\ mem[o].sync = "created"
  /\ minted' = minted + 2
  /\ fsQ' = Append(fsQ, SetDoc(minted + 1, mem[o].content))
  /\ LET id == IF mem[o].id = NoName THEN minted + 2 ELSE mem[o].id
     IN  mem' = [mem EXCEPT ![o] = [@ EXCEPT !.sync = "synchronized", !.id = id]]

\* Faulty variant: the guard on a missing id returns before the upload.
UpdateTaskSkipsUnnamed(o) ==
  /\ mem[o].sync = "updated"
  /\ minted' = minted
  /\ IF mem[o].id = NoName THEN UNCHANGED <<mem, fsQ>>
     ELSE /\ fsQ' = Append(fsQ, SetDoc(mem[o].id, mem[o].content))
          /\ mem' = [mem EXCEPT ![o].sync = "synchronized"]

\* updateTask: FirebaseTask(task:) makes up an id for a row that has none, so
\* the guard on the id never fails.
UpdateTask(o) ==
  /\ mem[o].sync = "updated"
  /\ minted' = IF mem[o].id = NoName THEN minted + 1 ELSE minted
  /\ LET id == IF mem[o].id = NoName THEN minted + 1 ELSE mem[o].id
     IN  fsQ' = Append(fsQ, SetDoc(id, mem[o].content))
  /\ mem' = [mem EXCEPT ![o].sync = "synchronized"]

Worker(o) ==
  /\ waiting /\ o \in running
  /\ running' = running \ {o}
  /\ AddTask(o) \/ UpdateTask(o)
  /\ UNCHANGED <<deleted, disk, ui, waiting, mainQ, firestore, used, hidden>>

\* Faulty variants: nobody waits for the group; the sync starts over.
NoWait ==
  /\ waiting /\ waiting' = FALSE
  /\ mainQ' = Append(mainQ, [ev |-> "notify"])
  /\ UNCHANGED <<coreData, ui, running, fsQ, firestore, minted, used, hidden>>

SyncAgain ==
  /\ waiting /\ running = {}
  /\ StartSync(mem)
  /\ UNCHANGED <<coreData, screen, mainQ, fsQ, firestore, minted, used, hidden>>

WaitReturns ==
  /\ waiting /\ running = {}
  /\ waiting' = FALSE
  /\ mainQ' = Append(mainQ, [ev |-> "notify"])
  /\ UNCHANGED <<coreData, ui, running, fsQ, firestore, minted, used, hidden>>

-----------------------------------------------------------------------------
(* Callbacks on the main queue.                                            *)

Callback(ev) == /\ ~waiting /\ mainQ # << >> /\ Head(mainQ).ev = ev
                /\ mainQ' = Tail(mainQ)

Notify ==
  /\ Callback("notify")
  /\ Saved(Restrict(mem, Live))
  /\ fsQ' = Append(fsQ, Listen)
  /\ screen' = Detached(screen, deleted)
  /\ UNCHANGED <<tasks, upload, firestore, minted, used, hidden>>

\* Faulty variant: the old rows are not deleted first.
SnapshotMerges ==
  /\ Callback("snapshot")
  /\ LET docs == Head(mainQ).docs
     IN  Saved([o \in Live \cup DOMAIN docs |->
                  IF o \in DOMAIN docs
                  THEN [content |-> docs[o], sync |-> "synchronized", id |-> o]
                  ELSE mem[o]])
  /\ tasks' = DOMAIN mem'
  /\ screen' = Moved(Detached(screen, deleted))
  /\ hidden' = {}
  /\ UNCHANGED <<upload, fsQ, firestore, minted, used>>

Snapshot ==
  /\ Callback("snapshot")
  /\ LET docs == Head(mainQ).docs
         kept == Live \ DOMAIN disk
     IN  Saved([o \in kept \cup DOMAIN docs |->
                  IF o \in DOMAIN docs
                  THEN [content |-> docs[o], sync |-> "synchronized", id |-> o]
                  ELSE mem[o]])
  /\ tasks' = DOMAIN mem'
  /\ screen' = Moved(Detached(screen, DOMAIN disk \cup deleted))
  /\ hidden' = {}
  /\ UNCHANGED <<upload, fsQ, firestore, minted, used>>

\* Faulty variant: the rows are deleted before the error is looked at.
SnapshotErrorWipes ==
  /\ Callback("error")
  /\ Saved(Restrict(mem, Live \ DOMAIN disk))
  /\ tasks' = Live \ DOMAIN disk
  /\ screen' = Moved(Detached(screen, DOMAIN disk \cup deleted))
  /\ UNCHANGED <<upload, fsQ, firestore, minted, used, hidden>>

SnapshotError ==
  /\ Callback("error")
  /\ Saved(Restrict(mem, Live))
  /\ tasks' = Live
  /\ screen' = Moved(Detached(screen, deleted))
  /\ UNCHANGED <<upload, fsQ, firestore, minted, used, hidden>>

Removed ==
  /\ Callback("removed")
  /\ Saved(Restrict(mem, Live))
  /\ StartSync(Restrict(mem, Live))
  /\ screen' = Moved(Detached(screen, deleted))
  /\ UNCHANGED <<fsQ, firestore, minted, used, hidden>>

-----------------------------------------------------------------------------
(* The user.                                                               *)

\* A handle for Task(context:) that nothing refers to.
Unused(l) == l \in Draft \ (DOMAIN mem \cup DOMAIN disk \cup tasks)

OpenAdd(l) ==
  /\ ~waiting /\ screen = NoScreen /\ Unused(l)
  /\ mem' = Put(mem, l, NewRow)
  /\ screen' = Opened("add", l)
  /\ UNCHANGED <<deleted, disk, tasks, upload, mainQ, fsQ, firestore, minted, used, hidden>>

\* A tap that confirms content c: the write reaches the captured object only
\* while that is attached; the save and the sync follow in any case.
Confirm(kind, sync, c) ==
  /\ ~waiting /\ screen.kind = kind
  /\ LET o == screen.obj
         m == IF screen.attached
              THEN [mem EXCEPT ![o] = [@ EXCEPT !.content = c, !.sync = sync]]
              ELSE mem
     IN  Saved(Restrict(m, Live)) /\ StartSync(Restrict(m, Live))
  /\ screen' = NoScreen
  /\ Spend("sync", MaxSync)
  /\ UNCHANGED <<mainQ, fsQ, firestore, minted, hidden>>

ConfirmAdd(c) == Confirm("add", "created", c)
ConfirmEdit(c) == Confirm("edit", "updated", c)
MenuStatus(c) == Confirm("menu", "updated", c)

Open(kind, o) ==
  /\ ~waiting /\ screen = NoScreen
  /\ o \in tasks \cap DOMAIN mem
  /\ screen' = Opened(kind, o)
  /\ UNCHANGED <<coreData, tasks, upload, mainQ, fsQ, firestore, minted, used, hidden>>

\* The row the index captured by the menu denotes when its action runs.
MenuRow(o) == /\ ~waiting /\ screen.kind = "menu"
              /\ o \in IF screen.moved THEN tasks ELSE {screen.obj}
              /\ o \in DOMAIN mem

MenuCopy(o, l) ==
  /\ MenuRow(o) /\ Unused(l)
  /\ LET m == Put(Restrict(mem, Live), l,
                  [content |-> mem[o].content, sync |-> "created", id |-> NoName])
     IN  Saved(m) /\ StartSync(m)
  /\ screen' = NoScreen
  /\ Spend("sync", MaxSync)
  /\ UNCHANGED <<mainQ, fsQ, firestore, minted, hidden>>

\* removeTask: nothing is called, not even the completion, without an id.
RemoveTask(o) ==
  fsQ' = IF mem[o].id # NoName THEN Append(fsQ, DeleteDoc(mem[o].id)) ELSE fsQ

MenuDelete(o) ==
  \E online \in BOOLEAN :   \* isNetworkEnabled, which follows the network
  /\ MenuRow(o)
  /\ deleted' = deleted \cup {o}
  /\ IF online THEN RemoveTask(o) ELSE fsQ' = fsQ
  /\ hidden' = hidden \cup ({o} \ Draft)
  /\ screen' = NoScreen
  /\ Spend("sync", MaxSync)
  /\ UNCHANGED <<mem, disk, tasks, upload, mainQ, firestore, minted>>

Dismiss ==
  /\ ~waiting /\ screen # NoScreen
  /\ screen' = NoScreen
  /\ UNCHANGED <<coreData, tasks, upload, mainQ, fsQ, firestore, minted, used, hidden>>

\* viewDidDisappear
SwitchTab ==
  /\ ~waiting /\ screen = NoScreen
  /\ Saved(Restrict(mem, Live))
  /\ UNCHANGED <<ui, upload, mainQ, fsQ, firestore, minted, used, hidden>>

PullToRefresh ==
  /\ ~waiting /\ screen = NoScreen
  /\ fsQ' = Append(fsQ, Listen)
  /\ Spend("sync", MaxSync)
  /\ UNCHANGED <<coreData, ui, upload, mainQ, firestore, minted, hidden>>

-----------------------------------------------------------------------------
(* Firestore.                                                              *)

FsCall(op) == fsQ # << >> /\ Head(fsQ).op = op /\ fsQ' = Tail(fsQ)

FsListen ==
  /\ FsCall("listen")
  /\ listeners' = listeners + 1
  /\ mainQ' = mainQ \o Raise(view, 1)
  /\ UNCHANGED <<coreData, ui, upload, view, unacked, minted, used, hidden>>

FsSet ==
  /\ FsCall("set")
  /\ view' = Put(view, Head(fsQ).name, Head(fsQ).content)
  /\ mainQ' = mainQ \o Raise(view', listeners)
  /\ unacked' = Append(unacked, [name |-> Head(fsQ).name, completion |-> FALSE])
  /\ UNCHANGED <<coreData, ui, upload, listeners, minted, used, hidden>>

FsDelete ==
  /\ FsCall("delete")
  /\ LET n == Head(fsQ).name IN
     /\ view' = Restrict(view, DOMAIN view \ {n})
     /\ mainQ' = IF n \in DOMAIN view THEN mainQ \o Raise(view', listeners) ELSE mainQ
     /\ unacked' = Append(unacked, [name |-> n, completion |-> TRUE])
  /\ UNCHANGED <<coreData, ui, upload, listeners, minted, used, hidden>>

\* The server acknowledges the oldest mutation.  A write's server timestamp
\* becomes known, which changes the document unless a later local mutation
\* hides it; a deletion's completion handler is called.
FsAck ==
  /\ unacked # << >>
  /\ unacked' = Tail(unacked)
  /\ LET a == Head(unacked)
         covered == \E i \in 2 .. Len(unacked) : unacked[i].name = a.name
     IN  mainQ' = IF a.completion THEN Append(mainQ, [ev |-> "removed"])
                  ELSE IF a.name \in DOMAIN view /\ ~covered
                       THEN mainQ \o Raise(view, listeners) ELSE mainQ
  /\ UNCHANGED <<coreData, ui, upload, fsQ, view, listeners, minted, used, hidden>>

FsReject ==
  /\ listeners > 0
  /\ Spend("reject", MaxReject)
  /\ mainQ' = mainQ \o Copies([ev |-> "error"], listeners)
  /\ listeners' = 0
  /\ UNCHANGED <<coreData, ui, upload, fsQ, view, unacked, minted, hidden>>

\* Another device of the same user writes, creates or deletes a document.
Remote ==
  /\ Spend("remote", MaxRemote)
  /\ \E n \in DOMAIN view \cup {minted + 1} :
       /\ \A i \in 1 .. Len(unacked) : unacked[i].name # n
       /\ minted' = IF n > minted THEN n ELSE minted
       /\ \/ \E c \in Text : view' = Put(view, n, c)
          \/ n \in DOMAIN view /\ view' = Restrict(view, DOMAIN view \ {n})
  /\ mainQ' = mainQ \o Raise(view', listeners)
  /\ UNCHANGED <<coreData, ui, upload, fsQ, unacked, listeners, hidden>>

-----------------------------------------------------------------------------
\* The process dies and is launched again: viewDidLoad starts a sync.  Core
\* Data keeps what was saved; Firestore keeps what its worker had taken over.
Crash ==
  /\ Spend("crash", MaxCrash)
  /\ Saved(disk) /\ StartSync(disk)
  /\ screen' = NoScreen
  /\ mainQ' = << >> /\ fsQ' = << >> /\ listeners' = 0
  /\ unacked' = [i \in 1 .. Len(unacked) |-> [unacked[i] EXCEPT !.completion = FALSE]]
  /\ UNCHANGED <<view, minted, hidden>>

-----------------------------------------------------------------------------
Workers == \E o \in running : Worker(o)
MainQueue == Notify \/ Snapshot \/ SnapshotError \/ Removed
Firestore == FsListen \/ FsSet \/ FsDelete
User ==
  \/ \E l \in Draft : OpenAdd(l)
  \/ \E c \in Text : ConfirmAdd(c) \/ ConfirmEdit(c) \/ MenuStatus(c)
  \/ \E o \in tasks : Open("edit", o) \/ Open("menu", o)
  \/ \E o \in tasks : MenuDelete(o) \/ \E l \in Draft : MenuCopy(o, l)
  \/ Dismiss \/ SwitchTab \/ PullToRefresh

Next ==
  \/ Workers \/ WaitReturns
  \/ MainQueue
  \/ User
  \/ Firestore \/ FsAck \/ FsReject \/ Remote
  \/ Crash

Spec == Init /\ [][Next]_vars

\* GCD's main queue and workers and Firestore's worker keep running; nothing
\* obliges the user, the server or other devices to do anything.
Fairness == WF_vars(Workers) /\ WF_vars(WaitReturns) /\ WF_vars(MainQueue) /\ WF_vars(Firestore)
FairSpec == Spec /\ Fairness

-----------------------------------------------------------------------------
(* Properties.                                                             *)

RowsOf(f) == DOMAIN f \subseteq Object /\ f \in [DOMAIN f -> Row]
DocsOf(f) == DOMAIN f \subseteq Nat \ {NoName} /\ f \in [DOMAIN f -> Content]
EventOK(e) == \/ e.ev = "snapshot" /\ DocsOf(e.docs)
              \/ e \in [ev : {"notify", "error", "removed"}]
CallOK(q) == \/ q = Listen
             \/ q \in [op : {"set"}, name : Nat \ {NoName}, content : Content]
             \/ q \in [op : {"delete"}, name : Nat \ {NoName}]

\* Rows, documents, queues and screens have the shape the handlers expect; in
\* particular only objects of the context have a worker or a pending deletion.
TypeOK ==
  /\ RowsOf(mem) /\ RowsOf(disk) /\ DocsOf(view)
  /\ deleted \subseteq DOMAIN mem
  /\ running \subseteq DOMAIN mem
  /\ tasks \subseteq Object /\ hidden \subseteq Object
  /\ \/ screen = NoScreen
     \/ screen \in [kind : {"add", "edit", "menu"}, obj : Object,
                    attached : BOOLEAN, moved : BOOLEAN]
  /\ waiting \in BOOLEAN
  /\ \A i \in 1 .. Len(mainQ) : EventOK(mainQ[i])
  /\ \A i \in 1 .. Len(fsQ) : CallOK(fsQ[i])
  /\ \A i \in 1 .. Len(unacked) :
       unacked[i] \in [name : Nat \ {NoName}, completion : BOOLEAN]
  /\ listeners \in Nat /\ minted \in Nat
  /\ used \in [{"sync", "remote", "reject", "crash"} -> Nat]

\* A change the user confirmed and Firestore was not given yet is on disk
\* exactly as confirmed, and a worker is about to upload it while the main
\* thread is still blocked: no callback, and so no snapshot, can run in between
\* and wipe it, and a crash does not lose it.
ConfirmedIsSafe ==
  \A o \in DOMAIN mem : Unsent(mem[o]) =>
    waiting /\ o \in running /\ o \in DOMAIN disk /\ disk[o] = mem[o]

\* The object captured by an open screen is taken away from under the user only
\* by a snapshot's batch deletion, or because the user had deleted it; no other
\* callback makes a later confirmation write into the void.
OnlySnapshotDetaches ==
  [][screen # NoScreen /\ screen' # NoScreen /\ screen.attached /\ ~screen'.attached
       => Head(mainQ).ev = "snapshot" \/ screen.obj \in deleted]_vars

Settled == ~waiting /\ fsQ = << >> /\ mainQ = << >> /\ listeners > 0

\* Once every queue has drained and a listener is alive, the list shows exactly
\* the documents Firestore has, apart from blank rows of screens the user opened
\* and rows the user deleted since the last snapshot.
SettledMirrors == Settled =>
  /\ \A o \in Live : mem[o] = NewRow \/ (o \in DOMAIN view /\ mem[o].content = view[o])
  /\ DOMAIN view \subseteq Live \cup hidden

\* group.wait() always returns: no worker needs the blocked main thread.
MainUnblocks == waiting ~> ~waiting

\* A confirmed change ends up in Firestore's documents, if the process lives.
ConfirmedLands ==
  \A c \in Text :
    (\E o \in DOMAIN mem : Unsent(mem[o]) /\ mem[o].content = c)
      ~> (\E n \in DOMAIN view : view[n] = c)

\* The confirmed changes Firestore was not given yet.
Owed == {[obj |-> o, content |-> mem[o].content] :
           o \in {p \in DOMAIN mem : Unsent(mem[p])}}

Contract == INSTANCE UploadContract WITH owed <- Owed, calls <- fsQ

\* A confirmed change leaves the rows that still have to be uploaded only by a
\* call that hands it to Firestore: never by a snapshot, a save or a crash.
ImplementsContract == Contract!Spec
=============================================================================
