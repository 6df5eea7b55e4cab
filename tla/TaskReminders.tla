----------------------------- MODULE TaskReminders -----------------------------
(***************************************************************************)
(* The reminders of TasksTracker's task list: pending notification         *)
(* requests, and the identifier of its request that every row carries      *)
(* (Views/Tasks/ViewController.swift).                                     *)
(*                                                                         *)
(* A request and the identifier in a row are kept apart: the row's         *)
(* identifier is written in memory and reaches the store with the next     *)
(* save, the request outlives the process.  Of a row only the identifier   *)
(* matters; whether a task is completed is a choice of the step that reads *)
(* it.  Uploads do not touch identifiers, so all that is left of           *)
(* synchronisation (module TaskSync) is that a snapshot of any documents   *)
(* may arrive whenever the main thread is free.  The handler of a snapshot *)
(* and that of a task screen's button are cut into their steps because     *)
(* the process may die between them; nothing else runs on the main thread  *)
(* meanwhile.  They start only if MaxRequest allows every request they     *)
(* make.                                                                   *)
(***************************************************************************)
EXTENDS Naturals, FiniteSets, Functions

CONSTANTS Doc,         \* documents a snapshot may hold; each gives one row
          Draft,       \* rows the app inserts itself
          MaxRequest,  \* bound: notification requests ever made
          MaxCrash     \* bound: times the process dies and is relaunched

ASSUME RowsAssumption == IsFiniteSet(Doc) /\ IsFiniteSet(Draft) /\ Doc \cap Draft = {}
ASSUME LimitAssumption == MaxRequest \in Nat /\ MaxCrash \in Nat

VARIABLES mem,      \* rows of the context: row -> its notificationIdentifier
          deleted,  \* rows whose deletion is pending in the context
          disk,     \* rows of the store
          center,   \* pending requests of UNUserNotificationCenter
          screen,   \* the open task screen, and the row it captured
          handler,  \* how far the running handler of the main thread has come
          asked,    \* number of identifiers given out
          crashes,
          fired,    \* history: requests that were delivered
          lost,     \* history: requests whose row the user deleted, or which were
                    \* made for a row that was gone, or which a crash left without row
          cut       \* history: identifiers of rows whose request a handler cancelled
                    \* that a crash cut off before it saved them

rows == <<mem, deleted, disk>>
vars == <<rows, center, screen, handler, asked, crashes, fired, lost, cut>>

-----------------------------------------------------------------------------
NoId == 0
TaskRow == Doc \cup Draft
Live == DOMAIN mem \ deleted
IdsOf(f) == {f[o] : o \in DOMAIN f} \ {NoId}
Set(f, x, v) == [y \in DOMAIN f \cup {x} |-> IF y = x THEN v ELSE f[y]]

NoScreen == [kind |-> "none"]
Idle == [step |-> "idle"]
MainFree == handler = Idle

\* The captured object leaves the context; it keeps the identifier it had.
Detached(s, gone) ==
  IF s # NoScreen /\ s.attached /\ s.obj \in gone
  THEN [s EXCEPT !.attached = FALSE, !.id = mem[s.obj]] ELSE s

Init ==
  /\ mem = << >> /\ disk = << >> /\ deleted = {}
  /\ center = {} /\ screen = NoScreen /\ handler = Idle
  /\ asked = 0 /\ crashes = 0 /\ fired = {} /\ lost = {} /\ cut = {}

-----------------------------------------------------------------------------
\* A request is added to those of c; its identifier is asked'.
AddRequest(c) ==
  /\ asked < MaxRequest
  /\ asked' = asked + 1
  /\ center' = c \cup {asked'}

\* saveChanges() after the rows became m.
SaveAs(m) == mem' = Restrict(m, DOMAIN m \ deleted) /\ disk' = mem' /\ deleted' = {}

OpenAdd(l) ==
  /\ MainFree /\ screen = NoScreen
  /\ l \in Draft \ (DOMAIN mem \cup DOMAIN disk)
  /\ mem' = Set(mem, l, NoId)
  /\ screen' = [kind |-> "add", obj |-> l, attached |-> TRUE, id |-> NoId]
  /\ UNCHANGED <<deleted, disk, center, handler, asked, crashes, fired, lost, cut>>

OpenEdit(o) ==
  /\ MainFree /\ screen = NoScreen
  /\ o \in DOMAIN mem
  /\ screen' = [kind |-> "edit", obj |-> o, attached |-> TRUE, id |-> NoId]
  /\ UNCHANGED <<rows, center, handler, asked, crashes, fired, lost, cut>>

\* The identifier the captured object carries, whether or not it still has a row.
Captured == IF screen.attached THEN mem[screen.obj] ELSE screen.id

\* Faulty variant: the previous request of the row stays pending.
ConfirmKeepsOld ==
  /\ MainFree /\ screen # NoScreen /\ asked < MaxRequest
  /\ handler' = [step |-> "add"]
  /\ UNCHANGED <<rows, center, screen, asked, crashes, fired, lost, cut>>

\* The button of the task screen, when the task is not completed: saveCurrent
\* cancels the request of the captured object ...
ConfirmCancels ==
  /\ MainFree /\ screen # NoScreen /\ asked < MaxRequest
  /\ center' = center \ {Captured}
  /\ handler' = [step |-> "add"]
  /\ UNCHANGED <<rows, screen, asked, crashes, fired, lost, cut>>

\* ... makes a new one, which the object names in memory only (an object without
\* a row takes it along when the screen closes) ...
ConfirmAdds ==
  /\ handler.step = "add"
  /\ AddRequest(center)
  /\ mem' = IF screen.attached THEN Set(mem, screen.obj, asked') ELSE mem
  /\ lost' = IF screen.attached /\ screen.obj \in Live THEN lost ELSE lost \cup {asked'}
  /\ handler' = [step |-> "save"]
  /\ UNCHANGED <<deleted, disk, screen, crashes, fired, cut>>

\* Faulty variant: the screen closes without a save.
ConfirmForgetsToSave ==
  /\ handler.step = "save"
  /\ screen' = NoScreen
  /\ handler' = Idle
  /\ UNCHANGED <<rows, center, asked, crashes, fired, lost, cut>>

\* ... and the button's action saves.
ConfirmSaves ==
  /\ handler.step = "save"
  /\ SaveAs(mem)
  /\ screen' = NoScreen
  /\ handler' = Idle
  /\ UNCHANGED <<center, asked, crashes, fired, lost, cut>>

\* The same button for a completed task: its request is left as it is.
ConfirmCompleted ==
  /\ MainFree /\ screen.kind = "edit"
  /\ SaveAs(mem)
  /\ screen' = NoScreen
  /\ UNCHANGED <<center, handler, asked, crashes, fired, lost, cut>>

Dismiss ==
  /\ MainFree /\ screen # NoScreen
  /\ screen' = NoScreen
  /\ UNCHANGED <<rows, center, handler, asked, crashes, fired, lost, cut>>

\* Faulty variant: the copy gets every attribute of the original.
MenuCopyAll(l) ==
  /\ MainFree /\ screen = NoScreen
  /\ l \in Draft \ (DOMAIN mem \cup DOMAIN disk)
  /\ \E o \in Live : SaveAs(Set(mem, l, mem[o]))
  /\ UNCHANGED <<center, screen, handler, asked, crashes, fired, lost, cut>>

\* A copy is inserted without an identifier and without a request.
MenuCopy(l) ==
  /\ MainFree /\ screen = NoScreen
  /\ l \in Draft \ (DOMAIN mem \cup DOMAIN disk)
  /\ SaveAs(Set(mem, l, NoId))
  /\ UNCHANGED <<center, screen, handler, asked, crashes, fired, lost, cut>>

\* The deletion is pending until the next save; the request is not cancelled.
MenuDelete(o) ==
  /\ MainFree /\ screen = NoScreen
  /\ o \in DOMAIN mem
  /\ deleted' = deleted \cup {o}
  /\ lost' = lost \cup ({mem[o]} \ {NoId})
  /\ UNCHANGED <<mem, disk, center, screen, handler, asked, crashes, fired, cut>>

\* Every handler that only saves: the end of a sync, a status chosen in the
\* menu, a listener's error, a tab switch, the completion of a removal.
Save ==
  /\ MainFree
  /\ SaveAs(mem)
  /\ screen' = Detached(screen, deleted)
  /\ UNCHANGED <<center, handler, asked, crashes, fired, lost, cut>>

-----------------------------------------------------------------------------
\* Faulty variant: the identifiers are read from the store.
SnapshotCancelsSaved(docs) ==
  /\ MainFree
  /\ asked + Cardinality(docs \cup (Live \ DOMAIN disk)) <= MaxRequest
  /\ center' = center \ {disk[o] : o \in DOMAIN disk \ deleted}
  /\ handler' = [step |-> "replace", docs |-> docs]
  /\ UNCHANGED <<rows, screen, asked, crashes, fired, lost, cut>>

\* A snapshot: the requests of all fetched rows are cancelled ...
SnapshotCancels(docs) ==
  /\ MainFree
  /\ asked + Cardinality(docs \cup (Live \ DOMAIN disk)) <= MaxRequest
  /\ center' = center \ {mem[o] : o \in Live}
  /\ handler' = [step |-> "replace", docs |-> docs]
  /\ UNCHANGED <<rows, screen, asked, crashes, fired, lost, cut>>

\* ... the rows of the store are deleted, the documents inserted and saved ...
SnapshotReplaces ==
  /\ handler.step = "replace"
  /\ LET kept == Live \ DOMAIN disk IN
     /\ mem' = [o \in kept \cup handler.docs |-> IF o \in handler.docs THEN NoId ELSE mem[o]]
     /\ disk' = mem' /\ deleted' = {}
     /\ screen' = Detached(screen, DOMAIN disk \cup deleted)
     /\ handler' = [step |-> "rearm", todo |-> kept \cup handler.docs]
  /\ UNCHANGED <<center, asked, crashes, fired, lost, cut>>

\* ... and every row, completed or not, gets a request of its own, which its
\* identifier names in memory only.
Rearm(o) ==
  /\ handler.step = "rearm" /\ o \in handler.todo
  /\ AddRequest(center \ {mem[o]})
  /\ mem' = [mem EXCEPT ![o] = asked']
  /\ handler' = [handler EXCEPT !.todo = @ \ {o}]
  /\ UNCHANGED <<deleted, disk, screen, crashes, fired, lost, cut>>

\* Faulty variant: the loop over the rows is left early.
SnapshotEndsEarly ==
  /\ handler.step = "rearm"
  /\ handler' = Idle
  /\ UNCHANGED <<rows, center, screen, asked, crashes, fired, lost, cut>>

SnapshotEnds ==
  /\ handler.step = "rearm" /\ handler.todo = {}
  /\ handler' = Idle
  /\ UNCHANGED <<rows, center, screen, asked, crashes, fired, lost, cut>>

-----------------------------------------------------------------------------
\* iOS delivers a request.
Fire(n) ==
  /\ n \in center
  /\ center' = center \ {n}
  /\ fired' = fired \cup {n}
  /\ UNCHANGED <<rows, screen, handler, asked, crashes, lost, cut>>

\* Rows whose stored identifier names a request that the running handler has
\* cancelled, until it saves.
Unsaved ==
  IF handler.step = "replace" THEN Live
  ELSE IF handler.step \in {"add", "save"} /\ screen.attached THEN {screen.obj} ELSE {}

\* The process dies, at any step of a handler, and is launched again.
Crash ==
  /\ crashes < MaxCrash
  /\ crashes' = crashes + 1
  /\ mem' = disk /\ deleted' = {}
  /\ screen' = NoScreen /\ handler' = Idle
  /\ lost' = lost \cup (center \ IdsOf(disk))
  /\ cut' = cut \cup ({disk[o] : o \in Unsaved \cap DOMAIN disk} \ {NoId})
  /\ UNCHANGED <<disk, center, asked, fired>>

User ==
  \/ \E l \in Draft : OpenAdd(l) \/ MenuCopy(l)
  \/ \E o \in DOMAIN mem : OpenEdit(o) \/ MenuDelete(o)
  \/ ConfirmCancels \/ ConfirmAdds \/ ConfirmSaves \/ ConfirmCompleted \/ Dismiss

SnapshotHandler ==
  \/ \E docs \in SUBSET Doc : SnapshotCancels(docs)
  \/ SnapshotReplaces
  \/ \E o \in DOMAIN mem : Rearm(o)
  \/ SnapshotEnds

Next == User \/ Save \/ SnapshotHandler \/ (\E n \in center : Fire(n)) \/ Crash

Spec == Init /\ [][Next]_vars

-----------------------------------------------------------------------------
(* Properties.                                                             *)

\* Rows carry identifiers that were given out; an open screen and a running
\* handler refer to rows.
TypeOK ==
  /\ DOMAIN mem \subseteq TaskRow /\ DOMAIN disk \subseteq TaskRow
  /\ \A o \in DOMAIN mem : mem[o] \in 0 .. asked
  /\ \A o \in DOMAIN disk : disk[o] \in 0 .. asked
  /\ deleted \subseteq DOMAIN mem
  /\ center \cup fired \cup lost \cup cut \subseteq 1 .. asked
  /\ asked \in Nat /\ crashes \in Nat
  /\ \/ screen = NoScreen
     \/ /\ screen \in [kind : {"add", "edit"}, obj : TaskRow,
                       attached : BOOLEAN, id : 0 .. asked]
        /\ screen.attached => screen.obj \in DOMAIN mem
  /\ \/ handler = Idle
     \/ handler \in [step : {"replace"}, docs : SUBSET Doc]
     \/ handler \in [step : {"rearm"}, todo : SUBSET DOMAIN mem]
     \/ handler \in [step : {"add", "save"}] /\ screen # NoScreen

\* Cancelling the reminder of one task never cancels that of another: no
\* identifier is carried by two rows, nor by a row and by the object that an
\* open screen still holds although its row is gone.
NoSharedReminder ==
  /\ \A o, p \in DOMAIN mem : o # p /\ mem[o] = mem[p] => mem[o] = NoId
  /\ screen # NoScreen => screen.id = NoId \/ screen.id \notin IdsOf(mem)

\* Every pending reminder is named by a row of the list, and so will be
\* cancelled by the next snapshot or edit, unless the user deleted its task,
\* confirmed a screen whose row was gone, or a crash came before the identifier
\* was saved.  In particular a snapshot, which replaces all rows, leaks none.
RemindersAreAccounted == center \subseteq IdsOf(mem) \cup lost

\* Between the handlers, without a crash, every row a snapshot brought
\* has its reminder, and no row's reminder was cancelled under it.
ListedAreReminded ==
  MainFree /\ crashes = 0 =>
    \A o \in Live : mem[o] \in center \cup fired \/ (o \in Draft /\ mem[o] = NoId)

\* What a relaunch finds in the store: a stored identifier names a request that
\* is pending or was delivered.  The only stale ones are those of rows whose
\* request the running handler has cancelled and which it has not saved yet, and
\* of rows a crash left in that state; no cancellation for one row, its object
\* or a copy, and no save, makes any other row's identifier stale.
StoreIsNotStale ==
  \A o \in DOMAIN disk \ Unsaved : disk[o] \in {NoId} \cup center \cup fired \cup cut
=============================================================================
