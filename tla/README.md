# Verification of the IOSHomeWorks applications

This directory holds TLA+ models of the applications of this repository, the
TLC configurations that check them on small instances and TLAPS proofs about
the models. Every module is translated from the sources, the Swift of the
applications and the C++ of the Firestore client one of them is built with;
paths below are relative to `src/`.

## 1. Inventory

The repository is a set of independent iOS applications. `TasksTracker` is by
far the largest and the only one with shared persistent state, a remote
database and more than one thread that matters. Everything under
`TasksTracker/Pods` is vendored (Firebase, gRPC, BoringSSL). Of that, the
Firestore client is modelled too: it is what carries a confirmed task to the
server and a snapshot back, and it holds most of the repository's concurrency.

| Part | State it keeps | Operations | What is hard |
|---|---|---|---|
| **TasksTracker task list** (`Views/Tasks/ViewController.swift`, `Client/FirestoreTasksRepository.swift`, `CoreDataFramework/*`) | Core Data rows in the view context and in `Tasks.sqlite`, the fetched array `tasks`, `isNetworkEnabled`, listeners | add, edit, copy, delete, change status, pull to refresh, `syncCoreDataWithFirebase`, snapshot callback | upload workers on background threads while the main thread is blocked; every snapshot deletes and re-creates all rows while screens still hold the old objects; crashes between save and upload; offline deletes |
| **Reminders** (same controller, 245-282) | pending notification requests, `notificationIdentifier` of each row | schedule on save and on every snapshot, cancel on snapshot | identifiers are written after the rows were saved; a crash orphans a request |
| **Session** (`Authorization/*`, `SettingsViewController`, `SceneDelegate`, `TapBar`, `AppDelegate`) | the signed-in user, the navigation stack, one task controller per login | sign in, register, log out, relaunch | logging out neither removes listeners nor clears the shared store |
| **Firestore client, writes** (`TasksTracker/Pods/FirebaseFirestore/Firestore/core/src/`: `remote/remote_store.cc`, `remote/stream.cc`, `remote/write_stream.cc`, `local/leveldb_mutation_queue.cc`, `core/sync_engine.cc`, `auth/firebase_credentials_provider_apple.mm`) | a mutation queue on disk per user, the pipeline, the write stream, callbacks | write, send, acknowledge, reject, change of user, network on and off, restart | answers are matched by position; tokens, callbacks and streams of different lives of a connection overlap; batch ids are used again |
| **Firestore client, listening** (same directory: `remote/remote_store.cc`, `remote/remote_event.cc`, `remote/online_state_tracker.cc`, `core/sync_engine.cc`, `core/view.cc`) | targets, the aggregator's pending responses, the online state, views | listen, stop, responses of the backend, timers | a response may be for an earlier request of the same target, told apart by counting; a timer set and cleared in a dozen places |
| **Task widget** (`TaskWidget/TaskWidget.swift`) | none; reads the shared store | `getTimeline` | which task is shown when; what happens when all deadlines have passed |
| **Stocks** (`Stocks/.../ViewController.swift`, `StocksClient.swift`) | all, suitable and selected stocks, image, activity indicator | load, search, select, image download | answers arrive out of order and on background threads |
| **IOSEx** tic-tac-toe (`IOSEx/IOSEx/ViewController.swift`) | 3x3 board, images of the cells | player move, computer move, restart | the end of a game, looked for twice in one handler; the random search for a free cell |
| **CommitsApp** (`CommitsApp/.../ViewController.swift`) | commits and authors in Core Data, filter | background fetch, filter | merge of fetched with stored commits, author lookup, saves that fail |
| **WidgetLab** (`CommitCheckerWidget/*`) | none | commit request, timeline | failing request, refresh policy |
| **MapKitDirection** | chosen transport, route overlays | direction requests | overlapping requests, stale routes |
| **CarouselApp** | trips with a like flag, reusable cells | like, remove | cell reuse against the trips array |
| **Showcase, InTouch, FancyApp, BlurApp, SocialApp** | widget state only | taps, sliders, mail composer | small, sequential |

## 2. How the parts interact

The task list, the reminders, the session and the widget share one Core Data
store (`CoreDataStack.shared`, app group container). The task list talks to
Firestore by calls that are queued for Firestore's worker and by callbacks that
arrive on the main queue. The session decides which user id a new task
controller's repository captures. The other applications share nothing.

Inside Firestore's client everything runs as operations on one worker queue.
Calls of the app and `FIRAuth`'s answers reach it through the main queue,
answers of the backend and timers directly. The write side and the listening
side share the code of `Stream`, the network switch and the local store.

What makes each part correct:

- task list: a confirmed change reaches Firestore and is not lost on the way,
  to a snapshot, a save or a crash; at rest the list shows Firestore's
  documents; the main thread comes back from `group.wait()`;
- reminders: none is pending without a row that can cancel it, none is shared,
  every listed row has one;
- session: the list on screen is the signed-in user's, a task becomes a document
  of the user who wrote it; a failed registration does not look like a successful
  one;
- Firestore's writes: each user's writes reach the backend in their order, with
  their own token, at least once and never after a newer one was acknowledged;
  a completion handler runs once and tells the truth; every write settles;
- Firestore's listening: a response counts for the request it answers; whether
  the client is online is told truly; every view catches up;
- widget: the shown task is the next one that is open;
- Stocks: at rest the labels and the logo belong to the selected row and the
  activity indicator has stopped;
- tic-tac-toe: `check()` is right, play stops when the game is over, the search
  for the computer's cell ends;
- CommitsApp: a commit is stored once and belongs to its author;
- MapKitDirection, CarouselApp: what is drawn belongs to the last choice.

## 3. The task list: `TaskSync`, `UploadContract`, `TaskSyncProofs`

### State and actions

| Model | Code |
|---|---|
| `mem`, `deleted`, `disk` | registered objects of `managedObjectContext`, its pending deletions, the rows of the store |
| `tasks`, `screen` | the fetched array; the open task screen or context menu with the row object or index it captured |
| `waiting`, `running` | main thread inside `group.wait()`; workers that have not left the group |
| `mainQ` | `group.notify`, snapshot listeners, listener errors and completions, on the main queue |
| `fsQ`, `view`, `unacked`, `listeners` | Firestore's client: queued calls, the documents as it shows them, unacknowledged writes, registered listeners |
| `minted` | document names and UUIDs, which are numbers in the order they are given out |

| Action | Code (`Views/Tasks/ViewController.swift`) |
|---|---|
| `OpenAdd`, `ConfirmAdd`, `Dismiss` | `openTaskViewController` and its callbacks, 228-252 |
| `Open`, `ConfirmEdit`, `MenuStatus`, `MenuCopy`, `MenuDelete` | 309-377 |
| `Worker` (`AddTask`, `UpdateTask`) | the block of each worker, 125-151, with `FirestoreTasksRepository` 41-67 |
| `WaitReturns`, `Notify` | 153-165 |
| `Snapshot`, `SnapshotError`, `Removed` | `loadSavedData` 165-200, the delete's completion 343-346 |
| `SwitchTab`, `PullToRefresh` | 44-47, 90-91 |
| `FsListen`, `FsSet`, `FsDelete`, `FsAck`, `FsReject`, `Remote` | Firestore and other devices, from the way the repository class uses them |
| `Crash` | the process dies anywhere; `viewDidLoad` runs again |

Each handler of the main thread is one step, because nothing else runs on that
thread meanwhile; the only other code that touches rows is the workers, which
run only while the main thread is blocked. Abstractions:

- A task's content (title, text, deadline, status) is one value. A row of a
  snapshot is the object named by its document; a row the application inserts
  is an object of `Draft`.
- The order of the list is left out. A row index that a menu took before the
  list was fetched again may denote any row.
- Workers of synchronized rows only enter and leave the group, so they are not
  in `running`.
- A snapshot batch-deletes the rows of the store. With the merge policy
  `NSMergeByPropertyStoreTrumpMergePolicy` later writes to such an object are
  dropped on save; a screen's `attached` says whether its object is still a row.
- `isNetworkEnabled` follows the network and is arbitrary at each deletion.
- A crash loses unsaved changes, listeners, callbacks and the calls Firestore's
  worker has not taken over; it keeps the store, the documents and the
  unacknowledged writes, without their completions. A failing index or forced
  cast is such a crash.
- The refresh control, the widget's reload and reminders are not in this module
  (reminders have their own).

### What the runs show

| Run | Bounds | Properties |
|---|---|---|
| `task_user` | empty cloud, two contents, one draft object, two user operations, with fairness | `MainUnblocks`, `ConfirmedLands` |
| `task_faults` | one shared document, one operation; either one remote change and one rejected listen, or one crash | `ConfirmedIsSafe`, `SettledMirrors`, `OnlySnapshotDetaches`, `ImplementsContract` |

Two operations are enough for a second sync to overtake the callbacks of the
first, for a screen to stay open across every kind of callback, and for a row
to be edited before a snapshot replaces the one that was added. Two contents
tell an edit from what it replaces; a third operation or content repeats the
situations of the second.

- `ConfirmedIsSafe`: rows with a confirmed change exist only while the main
  thread is blocked, on disk as confirmed, and with a worker. This is why the
  snapshot handler, which deletes all rows, destroys no confirmed change. It is
  the only protection: with `group.wait()` gone (`NoWait`) TLC finds the loss.
- `SettledMirrors`: with all queues empty and a listener alive, the list shows
  exactly Firestore's documents, but for blank drafts and rows deleted since the
  last snapshot.
- `OnlySnapshotDetaches`: an open screen loses its object only to a snapshot or
  to the user's own deletion.
- `ImplementsContract`: `TaskSync` implements `UploadContract`, where a change
  is owed to the server until a call carries it. The refinement maps `owed` to
  the rows that are not uploaded and `calls` to `fsQ`.
- `MainUnblocks`, `ConfirmedLands` (liveness): see fairness below.

What the code does not promise, and the model shows it doing: an edit confirmed
after a snapshot replaced the row is dropped; a draft whose screen was dismissed
is saved and uploaded as a blank task; a row that was added carries a UUID that
is not its document's name until a snapshot replaces it, so an edit in between
makes a second document and a deletion deletes none; a task deleted offline
comes back with the next snapshot; a crash between the workers and the save of
`group.notify` uploads rows twice; a call that Firestore's worker has not taken
over when the process dies after that save is lost.

### Fairness

`FairSpec` adds weak fairness of the workers, the return of `group.wait()`, the
callbacks of the main queue and Firestore's worker: GCD and Firestore run the
blocks they were given. There is none for the user, the server's
acknowledgements, rejections, other devices or crashes.

### Proofs

`TaskSyncProofs` proves, for every `Text`, `Draft` and every bound:

- `TypeCorrect`: `TypeOK`;
- `ConfirmedChangesAreSafe`: `ConfirmedIsSafe`;
- `UploadKeepsContract`: `Spec => ImplementsContract`;
- `DetachedBySnapshot`: `OnlySnapshotDetaches`;
- `ListMirrorsDocuments`: `SettledMirrors`.

From the assumptions that `Blank` is no content of `Text`, that drafts are not
document names and that the bounds are naturals. The inductive invariant `Inv`
is the typing, split by component, with `ConfirmedIsSafe` and `Group`. `Group`
adds what `ConfirmedIsSafe` alone lacks to be inductive: once the main thread is
free no worker is left, so no row is unsent when a callback or a handler of the
user runs. One lemma per action preserves `Inv`; lemmas about `Saved` and
`StartSync` (`SyncIsSafe`, `IdleSave`) are shared by the handlers that end in a
sync or a save. For the refinement `WorkerPays` shows that a worker removes
exactly one debt with the call it appends, and `CrashForgetsNoDebt` that what
is owed is on disk.

`SettledMirrors` speaks of rest only; what leads to it is `Fed`, inductive beside
`Inv` and `UnsavedIsNew` (a row that no save has written is blank). As long as a
listener is alive, the last snapshot on the main queue is of the documents as they
are (`LatestIs`), and if none is queued the list mirrors them (`Mirrors`): every
document has a row or was deleted since, and every row is blank, not handed over, shows
its document, or waits for a call that Firestore has not taken (`Explained`). Each
change of the documents appends a snapshot; a handler that runs before it may
leave any list, since that snapshot replaces it.

Only model-checked: the two liveness properties, which need the fairness.

## 4. Reminders: `TaskReminders`, `TaskRemindersProofs`

A reminder is a request in `UNUserNotificationCenter` (`center`) and its
identifier in a row (`mem`, `disk`; 0 for none). Of a row only the identifier is
kept. All that remains of synchronisation is that a snapshot of any documents
may arrive when the main thread is free. Two handlers make requests, and both
are cut into steps (`handler`), because the process may die between them:

- the snapshot handler (176-199): `SnapshotCancels`, `SnapshotReplaces`, one
  `Rearm` per row, `SnapshotEnds`. It cancels before it replaces the rows, and
  saves the new rows before it writes their identifiers;
- the button of a task screen (233-239 and 314-319): `createNotificationRequestFor`
  removes the request of the row's identifier (`ConfirmCancels`, 272), adds one
  under a new UUID and writes it into the row (`ConfirmAdds`, 274-275), and the
  action saves after it (`ConfirmSaves`, 238 and 317).

The other user actions and callbacks are one step each; `Save` stands for every
handler that only saves. `Fire` is iOS delivering a request, also between two
steps of a handler.

Three history variables: `lost` collects the requests that the code gives up,
those of rows the user deleted, of objects whose row was gone when the user
confirmed, and those a crash left without a saved identifier; `cut` the stored
identifiers whose request a handler had cancelled when a crash cut it off before
its save; `fired` the delivered requests.

| Run | Bounds | Properties |
|---|---|---|
| `reminders` | two documents, one draft, four requests, one crash | `NoSharedReminder`, `RemindersAreAccounted`, `ListedAreReminded`, `StoreIsNotStale` |

Four requests let a snapshot of two documents arm its rows and a second one
cancel and arm both again, or the user confirm a screen between two snapshots,
and the process die between any two steps. Documents and drafts are
interchangeable (symmetry).

- `RemindersAreAccounted`: every pending request is named by a row or is in
  `lost`: a snapshot, which deletes all rows, leaks none.
- `NoSharedReminder`: no identifier is in two rows, nor in a row and in an object
  a screen still holds; so cancelling one reminder never cancels another.
- `ListedAreReminded`: without a crash, every row of a snapshot has a pending or
  delivered request.
- `StoreIsNotStale`: a stored identifier names a request that is pending or was
  delivered. Two exceptions, and no others: the rows whose request the running
  handler has cancelled and which it has yet to save (`Unsaved`), and those that
  a crash caught there (`cut`). After such a crash the relaunched list shows a
  row whose identifier names nothing and which has no reminder (and the request
  made for it, if any, is in `lost`), until the next snapshot or edit gives it a
  new one. What the property excludes is every other way there: a request
  cancelled through another row's or a detached object's identifier, or a save
  that is missing or comes too early.

The code also keeps the reminder of a deleted task, and makes reminders for
completed tasks in the snapshot handler though not in `saveCurrent`; no text says
which is meant, so no property forbids it.

`TaskRemindersProofs` proves all four, and `TypeOK`, for all finite sets of
documents and drafts and all bounds (`RemindersAreNotShared`, `NoReminderLeaks`,
`RowsAreReminded`, `StoreIsCurrent`, `TypeCorrect`). The inductive invariant adds: identifiers in the
store are distinct too (`Distinct(disk)`, or a crash would undo it); the context
holds every row of the store, with the same identifier unless the store has none
or the button's handler has yet to save (`ContextHoldsStore`); rows that
were never saved have no identifier (`UnsavedHaveNone`); every row in the context
names a pending or delivered request unless the running handler has just
cancelled it (`RowsNameRequests`, from which `StoreIsNotStale` follows); rows
still to be armed are saved without an identifier (`TodoIsUnarmed`); the requests
of pending deletions are already in `lost` (`DeletedAreLost`), between cancelling
and replacing nothing but `lost` is pending (`CancelledFirst`), and the button's
handler adds a request only when the old one is gone (`ConfirmedIsCancelled`).
`ListedAreReminded` is inductive together with what holds inside the handlers
(`Armed`): the rows a handler is through with have their reminder already. No
later step takes it, because identifiers are not shared.

## 5. Stocks: `StocksScreen`, `StocksScreenProofs`

Two threads: the main thread (UI events and blocks of `mainQ`) and URLSession's
delegate queue. Both write `selectedStock` and `suitableStocks`, whose `didSet`
observers read them again, so `main` and `background` say where in a handler
each thread is, and the other may step in between write, read and the blocks
posted after it. Each access is atomic in the model; Swift does not promise that
for racing accesses to a struct, and torn values are not modelled. `pending`
holds the requests under way in the order they were made; answers arrive in any
order, or fail. `symbol` is `StocksClient.symbol`, from which the logo's address
is built too. A stock is its symbol; `Listed` stands for the service's list, or
the built-in one if the request fails; a search keeps some of it, in its order
(`Filters`). `Trap` is a failed force unwrap or index
(76, 79), after which the process is dead; the properties below are about the
living one.

| Run | Bounds | Properties |
|---|---|---|
| `stocks` | two stocks, two user actions, made while no request is under way (so up to three selections are answered together), with fairness | `SpinnerSettles`, `LabelsFitRow`, `PictureFitsLabels`, `SpinnerStops` |
| `stocks_unwrap` | one user action at any time | `StocksAreLoaded`, violated |

`history` records whether an answer overtook an earlier request of its kind and
whether a picture failed. If neither, then at rest the labels show the stock of
the selected row or nothing (`LabelsFitRow`), and the logo is theirs
(`PictureFitsLabels`) although its address is built from the symbol last asked
for. Both except a search that found nothing: the code then leaves the answer of
an earlier selection on screen. Overtaking answers do show the wrong stock; the
code keeps no request number. `SpinnerSettles`: at rest the activity indicator runs only
if the search found nothing, when the block at 76-78 returns before it asks for
anything. Fairness: both threads keep running and URLSession answers or times
out.

Finding: clearing the search text before the list has arrived (`onChanging`,
151-155) assigns the still nil `allStocks`; the observer schedules the block that
force-unwraps `suitableStocks` at 76, and the process dies. Deadlock checking is
off: a dead or idle application stops.

`StocksScreenProofs` proves `TypeCorrect` and the three invariants of the run
(`IndicatorSettles`, `LabelsAreRight`, `PictureIsRight`) for any list of stocks, any
number of user actions and any number of requests under way when they are
made. The only assumption on the list is that it is a finite sequence of stocks. All
three speak of rest, so the invariant says what is still to come when there is none:

- `Listing`: the picker shows `suitableStocks`, or the block that reloads it is queued.
- `Stopping`: if nothing is under way that will ask again (`Busy`), a running indicator,
  and every queued block that starts it, has a block that stops it, or one that
  sends a request, after it on the main queue (`Followed`).
- `Fitting`: once the selected row has been asked for (not `Unasked`), `symbol` is its stock
  and, unless an answer was overtaken, either the last request under way is for it
  (`Waiting`) or its answer has come (`Told`): `selectedStock` is that stock or none, and
  whichever thread is between writing it and reading it back, the last block queued
  for the labels, or the labels themselves, show it (`Labelled`), and the last
  request or block of a picture, or the picture itself, is its logo (`Pictured`).

`Busy`, `Unasked` and `Told` are why the two threads do no harm: while one of them is
between write and read, what it will post is still to come. `Asks` and
`StaysFitting` carry this through the actions; `AppendEnds`, `RemoveEnds` and their
like are about queues. The model writes the search's filter with indices, because
`SelectSeq` is recursive and nothing can be proved about it here. Only
model-checked: `SpinnerStops`, which needs the fairness.

## 6. Tic-tac-toe: `TicTacToe`

A tap is one handler: the player's mark, the checks, the computer's random mark,
the checks. It appears as three actions for its three ways to end
(`PlayerWins`, `PlayerDraws`, `CompAnswers`); alerts are modal. All nine cells
are taken to stay on screen, being thirds of the collection, so only a reload
(`Restart`) clears them. The run covers every game. `CheckIsRight` compares
`check()` with a definition of a straight line by coordinates; `SearchEnds`
says that the random search never runs on a full board; `OpenBoardIsUndecided`
relates the board to the alert. The state space is finite
and fully explored, and the module has no constants, so a proof would say no more
than the run.

## 7. The session: `Session`, `SessionProofs`

Signing in pushes a tab bar with a new task controller, whose repository reads
`Auth.currentUser` once; logging out pops it. Neither touches the store, which
all controllers share, nor the listeners of the controllers that went before.

| Model | Code |
|---|---|
| `user`, `requests` | `Auth.currentUser`, which survives a relaunch; authentication requests not answered yet |
| `stack`, `lists`, `syncing` | what is pushed on the authorization screen: registration screens and task lists; the lists ever made, each with its owner and the rows it shows; the list whose `group.wait()` blocks the main thread |
| `rows`, `disk`, `docs`, `listeners` | the shared view context and store, Firestore's documents with their owner, live listeners |
| `author`, `source`, `overlapped` | histories: in whose list a task was entered, the list whose snapshot filled the store last, whether two authentications were ever under way at once |
| `expelled`, `stranded` | histories: a refused token signed the last user out; tasks waiting in the store when the process died with nobody signed in |

| Action | Code |
|---|---|
| `TrySignIn`, `SignedIn`, `Refused` | `AuthorizationViewController` 113-126 |
| `OpenRegistration`, `TryRegister`, `Registered`, `Back` | 129-131; `RegistrationViewController` 36-40, 91-109 |
| `LogOut` | `SettingsViewController` 32-35; a failing `signOut` is ignored |
| `AddTask`, `EditTask`, `Upload`, `Notify`, `Snapshot`, `SnapshotError` | the task list, coarser than in `TaskSync` |
| `Answer`, `Reject`, `Remote` | Firebase and other devices |
| `TokenRefused` | `FIRUser.m` 996-1014, 1476-1484: the server refuses to renew the token that Firestore's streams ask for, and Firebase Auth signs the user out; no screen is told |
| `Crash` | `SceneDelegate` 16-36: a relaunch opens the list of the user who is signed in |

A task here is a row or document with an owner. What section 3 models is coarse:
opening, filling in and confirming a screen is one step, an upload is one step
between which and the next the process may die, Firestore's own queue is left
out (a write is visible at once) and so is a document's name that differs from
its row's. Firebase's restart of a listener under new credentials is not
modelled; listeners keep answering for the user they asked for. Text fields and
alerts are left out.

| Run | Bounds | Properties |
|---|---|---|
| `session` | two users, two authentications, one task entered or edited, one change on another device, rejected listener or refused token, one relaunch | `ListIsTheUsers`, `StoreIsOneUsers`, `TasksGoToTheirAuthor`, `OnlyUnfilledListsMoveDocuments` |

Two authentications are a double tap, or a change of user with the first one's
listener alive under the second one's list.

- `ListIsTheUsers`: unless authentications overlapped, the visible list is
  that of the signed-in user, or of a user whom a refused token signed out under
  it: the application observes no authentication state, so the list stays and
  goes on saving for that user until it is left.
- `TasksGoToTheirAuthor`: unless authentications overlapped, a new task becomes
  a document of the user in whose list it was entered, across log-outs, refused
  tokens and relaunches. Two kinds of tasks are excepted: those entered in a list
  that captured nobody, which a sign-in whose token is refused before its callback
  makes, and those saved but not uploaded when the process died with nobody signed
  in. The list of the next user to sign in uploads both as its own.
- `StoreIsOneUsers`: at rest the store holds exactly the documents of the user
  whose list's snapshot came last, as long as its listener lives.
- `OnlyUnfilledListsMoveDocuments`: an upload moves a document to another user
  only from a list that shows rows of another list's snapshot.

The exceptions are needed (TLC finds a trace that breaks the property without
`overlapped`, `expelled` or `stranded`; the list that captured nobody takes a third
authentication), and the last property is no vacuous one: a second tap
before the sign-in answers pushes a second list, whose owner is whoever is
signed in when its callback runs, possibly nobody; and between a log-in and the
new list's first snapshot, or after a snapshot of the former user's listener,
the list shows the former user's rows, whose edit writes the new user into
their documents.

`SessionProofs` proves all four, and `TypeOK`, for any users and bounds
(`VisibleListIsTheUsers`, `NewTasksGoToTheirAuthor`, `StoreHoldsOneUser`,
`OnlyForeignRowsMove`, `TypeCorrect`). For the first two the invariant adds to the typing, as long as nothing
overlapped: at most one authentication is under way and none while a list is on
top (`OneAtATime`), only the top screen can be a list and its owner is the
signed-in user or one expelled (`OneList`), and rows that are not uploaded, but
for the excepted ones (`Strays`), are in the context only while the main thread is
blocked, in the store only under a visible list, and entered in that list
(`Entered`).

`StoreIsOneUsers` needs nothing about overlapping: for every live listener the last
snapshot it has queued is of its owner's documents as they are (`Current`), and, if the
list that filled the store last has a live listener, then the store holds its
owner's documents or something is queued that will fill it again: a snapshot, or
the end of a sync (`Filled`). `OnlyUnfilledListsMoveDocuments` follows from
`Unmoved`: a visible list filled by its own snapshot knows only documents of its
user, and so do the snapshots its listener has queued.

## 8. CommitsApp: `CommitsStore`, `CommitsStoreProofs`

The stored commits are listed while a background thread fetches the latest; one
main-queue block inserts them (`configure`), saves, and lists again. `disk` and
`mem` are the store and the view context, `phase` says how far this launch's
fetch is, `MergeFetched` is the block with its save that may fail,
`ChangeFilter` the action sheet, `Relaunch` the end of the process and
`viewDidLoad`. The order of the list and the detail screen are left out. What
`configure` computes one commit at a time is written in closed form: because
the author is looked up under a misspelt key, every commit gets an author of
its own up to the first one whose committer has the empty name.

The run `commits` has three commits, one nameless, two per answer and three
launches: a commit is fetched again with and without the nameless author in
the store, and after a failed save.

- `ListFitsFilter`: the table shows the rows of the context that fit the filter,
  whenever it was chosen.
- `OncePerCommit`: a commit is stored once; it is listed once unless this
  launch's save failed, which the code prints and ignores.
- `AuthorIsCommitter`: unless an author with an empty name was inserted, every
  row's author has its committer's name. After one, all later commits are theirs.
- `FirstFetchStays`: a stored row keeps the author and the date of its first
  fetch, the moment of the fetch, as the date's key is misspelt too.

`CommitsStoreProofs` proves all of them for any commits and committers. The
invariant adds that the context is the store unless a save failed (`Clean`)
and that the store's rows have authors of the right name too (`Named(disk)`),
for a relaunch returns to them. `FreshIsLeast` gives the closed form its
witness; `ConfiguredKeeps` and `SavedKeeps` are about inserting and saving.

## 9. MapKitDirection: `MapDirections`, `MapDirectionsProofs`

A tap on the button or a change of the segmented control asks for directions
with the chosen transport; answers come in any order or fail, and the map asks
for a route's colour (`Render`) some time after it was added. The run
`map_directions` allows four requests, so that two answers may be overtaken.

- `LatestRouteFits`: the route of the latest request is of the transport in
  force and in its colour. A route of an earlier request may be neither: the
  code neither cancels requests nor tells their answers apart.

It is proved for any number of requests, and so are, without a run of their own, that there
is one route at most (`OneRoute`) and that the control, once visible, shows the
transport in force (`ControlShowsTransport`). The invariant adds that request
numbers never exceed the latest, that a request with the latest number has the
transport in force, and that the control is visible only once the place is known.
Deadlock checking is off: once the bound on requests is spent and everything has
been answered and drawn, the model stops.

## 10. Firestore's client: what the two modules share

`FirestoreWrites` and `FirestoreWatch` model the client's two halves. Everything
in it runs as one operation at a time on its worker queue, so every operation is
one action, and the functions it calls are operators that take the client's state
and return the next one: `Listen(c, t)`, `Close(c, status)`. A failing
`HARD_ASSERT` aborts the app; `failed` remembers it.

`FirestoreStream` is what both halves inherit from `Stream` (`remote/stream.cc`):
its five states, the close count that outdated callbacks are compared with, the
call of `GetToken`, the backoff and the idle timer, and the requests (`up`) and
answers (`down`) on their way over gRPC. A half instantiates it by EXTENDS and
adds what its listener does when the stream opens and closes.

| Model | Code |
|---|---|
| `StartStream`, `EndBackoff`, `InhibitBackoff`, `MarkIdle`, `Send`, `Open`, `CloseStream` | `stream.cc` 84-321 |
| `Stale`, `asking`, `Answered` / `RunToken` | the close count captured by `RequestCredentials`, 114-125 |
| `RunBackoff`, `RunIdle` | the delayed operations of the worker queue |
| `StreamBreaks` | `GrpcStream::OnOperationFailed` |

What is assumed of the surroundings, in both: a cancelled timer never runs (the
worker queue promises it); gRPC delivers what a stream carries in order, and a
closed stream delivers nothing more, in either direction; the backend ends a
stream with an error, never with OK (if it did, the assertion in
`OnWriteStreamClose` that a stream which is still needed ends with an error would
abort the app); `InhibitBackoff` and the length of delays matter only through the state
`Backoff`. Stream tokens, resume tokens and the wording of errors are left out.

## 11. Firestore's writes: `FirestoreWrites`, `WriteContract` and their proofs

| State | Code |
|---|---|
| `client.queue`, `nextId` | the mutation queues in LevelDB, one per user, and the next batch id |
| `client.pipeline`, `network`, `stream`, `handshake` | `RemoteStore`, `WriteStream` |
| `client.callbacks`, `told`, `fresh` | completion handlers registered by user and batch id; what they were told; the writes of this run of the app |
| `worker`, `main`, `asking` | the worker queue, the main queue, `GetToken` calls in `FIRAuth` |
| `account`, `credentials` | `FIRAuth`'s user; the credentials provider's user and counter |
| `by`, `backend` | for whom each write was made; what the backend applied, and last for each user |

| Action | Code |
|---|---|
| `AppWrites`, `RunWrite` | `SyncEngine::WriteMutations`, `LocalStore::WriteLocally`, `FillWritePipeline` |
| `AccountChanges`, `CredentialsNotified`, `RunCredentialChange` | `FIRAuth`'s notification, the provider's block, `FirestoreClient`'s listener and `RemoteStore::HandleCredentialChange` |
| `AuthTakesCall`, `AuthGivesToken`, `AuthFails`, `TokenAnswered`, `RunToken` | `GetToken` and its way back, with the counter that asks again |
| `BackendHandles`, `RunAnswer` | the backend; `OnWriteStreamMutationResult`, `HandleWriteError` |
| `StreamBreaks`, `ConnectivityChanges`, `DisableNetwork`, `EnableNetwork`, `Crash` | failures; the process may die between any two operations |

A write is a number in the order the app makes it, by the user the app was last
told of. Which writes the backend turns down is fixed (`Refused`); it ends the
stream at such a write, with a permanent error. Every answer can be read: an answer
that cannot be parsed, for which the client ends the stream itself (`stream.cc` 210-217),
is left out on both streams. Errors of the handshake,
transactions, `waitForPendingWrites`, termination and what a write does to the
documents are left out. A write that was on its way on a stream that was closed
never arrives later: a request the backend had already received is taken to be
handled before the stream's end.

`firestore_writes`: two accounts, three writes of which the second is refused, a
pipeline of two, one change of account (or token refresh), one failure or network
switch, one crash. With these a write is sent, applied and lost before its answer
comes; the account changes while a token is fetched; a batch id is used again
after a restart; a refused write stands behind or before another, and a third one
waits until the full pipeline has room. To stay within a quarter of a million states
`MCFirestoreWrites` has the third write only in the runs with at most two of the
account change, the failure and the crash (the constraint `ThirdWriteInCalmerRuns`);
two writes go with all three of them. The constraint cuts off only writes of the app,
changes of account, failures and crashes, none of which has fairness, so a run it keeps
is fair as it would be without it.

- `NoAssertFails`: no assertion of the write side fails.
- `PipelineHeadsQueue`: the pipeline is the beginning of the signed-in user's
  queue, so that the answer to its head settles the queue's head. With the network
  on it holds all of the queue it has room for: nothing but an answer, a write,
  a new user or the network coming back looks whether it should be filled.
- `AnswersMatchPipeline`: answers carry no batch id; what is on the way in both
  directions is the pipeline.
- `SentAsOwner`: a write goes out only with the token of the user it was made for.
  It is the restart of the streams on a credential change that keeps it true.
- `CallbacksAreTrue`: a completion handler runs when its write leaves the queue,
  and is told what the backend did with this very write.
- `IdleTimerFits`: an open stream is timed for closing exactly while it has
  nothing to send.
- `QueueIsServed`: with the network on, a write in the user's queue is never left to
  nobody: the stream waits for a token which is on its way, or for the end of a
  running backoff, or is open with a request or an answer on its way. It is what
  `EveryWriteSettles` rests on, but holds in every state and without fairness.
- `LastWriteStays`: a write is sent again when its answer is lost, and a second
  application of an old write undoes newer ones for a while. Once the user's
  queue is empty, what the backend applied last for this user is the newest write.
- `ImplementsContract`: `WriteContract` knows no streams, tokens or retries: a
  user's writes are owed in order, applied at least once, none after a newer one
  of the same user has left the queue. The refinement maps `owed` to the queues.
- `EveryWriteSettles` (liveness): a queued write leaves the queue, unless somebody else
  signs in or the network is turned off.

Fairness: both queues run what they hold, timers elapse, `FIRAuth` and the
backend answer. Crashes, failures and the app have none. Each line is weak
fairness of an action with its condition written out, because TLC's evaluation of
ENABLED is slow for nested operators. Deadlock checking is off here and in
`FirestoreWatch`: once the bounds are spent a client that owes nothing stops.

### Proofs

`FirestoreWritesProofs` proves, first, for any accounts, any pipeline size and any bounds:

- `WritesNeverAbort`: `NoAssertFails`;
- `PipelineIsHead`: `PipelineHeadsQueue`, and `PipelineIsAlwaysFull` its last part
  alone;
- `AnswersAreMatched`: `AnswersMatchPipeline`;
- `IdleTimerIsRight`: `IdleTimerFits`;
- `TypesAreRight`: `TypeOK`, which no run checks besides.

All follow from `Invariant`, `Spec => []IInv`. The parts of `IInv`:

- `Sound` of the client. `Sane` holds at every point inside an operation: typing, no
  failure so far, a stream whose timers fit its state, queues in the order of their
  ids and below `nextId`, a pipeline within its limit that agrees with what is on
  its way in both directions (`OnWire`), a started stream only with the network
  on, a pipeline only with a started stream, the idle timer only after the
  handshake and with an empty pipeline. Between two operations the pipeline is
  also the beginning of the queue (`Prefixed`), an open stream with nothing to
  send is timed (`IdleFits`), the network off means an empty pipeline, and the network
  on means that it is filled and, unless empty, its stream started (`Served`).
  `PipelineHeadsQueue` alone is not inductive: an answer takes the head of the
  pipeline and the head of the queue by two different calls, and only the order of
  the ids and `OnWire` make them the same batch.
- `TokensFit`: no two tokens on their way (in `FIRAuth`, on the main queue, on the
  worker queue) carry the same close count, and one that is not stale finds the
  stream waiting for it. Without it a token could open an open stream. It is
  preserved because a step either leaves a waiting stream alone or increases the
  count (`Follows`).
- `WritesFit`: the writes waiting on the worker queue are in order and not older
  than `nextId`, so no queue gets two batches with the same id.

There is one lemma per operation (`CloseSound`, `FillSane`, `ResultRight`,
`ShakeSound`, `CredentialSound`, ...) and one per action (`...Keeps`).

A second part of the module proves, with the same generality:

- `WritesSentAsOwner`: `SentAsOwner`;
- `HandlersAreTrue`: `CallbacksAreTrue`;
- `ClientKeepsContract`: `Spec => ImplementsContract`.

`OInv`, inductive beside `IInv`, follows a user through the system:

- `RowsOwned`: each queue holds writes made for its user; `StreamOwned`: an open
  stream has the token of the client's user, and carries only its handshake
  until that is answered. No operation breaks them, which `Obeys` says of each: it
  brings no write into a queue and no token into a stream. That part needs
  nothing of `IInv`.
- `WorkerOwned`: a write or token waiting on the worker queue is for the user in
  effect when it will run (`InEffect`, the last change of credentials before it), and the
  last user there is the provider's.
- `MainOwned`: the last user on the main queue is `FIRAuth`'s, and an answer which
  the provider's counter will let pass is for the provider's user. This is
  what the counter is for: a call taken up after `FIRAuth` has changed its user
  is answered behind the notification, so the counter has moved on when the answer
  is looked at.

The write that goes out is then the pipeline's (`IInv`), hence of the client's
user, hence of the token's.

`CInv`, inductive beside both, relates the queues, the callbacks, the answers on
their way and the backend:

- `CallbacksFit`: a callback waits for a row of its user's queue, and the rows this
  run of the app has stored have theirs. Batch ids are used again, so that the
  callback found by its id is the right one needs the order of the ids in
  `IInv`, and that the id of a new batch finds none needs that ids in use are
  below `nextId`.
- `WaitingAreQueued`: a write that nobody was told about is in a queue.
- `Past`: whatever is queued, told or applied was made before every write that
  still waits on the worker queue, so a new row is the newest of all queues
  (`Increasing`) and new to the backend.
- `ToldTrue` and `AnswersTrue`: what the callbacks were told, and what the answers on
  their way say, is what the backend did; of an applied write, also that the
  backend has applied nothing older of that user since.

`StepKinds` sorts the steps: one settles the first row (`Settled`), stores a
row (`Stores`), has the backend handle the next row or the handshake (`Handles`),
or leaves queues, callbacks and backend alone (`Still`, which `Leaves` says of each
operation). Settling is `Settle` of the contract, because the answer read is the
one to the first row (`AnswerIsHead`, from `PipelineHeadsQueue` and the
matching of the answers); storing is `Store`; handling is `Apply`, because every row
before the one handled has an answer on its way that says it was applied;
everything else, a crash too, changes nothing the contract sees.

The rest is proved from these invariants:

- `WritesAreNeverStuck`: `QueueIsServed`. `TokenIsDue`, inductive beside `IInv`, says
  that a stream which waits for a token has one on its way with its close count: in
  `FIRAuth`, on the main queue or on the worker queue. The provider's counter may
  send it back to `FIRAuth`, but no step drops it. The backoff and the open stream
  follow from `Served` and `OnWire`.
- `NewestWriteIsLast`: `LastWriteStays`. `NInv`, inductive beside the three, says of an
  applied write that it is still queued, or else older than all that is queued for its
  user and not newer than the last one applied (`Stays`). A handled write is the newest
  ever applied or a repetition of one that is queued; a write leaves the queue only
  with the answer to it, and the answer says (`AnswersTrue`) that nothing older has been
  applied since.

Only model-checked: `EveryWriteSettles`, which needs the fairness.

## 12. Firestore's listening: `FirestoreWatch`, `FirestoreWatchProofs`

| State | Code |
|---|---|
| `client.listening`, `network`, `aggregating`, `stream` | `RemoteStore`'s `listen_targets_` and aggregator, `WatchStream` |
| `client.states`, `resets` | `TargetState` in `WatchChangeAggregator`: pending responses (`due`), changes, the mark of current; the targets to be reset. `kept` is history: the mark stood when the target was watched again |
| `client.online`, `failures`, `timer` | `OnlineStateTracker` |
| `client.view` | `SyncEngine` and `QueryListener`: absent, waiting (nothing shown yet), cached, synced |
| `client.sent` | history: the watch requests of each target on this stream |
| `backend` | what the open stream's backend watches, and whether it has told something since its last snapshot |

| Action | Code |
|---|---|
| `AppListens`, `AppStops` | `SyncEngine::Listen`, `StopListening`, `RemoteStore::Listen`, `StopListening` |
| `TokenArrives`, `TokenFails` | `ResumeStartWithCredentials`, `OnWatchStreamOpen`: every target is watched again, in the order of a hash table |
| `RunAnswer` | `OnWatchStreamChange`, the aggregator's `HandleTargetChange`, `HandleDocumentChange`, `HandleExistenceFilter`, `RaiseWatchSnapshot` |
| `RunOnlineStateTimer` | `OnlineStateTracker` 64-79 |
| `BackendTakes`, `BackendIsCurrent`, `BackendChanges`, `BackendFilters`, `BackendSnapshot` | the backend (external) |
| `StreamBreaks`, `NetworkRestarts`, `DisableNetwork`, `EnableNetwork` | failures, the connectivity monitor or a change of user, the app |

Assumed: a view starts with nothing in the local cache; no two queries share a
target and none has limbo documents; the backend answers each watch of a target
with ADDED or an error, and each unwatch of a target it watches with REMOVED, and
ends what it tells with a snapshot for all targets. It never sends the target change
RESET (`remote_event.cc` 182-190), and the versions of its snapshots never go back, so
that the guard at `remote_store.cc` 282-283 always holds; no message fails to be read
(`stream.cc` 210-217). Documents, their diffs, garbage
collection and persistence are left out; `changes` keeps of a target's pending
changes only which request they answer. `MaxUnread` bounds what is on its way to
the client; the backend waits. With one message under way it can still be
ahead by any number of requests in `up`, which is what counting is about.

| Run | Bounds | Properties |
|---|---|---|
| `firestore_watch` | two targets, one of them refused, three listens, one failure or network switch, one document change, one filter that does not match, with fairness | `NoAssertFails`, `AcceptedAreFresh`, `OnlineIsHonest`, `ViewsCatchUp` |
| `firestore_watch_unknown` | two listens, no failure, fairness of the client alone | `UnknownEnds`, violated |

- `NoAssertFails`: no assertion of the remote store, aggregator, tracker or
  stream fails.
- `AcceptedAreFresh`: by counting responses alone, the aggregator never takes
  what was sent for an earlier listen of a target, a change or its CURRENT, for an
  answer to the latest. The property names its exception: a mark of current taken
  before the target was watched again (`kept`) stays, see below.
- `OnlineIsHonest`: online only while the stream is open; while offline no
  listener holds its snapshot for the backend's or waits for a first one.
- `ViewsCatchUp` (liveness): a view that is behind catches up, or its target is turned
  down, unless the app stops listening or the network is turned off.

Three listens to two targets make one of them listened to, stopped and listened
to again with the first request unanswered, while the other keeps the stream open;
a filter resets a target between them. Fairness: timers elapse, what was read is
handled, `FIRAuth` answers and the backend sends what it has.

Finding: `StopListening` of the last target while the stream still waits for its
token calls `UpdateState(Unknown)`, which clears the tracker's timer
(`remote_store.cc` 187, `online_state_tracker.cc` 108). The stream stays `Starting`, so
the next `Listen` neither starts it nor sets the timer. If neither token nor
backend answers, the state stays Unknown for good, though `query_listener.cc` 138
and `online_state_tracker.cc` 46 say that it becomes Offline after the timeout; a
listener with an empty cache gets no first event. `firestore_watch_unknown`
shows it under fairness of the client's own timers alone.

The mark that `AcceptedAreFresh` excepts contradicts a comment too: a target
stopped and listened to again over an open stream, before REMOVED has come, keeps
its mark of current, and so does one reset by a filter for which a CURRENT comes
before the snapshot that watches it again. ADDED then resets only the pending
changes (`remote_event.cc` 88-91), while the comment at 158-160 speaks of resetting
"any state that we had previously". `View` takes the mark for the backend's, so the
new view may be called synced before the backend has answered its request. Without
`kept` TLC finds `AcceptedAreFresh` violated in 13 steps: listen, CURRENT, stop,
listen, REMOVED, ADDED.

Other things the model shows the code doing, which no text forbids outright:
enabling a network that is
enabled sets the online state to Unknown while the stream is open, until the
next answer; a stream that opens when nothing is listened to any more is never
marked idle and stays open.

### Proofs

`FirestoreWatchProofs` proves, for any finite set of targets and any bounds:

- `NeverAborts`: `NoAssertFails`;
- `OnlineStateIsHonest`: `OnlineIsHonest`;
- `ChangesAreFresh`: `AcceptedAreFresh`;
- `TypeCorrect`: `TypeOK`, which no run checks besides. It says that no count of
  responses goes below zero, though the code decrements without looking.

The first two follow from `Invariant`, `Spec => []IInv`. `IInv` has four parts. `Sound` of the
client is `Sane`, which holds at every point inside an operation (typing, no
failure so far, the timers fit the stream's state, a view is absent exactly when
nobody listens, the online timer runs only in Unknown without failures, the idle
timer only without targets), with `Linked`, which holds only between two
operations (the aggregator exists exactly while the stream is started, the online
timer implies a started stream, online implies an open one, and with the network on
and a target the stream is started). Neither property is inductive without it:
that a failing stream never meets a running timer needs the link of timer and
stream, and that the idle timer never closes a needed stream needs its link
to the targets. `AskingSafe` says that an unanswered `GetToken` call whose close
count is current belongs to a stream that waits for it, without which a token
would open a stream in another state; it is preserved because every step
either leaves such a stream alone or increases the count (`Follows`).
`BackendSafe` keeps the backend from talking on a closed stream. There is one lemma per
operation (`ListenSound`, `StopSound`, `CloseSound`, ...), and `PerformKeeps`
carries each over to the actions that end in `Perform`. `SetClient` and `SetStream`
are the typing of record updates the others rest on.

The other two need an invariant that relates the counts to all that is on its way,
`Fresh` (`CountsAreRight`). While the stream is open, for each target that the backend
accepts (`Fits`):

- `due` is at least the number of its requests in `up` and of their responses in
  `down` together (`Amount`). Only this direction is needed: a count that were too
  high would make the aggregator ignore changes, not take wrong ones.
- If it is listened to, the last request in `up`, or without one the watch the
  backend has, carries its latest number (`Aimed`).
- The changes and the CURRENT in `down` behind its last response are of the watch the
  backend has (`Carried`).
- If nothing is due, the changes taken so far are those of the latest number.

Besides, for every target and whatever is due, its mark of current is of the latest
number or was kept (`Marked`).

A change or a CURRENT is taken when nothing is due: then by the first part nothing of
the target is under way, by the second the backend has its latest watch, and by the third
what is taken is of it. The number changes only with a new watch, which sets `kept`
if there is a mark. A refused target never has changes (`Untold`); without an
open stream there are no counts. `OneTaken`, `AmountType` and their like say what taking
one message off a queue does to the amounts; one lemma per operation keeps `Fits`.

Only model-checked: `ViewsCatchUp`, which needs the fairness.

## 13. What is not modelled

- The rest of Firestore's client: transactions, `waitForPendingWrites`, limbo
  resolution, bundles, the cache of documents and its garbage collection, the
  LevelDB transactions below the mutation queue, the multi-tab code.
- Firebase Auth's own state, gRPC, BoringSSL, abseil, leveldb, nanopb and the
  other pods: third-party code that the applications reach only through the
  Firestore client or not at all. They make up nearly all of the repository's
  lines, so the part of the whole that is modelled stays small whatever is done
  about the applications.
- The task widget: its one operation picks, at each timeline entry, a task by its
  deadline, so it shows a task from the moment it is over; nothing is kept between
  two calls. WidgetLab is of the same kind.
- CarouselApp, the task screen and its cells, Showcase, InTouch, FancyApp, BlurApp
  and SocialApp: screens whose handlers set a label or a flag, or hold no state.
- Of the modelled screens: layout, colours, texts of alerts, the order of lists.

GCD, URLSession, `UNUserNotificationCenter`, Core Data, `FIRAuth` and Firestore's
backend appear as the external actions named above; `TaskSync` and `Session` keep
Firestore's client as such an action too, coarser than sections 10 to 12.

## 14. What is proved and what is only checked

Every invariant and action property of a passing run is proved for all values of the
constants, and both refinements are, except the three of `TicTacToe` (section 6): that
module has no constant, so TLC's run over all its states is complete as it is. TLC
alone checks the liveness properties `MainUnblocks`, `ConfirmedLands`,
`SpinnerStops`, `EveryWriteSettles` and `ViewsCatchUp`: fairness speaks of
ENABLED, which the provers do not know. The two expected violations are
counterexamples and need no proof. The proofs assume nothing but the named ASSUMEs
of the modules.

What would come next:

1. Several queries on one target and limbo documents in `FirestoreWatch`;
   transactions in `FirestoreWrites`.
2. Composition: `TaskSync` over `FirestoreWrites` in place of its own `unacked`.
