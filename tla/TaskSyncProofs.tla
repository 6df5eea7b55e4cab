--------------------------- MODULE TaskSyncProofs ---------------------------
(***************************************************************************)
(* TLAPS proofs about TaskSync, for every set of contents and draft        *)
(* objects and every bound.                                                *)
(***************************************************************************)
EXTENDS TaskSync, TLAPS

Docs == UNION {[S -> Content] : S \in SUBSET (Nat \ {NoName})}
Event == [ev : {"snapshot"}, docs : Docs] \cup [ev : {"notify", "error", "removed"}]
Call == {Listen} \cup [op : {"set"}, name : Nat \ {NoName}, content : Content]
                 \cup [op : {"delete"}, name : Nat \ {NoName}]
Ack == [name : Nat \ {NoName}, completion : BOOLEAN]
OpenScreen == [kind : {"add", "edit", "menu"}, obj : Object,
               attached : BOOLEAN, moved : BOOLEAN]

-----------------------------------------------------------------------------
(* The parts of the inductive invariant.                                   *)

Rows == /\ RowsOf(mem) /\ RowsOf(disk)
        /\ deleted \subseteq DOMAIN mem

Group == /\ waiting \in BOOLEAN
         /\ running \subseteq DOMAIN mem
         /\ ~waiting => running = {}

Screens == /\ tasks \subseteq Object /\ hidden \subseteq Object
           /\ screen \in {NoScreen} \cup OpenScreen

Queues == /\ mainQ \in Seq(Event)
          /\ fsQ \in Seq(Call)
          /\ unacked \in Seq(Ack)

Counts == /\ view \in Docs
          /\ listeners \in Nat /\ minted \in Nat
          /\ used \in [{"sync", "remote", "reject", "crash"} -> Nat]

Inv == Rows /\ Group /\ Screens /\ Queues /\ Counts /\ ConfirmedIsSafe

-----------------------------------------------------------------------------
(* Rows and documents as partial functions.                                *)

LEMMA RestrictRows ==
  ASSUME NEW f, NEW S, RowsOf(f), S \subseteq DOMAIN f
  PROVE  /\ RowsOf(Restrict(f, S)) /\ DOMAIN Restrict(f, S) = S
         /\ \A x \in S : Restrict(f, S)[x] = f[x]
  BY DEF RowsOf, Restrict

LEMMA PutRows ==
  ASSUME NEW f, NEW o \in Object, NEW r \in Row, RowsOf(f)
  PROVE  /\ RowsOf(Put(f, o, r)) /\ DOMAIN Put(f, o, r) = DOMAIN f \cup {o}
         /\ \A x \in DOMAIN f \cup {o} : Put(f, o, r)[x] = IF x = o THEN r ELSE f[x]
  BY DEF RowsOf, Put

LEMMA DocsAreFunctions ==
  ASSUME NEW d
  PROVE  d \in Docs <=> DocsOf(d)
<1>1. ASSUME d \in Docs PROVE DocsOf(d)
  BY <1>1 DEF Docs, DocsOf
<1>2. ASSUME DocsOf(d) PROVE d \in Docs
  <2>1. DOMAIN d \in SUBSET (Nat \ {NoName}) /\ d \in [DOMAIN d -> Content]
    BY <1>2 DEF DocsOf
  <2> QED
    BY <2>1 DEF Docs
<1> QED
  BY <1>1, <1>2

LEMMA PutDocs ==
  ASSUME NEW d \in Docs, NEW n \in Nat \ {NoName}, NEW c \in Content
  PROVE  Put(d, n, c) \in Docs
<1>1. DocsOf(Put(d, n, c))
  BY DocsAreFunctions DEF DocsOf, Put
<1> QED
  BY <1>1, DocsAreFunctions

LEMMA RestrictDocs ==
  ASSUME NEW d \in Docs, NEW S, S \subseteq DOMAIN d
  PROVE  Restrict(d, S) \in Docs
<1>1. DocsOf(Restrict(d, S))
  BY DocsAreFunctions DEF DocsOf, Restrict
<1> QED
  BY <1>1, DocsAreFunctions

LEMMA NewRowIsRow == NewRow \in Row /\ ~Unsent(NewRow)
  BY DEF NewRow, Row, Content, NoName, Unsent

\* The kinds of queue updates the actions make keep the queues well-formed.
LEMMA RaiseSeq ==
  ASSUME NEW d \in Docs, NEW n \in Nat
  PROVE  Raise(d, n) \in Seq(Event)
  BY DEF Raise, Copies, Event

LEMMA CopiesSeq ==
  ASSUME NEW n \in Nat
  PROVE  Copies([ev |-> "error"], n) \in Seq(Event)
  BY DEF Copies, Event

-----------------------------------------------------------------------------
(* What the handlers have in common.                                       *)

\* Saving a context of well-typed rows leaves nothing pending.
LEMMA SavedRows ==
  ASSUME NEW m, RowsOf(m), Saved(m)
  PROVE  Rows'
  BY DEF Saved, Rows, RowsOf

\* A sync that starts from a saved context has a worker for every unsent row.
LEMMA SyncIsSafe ==
  ASSUME NEW m, RowsOf(m), Saved(m), StartSync(m)
  PROVE  Rows' /\ Group' /\ ConfirmedIsSafe' /\ tasks' \subseteq Object
<1>1. Rows'
  BY SavedRows
<1>2. mem' = m /\ disk' = m /\ tasks' = DOMAIN m /\ waiting' = TRUE
      /\ running' = {o \in DOMAIN m : m[o].sync # "synchronized"}
  BY DEF Saved, StartSync
<1>3. Group'
  BY <1>2 DEF Group
<1>4. ConfirmedIsSafe'
  BY <1>2 DEF ConfirmedIsSafe, Unsent
<1>5. tasks' \subseteq Object
  BY <1>2 DEF RowsOf
<1> QED
  BY <1>1, <1>3, <1>4, <1>5

\* While the main thread is not blocked no row of the context is unsent.
LEMMA IdleIsSent ==
  ASSUME ConfirmedIsSafe, ~waiting
  PROVE  \A o \in DOMAIN mem : ~Unsent(mem[o])
  BY DEF ConfirmedIsSafe

LEMMA NothingUnsent ==
  ASSUME \A o \in DOMAIN mem' : ~Unsent(mem'[o])
  PROVE  ConfirmedIsSafe'
  BY DEF ConfirmedIsSafe

LEMMA DetachedScreen ==
  ASSUME NEW s \in {NoScreen} \cup OpenScreen, NEW gone
  PROVE  Detached(s, gone) \in {NoScreen} \cup OpenScreen
  BY DEF Detached, OpenScreen, NoScreen

LEMMA MovedScreen ==
  ASSUME NEW s \in {NoScreen} \cup OpenScreen
  PROVE  Moved(s) \in {NoScreen} \cup OpenScreen
  BY DEF Moved, OpenScreen, NoScreen

-----------------------------------------------------------------------------
(* One lemma per group of actions.                                         *)

LEMMA InitInv == Init => Inv
<1> SUFFICES ASSUME Init PROVE Inv
  OBVIOUS
<1>1. view \in Docs
  <2>1. DocsOf(view)
    BY BoundAssumption DEF Init, DocsOf, Content, NoName
  <2> QED
    BY <2>1, DocsAreFunctions
<1>2. Rows
  <2>1. DOMAIN mem = {} /\ mem = [o \in DOMAIN mem |-> mem[o]] /\ disk = mem
    BY DEF Init
  <2>2. mem \in [DOMAIN mem -> Row]
    BY <2>1
  <2> QED
    BY <2>1, <2>2 DEF Init, Rows, RowsOf
<1>3. Group /\ ConfirmedIsSafe
  BY DEF Init, Group, ConfirmedIsSafe
<1>4. Screens
  BY DEF Init, Screens
<1>5. Queues
  BY DEF Init, Queues
<1>6. Counts
  BY <1>1, BoundAssumption DEF Init, Counts
<1> QED
  BY <1>2, <1>3, <1>4, <1>5, <1>6 DEF Inv

LEMMA WorkerInv ==
  ASSUME Inv, NEW o, Worker(o)
  PROVE  Inv'
<1> USE DEF Inv
<1>1. o \in DOMAIN mem /\ mem[o] \in Row /\ waiting /\ minted \in Nat
  BY DEF Worker, Group, Rows, RowsOf, Counts
<1>2. /\ mem' \in [DOMAIN mem -> Row] /\ DOMAIN mem' = DOMAIN mem
      /\ mem'[o].sync = "synchronized"
      /\ \A p \in DOMAIN mem \ {o} : mem'[p] = mem[p]
  <2>1. CASE mem[o].sync = "created"
    <3> DEFINE id == IF mem[o].id = NoName THEN minted + 2 ELSE mem[o].id
               r == [mem[o] EXCEPT !.sync = "synchronized", !.id = id]
    <3>1. mem' = [mem EXCEPT ![o] = r]
      BY <2>1 DEF Worker, AddTask, UpdateTask
    <3>2. id \in Nat
      BY <1>1 DEF Row
    <3>3. r \in Row /\ r.sync = "synchronized"
      BY <1>1, <3>2 DEF Row
    <3> HIDE DEF r
    <3> QED
      BY <1>1, <3>1, <3>3 DEF Rows, RowsOf
  <2>2. CASE mem[o].sync = "updated"
    <3>1. mem' = [mem EXCEPT ![o].sync = "synchronized"]
      BY <2>2 DEF Worker, AddTask, UpdateTask
    <3> QED
      BY <1>1, <3>1 DEF Rows, RowsOf, Row
  <2> QED
    BY <2>1, <2>2 DEF Worker, AddTask, UpdateTask
<1>3. Rows'
  BY <1>2 DEF Worker, Rows, RowsOf
<1>4. Group'
  BY <1>2 DEF Worker, Group
<1>5. ConfirmedIsSafe'
  BY <1>2 DEF Worker, ConfirmedIsSafe, Unsent
<1>6. fsQ' \in Seq(Call) /\ minted' \in Nat
  <2>1. \A n \in Nat \ {NoName} : SetDoc(n, mem[o].content) \in Call
    BY <1>1 DEF SetDoc, Call, Row
  <2>2. mem[o].id \in Nat /\ minted + 1 \in Nat \ {NoName}
    BY <1>1 DEF Row, NoName
  <2>3. \E n \in Nat \ {NoName} : fsQ' = Append(fsQ, SetDoc(n, mem[o].content))
    BY <2>2 DEF Worker, AddTask, UpdateTask
  <2>4. minted' \in Nat
    BY <1>1 DEF Worker, AddTask, UpdateTask
  <2>5. fsQ' \in Seq(Call)
    BY <2>1, <2>3 DEF Queues
  <2> QED
    BY <2>4, <2>5
<1>7. Screens' /\ Queues' /\ Counts'
  BY <1>6 DEF Worker, Screens, Queues, Counts, ui, firestore
<1> QED
  BY <1>3, <1>4, <1>5, <1>7

LEMMA WaitReturnsInv ==
  ASSUME Inv, WaitReturns
  PROVE  Inv'
<1> USE DEF Inv
<1>1. Rows' /\ Screens' /\ Counts'
  BY DEF WaitReturns, Rows, Screens, Counts, coreData, ui, firestore
<1>2. Group' /\ ConfirmedIsSafe'
  BY DEF WaitReturns, Group, ConfirmedIsSafe, coreData
<1>3. Queues'
  BY DEF WaitReturns, Queues, Event, firestore
<1> QED
  BY <1>1, <1>2, <1>3

\* Taking an event off the main queue leaves a queue of events.
LEMMA CallbackQueue ==
  ASSUME Queues, NEW ev, Callback(ev)
  PROVE  mainQ' \in Seq(Event) /\ Head(mainQ) \in Event /\ Head(mainQ).ev = ev /\ ~waiting
  BY DEF Queues, Callback

\* Saving while idle drops the deleted objects and nothing else.
LEMMA IdleSave ==
  ASSUME Rows, Group, ConfirmedIsSafe, ~waiting, Saved(Restrict(mem, Live))
  PROVE  Rows' /\ ConfirmedIsSafe' /\ running = {}
<1>1. RowsOf(Restrict(mem, Live)) /\ DOMAIN Restrict(mem, Live) = Live
      /\ \A x \in Live : Restrict(mem, Live)[x] = mem[x]
  BY RestrictRows DEF Rows, Live
<1>2. Rows'
  BY <1>1, SavedRows
<1>3. \A o \in DOMAIN mem' : ~Unsent(mem'[o])
  BY <1>1, IdleIsSent DEF Saved, Live
<1> QED
  BY <1>2, <1>3, NothingUnsent DEF Group

LEMMA NotifyInv ==
  ASSUME Inv, Notify
  PROVE  Inv'
<1> USE DEF Inv
<1>1. mainQ' \in Seq(Event) /\ ~waiting
  BY CallbackQueue DEF Notify
<1>2. Rows' /\ ConfirmedIsSafe' /\ running = {}
  BY <1>1, IdleSave DEF Notify
<1>3. Group'
  BY <1>1, <1>2 DEF Notify, upload, Group
<1>4. Screens'
  BY DetachedScreen DEF Notify, Screens
<1>5. Queues'
  BY <1>1 DEF Notify, Queues, firestore, Call
<1>6. Counts'
  BY DEF Notify, Counts, firestore
<1> QED
  BY <1>2, <1>3, <1>4, <1>5, <1>6

LEMMA SnapshotInv ==
  ASSUME Inv, Snapshot
  PROVE  Inv'
<1> USE DEF Inv
<1> DEFINE docs == Head(mainQ).docs
           kept == Live \ DOMAIN disk
           m == [o \in kept \cup DOMAIN docs |->
                   IF o \in DOMAIN docs
                   THEN [content |-> docs[o], sync |-> "synchronized", id |-> o]
                   ELSE mem[o]]
<1>1. mainQ' \in Seq(Event) /\ ~waiting /\ docs \in Docs
  BY CallbackQueue DEF Snapshot, Event
<1>2. DocsOf(docs)
  BY <1>1, DocsAreFunctions
<1>3. RowsOf(m)
  <2>1. DOMAIN m \subseteq Object
    BY <1>2 DEF DocsOf, Object, Rows, RowsOf, Live
  <2>2. \A o \in DOMAIN m : m[o] \in Row
    BY <1>2 DEF DocsOf, Row, Rows, RowsOf, Live
  <2> QED
    BY <2>1, <2>2 DEF RowsOf
<1>4. Saved(m)
  BY DEF Snapshot
<1>5. Rows'
  BY <1>3, <1>4, SavedRows
<1>6. \A o \in DOMAIN m : ~Unsent(m[o])
  BY <1>1, IdleIsSent DEF Unsent, Live
<1>7. ConfirmedIsSafe'
  BY <1>4, <1>6, NothingUnsent DEF Saved
<1>8. Group'
  BY <1>1 DEF Snapshot, upload, Group
<1>9. Screens'
  <2>1. tasks' \subseteq Object
    BY <1>3, <1>4 DEF Snapshot, Saved, RowsOf
  <2> QED
    BY <2>1, DetachedScreen, MovedScreen DEF Snapshot, Screens
<1>10. Queues' /\ Counts'
  BY <1>1 DEF Snapshot, Queues, Counts, firestore
<1> QED
  BY <1>5, <1>7, <1>8, <1>9, <1>10

LEMMA SnapshotErrorInv ==
  ASSUME Inv, SnapshotError
  PROVE  Inv'
<1> USE DEF Inv
<1>1. mainQ' \in Seq(Event) /\ ~waiting
  BY CallbackQueue DEF SnapshotError
<1>2. Rows' /\ ConfirmedIsSafe' /\ running = {}
  BY <1>1, IdleSave DEF SnapshotError
<1>3. Group'
  BY <1>1, <1>2 DEF SnapshotError, upload, Group
<1>4. Screens'
  BY DetachedScreen, MovedScreen DEF SnapshotError, Screens, Rows, RowsOf, Live
<1>5. Queues' /\ Counts'
  BY <1>1 DEF SnapshotError, Queues, Counts, firestore
<1> QED
  BY <1>2, <1>3, <1>4, <1>5

LEMMA RemovedInv ==
  ASSUME Inv, Removed
  PROVE  Inv'
<1> USE DEF Inv
<1>1. mainQ' \in Seq(Event)
  BY CallbackQueue DEF Removed
<1>2. RowsOf(Restrict(mem, Live))
  BY RestrictRows DEF Rows, Live
<1>3. Rows' /\ Group' /\ ConfirmedIsSafe' /\ tasks' \subseteq Object
  BY <1>2, SyncIsSafe DEF Removed
<1>4. Screens'
  BY <1>3, DetachedScreen, MovedScreen DEF Removed, Screens
<1>5. Queues' /\ Counts'
  BY <1>1 DEF Removed, Queues, Counts, firestore
<1> QED
  BY <1>3, <1>4, <1>5

LEMMA OpenAddInv ==
  ASSUME Inv, NEW l \in Draft, OpenAdd(l)
  PROVE  Inv'
<1> USE DEF Inv
<1>1. l \in Object /\ ~waiting /\ mem' = Put(mem, l, NewRow)
  BY DEF OpenAdd, Object
<1>2. /\ RowsOf(mem') /\ DOMAIN mem' = DOMAIN mem \cup {l}
      /\ \A x \in DOMAIN mem' : mem'[x] = IF x = l THEN NewRow ELSE mem[x]
  <2> DEFINE m == Put(mem, l, NewRow)
  <2>1. /\ RowsOf(m) /\ DOMAIN m = DOMAIN mem \cup {l}
        /\ \A x \in DOMAIN mem \cup {l} : m[x] = IF x = l THEN NewRow ELSE mem[x]
    <3>1. NewRow \in Row /\ RowsOf(mem) /\ l \in Object
      BY <1>1, NewRowIsRow DEF Rows
    <3> QED
      BY <3>1 DEF RowsOf, Put
  <2> HIDE DEF m
  <2>2. mem' = m
    BY <1>1 DEF m
  <2> QED
    BY <2>1, <2>2
<1>3. Rows' /\ Group'
  BY <1>2 DEF OpenAdd, Rows, Group, upload
<1>4. ConfirmedIsSafe'
  <2>1. \A x \in DOMAIN mem : ~Unsent(mem[x])
    BY <1>1, IdleIsSent
  <2>2. \A x \in DOMAIN mem' : ~Unsent(mem'[x])
    BY <2>1, <1>2, NewRowIsRow
  <2> QED
    BY <2>2, NothingUnsent
<1>5. Screens'
  BY <1>1 DEF OpenAdd, Screens, Opened, OpenScreen
<1>6. Queues' /\ Counts'
  BY DEF OpenAdd, Queues, Counts, firestore
<1> QED
  BY <1>3, <1>4, <1>5, <1>6

\* Spending a budget keeps the counters well-formed.
LEMMA SpendUsed ==
  ASSUME Counts, NEW what \in {"sync", "remote", "reject", "crash"}, NEW max, Spend(what, max)
  PROVE  used' \in [{"sync", "remote", "reject", "crash"} -> Nat]
<1>1. used[what] \in Nat /\ used' = [used EXCEPT ![what] = used[what] + 1]
  BY DEF Spend, Counts
<1> QED
  BY <1>1 DEF Counts

LEMMA ConfirmInv ==
  ASSUME Inv, NEW kind, NEW sync \in {"created", "updated"}, NEW c \in Text,
         Confirm(kind, sync, c)
  PROVE  Inv'
<1> USE DEF Inv
<1> DEFINE o == screen.obj
           r == [mem[o] EXCEPT !.content = c, !.sync = sync]
           m == IF screen.attached THEN [mem EXCEPT ![o] = r] ELSE mem
<1>1. RowsOf(m) /\ DOMAIN m = DOMAIN mem
  <2>1. o \in DOMAIN mem => r \in Row
    BY DEF Rows, RowsOf, Row, Content
  <2> HIDE DEF r
  <2> QED
    BY <2>1 DEF Rows, RowsOf
<1>2. Saved(Restrict(m, Live)) /\ StartSync(Restrict(m, Live))
  BY DEF Confirm
<1> HIDE DEF m
<1>3. RowsOf(Restrict(m, Live))
  BY <1>1, RestrictRows DEF Live
<1>4. Rows' /\ Group' /\ ConfirmedIsSafe' /\ tasks' \subseteq Object
  BY <1>2, <1>3, SyncIsSafe
<1>5. Screens'
  BY <1>4 DEF Confirm, Screens
<1>6. Queues' /\ Counts'
  BY SpendUsed DEF Confirm, Queues, Counts, firestore
<1> QED
  BY <1>4, <1>5, <1>6

LEMMA MenuCopyInv ==
  ASSUME Inv, NEW o, NEW l \in Draft, MenuCopy(o, l)
  PROVE  Inv'
<1> USE DEF Inv
<1> DEFINE r == [content |-> mem[o].content, sync |-> "created", id |-> NoName]
           m == Put(Restrict(mem, Live), l, r)
<1>1. r \in Row
  BY DEF MenuCopy, MenuRow, Rows, RowsOf, Row, NoName
<1>2. RowsOf(Restrict(mem, Live))
  BY RestrictRows DEF Rows, Live
<1>3. Saved(m) /\ StartSync(m)
  BY DEF MenuCopy
<1> HIDE DEF r
<1>4. RowsOf(m)
  BY <1>1, <1>2, PutRows DEF Object
<1> HIDE DEF m
<1>5. Rows' /\ Group' /\ ConfirmedIsSafe' /\ tasks' \subseteq Object
  BY <1>3, <1>4, SyncIsSafe
<1>6. Screens' /\ Queues' /\ Counts'
  BY <1>5, SpendUsed DEF MenuCopy, Screens, Queues, Counts, firestore
<1> QED
  BY <1>5, <1>6

\* A document's name is known to Firestore's calls only as a positive number.
LEMMA MenuDeleteInv ==
  ASSUME Inv, NEW o, MenuDelete(o)
  PROVE  Inv'
<1> USE DEF Inv
<1>1. o \in DOMAIN mem /\ o \in Object /\ mem[o].id \in Nat
  BY DEF MenuDelete, MenuRow, Rows, RowsOf, Row
<1>2. Rows' /\ Group' /\ ConfirmedIsSafe'
  BY <1>1 DEF MenuDelete, Rows, Group, ConfirmedIsSafe, upload
<1>3. Screens' /\ Counts'
  BY <1>1, SpendUsed DEF MenuDelete, Screens, Counts, firestore
<1>4. fsQ' \in Seq(Call)
  <2>1. mem[o].id # NoName => DeleteDoc(mem[o].id) \in Call
    BY <1>1 DEF Call, DeleteDoc
  <2>2. fsQ' = fsQ \/ (mem[o].id # NoName /\ fsQ' = Append(fsQ, DeleteDoc(mem[o].id)))
    BY DEF MenuDelete, RemoveTask
  <2> QED
    BY <2>1, <2>2 DEF Queues
<1>5. Queues'
  BY <1>4 DEF MenuDelete, Queues, firestore
<1> QED
  BY <1>2, <1>3, <1>5

LEMMA OpenInv ==
  ASSUME Inv, NEW kind \in {"edit", "menu"}, NEW o, Open(kind, o)
  PROVE  Inv'
<1> USE DEF Inv
<1>1. Rows' /\ Group' /\ ConfirmedIsSafe'
  BY DEF Open, Rows, Group, ConfirmedIsSafe, coreData, upload
<1>2. Screens' /\ Queues' /\ Counts'
  BY DEF Open, Screens, Queues, Counts, Opened, OpenScreen, firestore
<1> QED
  BY <1>1, <1>2

LEMMA DismissInv ==
  ASSUME Inv, Dismiss
  PROVE  Inv'
<1> USE DEF Inv
<1>1. Rows' /\ Group' /\ ConfirmedIsSafe'
  BY DEF Dismiss, Rows, Group, ConfirmedIsSafe, coreData, upload
<1>2. Screens' /\ Queues' /\ Counts'
  BY DEF Dismiss, Screens, Queues, Counts, firestore
<1> QED
  BY <1>1, <1>2

LEMMA SwitchTabInv ==
  ASSUME Inv, SwitchTab
  PROVE  Inv'
<1> USE DEF Inv
<1>1. Rows' /\ ConfirmedIsSafe' /\ running = {}
  BY IdleSave DEF SwitchTab
<1>2. Group' /\ Screens' /\ Queues' /\ Counts'
  BY <1>1 DEF SwitchTab, Group, Screens, Queues, Counts, ui, upload, firestore
<1> QED
  BY <1>1, <1>2

LEMMA PullToRefreshInv ==
  ASSUME Inv, PullToRefresh
  PROVE  Inv'
<1> USE DEF Inv
<1>1. Rows' /\ Group' /\ ConfirmedIsSafe'
  BY DEF PullToRefresh, Rows, Group, ConfirmedIsSafe, coreData, upload
<1>2. Screens' /\ Queues' /\ Counts'
  BY SpendUsed DEF PullToRefresh, Screens, Queues, Counts, ui, firestore, Call
<1> QED
  BY <1>1, <1>2

LEMMA FsListenInv ==
  ASSUME Inv, FsListen
  PROVE  Inv'
<1> USE DEF Inv
<1>1. Rows' /\ Group' /\ ConfirmedIsSafe' /\ Screens'
  BY DEF FsListen, Rows, Group, ConfirmedIsSafe, Screens, coreData, upload, ui
<1>2. Raise(view, 1) \in Seq(Event)
  BY RaiseSeq DEF Counts
<1>3. Queues' /\ Counts'
  BY <1>2 DEF FsListen, FsCall, Queues, Counts
<1> QED
  BY <1>1, <1>3

LEMMA FsSetInv ==
  ASSUME Inv, FsSet
  PROVE  Inv'
<1> USE DEF Inv
<1>1. Rows' /\ Group' /\ ConfirmedIsSafe' /\ Screens'
  BY DEF FsSet, Rows, Group, ConfirmedIsSafe, Screens, coreData, upload, ui
<1>2. Head(fsQ).name \in Nat \ {NoName} /\ Head(fsQ).content \in Content /\ fsQ' \in Seq(Call)
  <2>1. Head(fsQ) \in Call /\ fsQ' \in Seq(Call) /\ Head(fsQ).op = "set"
    BY DEF FsSet, FsCall, Queues
  <2> QED
    BY <2>1 DEF Call, Listen
<1>3. view' \in Docs
  BY <1>2, PutDocs DEF FsSet, Counts
<1>4. Raise(view', listeners) \in Seq(Event)
  BY <1>3, RaiseSeq DEF Counts
<1>5. Queues' /\ Counts'
  BY <1>2, <1>3, <1>4 DEF FsSet, Queues, Counts, Ack
<1> QED
  BY <1>1, <1>5

LEMMA FsDeleteInv ==
  ASSUME Inv, FsDelete
  PROVE  Inv'
<1> USE DEF Inv
<1>1. Rows' /\ Group' /\ ConfirmedIsSafe' /\ Screens'
  BY DEF FsDelete, Rows, Group, ConfirmedIsSafe, Screens, coreData, upload, ui
<1>2. Head(fsQ).name \in Nat \ {NoName} /\ fsQ' \in Seq(Call)
  <2>1. Head(fsQ) \in Call /\ fsQ' \in Seq(Call) /\ Head(fsQ).op = "delete"
    BY DEF FsDelete, FsCall, Queues
  <2> QED
    BY <2>1 DEF Call, Listen
<1>3. view' \in Docs
  BY RestrictDocs DEF FsDelete, Counts
<1>4. Raise(view', listeners) \in Seq(Event)
  BY <1>3, RaiseSeq DEF Counts
<1>5. mainQ' \in Seq(Event)
  <2>1. mainQ' = mainQ \/ mainQ' = mainQ \o Raise(view', listeners)
    BY DEF FsDelete
  <2>2. mainQ \in Seq(Event)
    BY DEF Queues
  <2>3. mainQ \o Raise(view', listeners) \in Seq(Event)
    BY <1>4, <2>2
  <2> QED
    BY <2>1, <2>2, <2>3
<1>6. unacked' \in Seq(Ack)
  BY <1>2 DEF FsDelete, Queues, Ack
<1>7. Queues' /\ Counts'
  BY <1>2, <1>3, <1>5, <1>6 DEF FsDelete, Queues, Counts
<1> QED
  BY <1>1, <1>7

LEMMA FsAckInv ==
  ASSUME Inv, FsAck
  PROVE  Inv'
<1> USE DEF Inv
<1>1. Rows' /\ Group' /\ ConfirmedIsSafe' /\ Screens'
  BY DEF FsAck, Rows, Group, ConfirmedIsSafe, Screens, coreData, upload, ui
<1>2. Raise(view, listeners) \in Seq(Event) /\ [ev |-> "removed"] \in Event
  BY RaiseSeq DEF Counts, Event
<1>3. Queues' /\ Counts'
  BY <1>2 DEF FsAck, Queues, Counts
<1> QED
  BY <1>1, <1>3

LEMMA FsRejectInv ==
  ASSUME Inv, FsReject
  PROVE  Inv'
<1> USE DEF Inv
<1>1. Rows' /\ Group' /\ ConfirmedIsSafe' /\ Screens'
  BY DEF FsReject, Rows, Group, ConfirmedIsSafe, Screens, coreData, upload, ui
<1>2. Copies([ev |-> "error"], listeners) \in Seq(Event)
  BY CopiesSeq DEF Counts
<1>3. Queues' /\ Counts'
  BY <1>2, SpendUsed DEF FsReject, Queues, Counts
<1> QED
  BY <1>1, <1>3

LEMMA RemoteInv ==
  ASSUME Inv, Remote
  PROVE  Inv'
<1> USE DEF Inv
<1>1. Rows' /\ Group' /\ ConfirmedIsSafe' /\ Screens'
  BY DEF Remote, Rows, Group, ConfirmedIsSafe, Screens, coreData, upload, ui
<1>2. PICK n \in DOMAIN view \cup {minted + 1} :
        /\ minted' = IF n > minted THEN n ELSE minted
        /\ \/ \E c \in Text : view' = Put(view, n, c)
           \/ n \in DOMAIN view /\ view' = Restrict(view, DOMAIN view \ {n})
  BY DEF Remote
<1>3. n \in Nat \ {NoName} /\ minted' \in Nat
  BY <1>2, DocsAreFunctions DEF Counts, DocsOf, NoName
<1>4. view' \in Docs
  BY <1>2, <1>3, PutDocs, RestrictDocs DEF Counts, Content
<1>5. Raise(view', listeners) \in Seq(Event)
  BY <1>4, RaiseSeq DEF Counts
<1>6. Queues' /\ Counts'
  BY <1>3, <1>4, <1>5, SpendUsed DEF Remote, Queues, Counts
<1> QED
  BY <1>1, <1>6

LEMMA CrashInv ==
  ASSUME Inv, Crash
  PROVE  Inv'
<1> USE DEF Inv
<1>1. Rows' /\ Group' /\ ConfirmedIsSafe' /\ tasks' \subseteq Object
  BY SyncIsSafe DEF Crash, Rows
<1>2. Screens' /\ Counts'
  BY <1>1, SpendUsed DEF Crash, Screens, Counts
<1>3. unacked' \in Seq(Ack)
  <2>1. \A a \in Ack : [a EXCEPT !.completion = FALSE] \in Ack
    BY DEF Ack
  <2>2. \A i \in 1 .. Len(unacked) : unacked[i] \in Ack
    BY DEF Queues
  <2>3. Len(unacked) \in Nat
    BY DEF Queues
  <2> QED
    BY <2>1, <2>2, <2>3 DEF Crash
<1>4. Queues'
  BY <1>3 DEF Crash, Queues
<1> QED
  BY <1>1, <1>2, <1>4

-----------------------------------------------------------------------------
(* The theorems.                                                           *)

LEMMA NextInv == Inv /\ [Next]_vars => Inv'
<1> SUFFICES ASSUME Inv, [Next]_vars PROVE Inv'
  OBVIOUS
<1>1. CASE Workers
  BY <1>1, WorkerInv DEF Workers
<1>2. CASE WaitReturns
  BY <1>2, WaitReturnsInv
<1>3. CASE MainQueue
  BY <1>3, NotifyInv, SnapshotInv, SnapshotErrorInv, RemovedInv DEF MainQueue
<1>4. CASE User
  <2>1. ASSUME NEW c \in Text, ConfirmAdd(c) \/ ConfirmEdit(c) \/ MenuStatus(c) PROVE Inv'
    BY <2>1, ConfirmInv DEF ConfirmAdd, ConfirmEdit, MenuStatus
  <2>2. ASSUME NEW o, Open("edit", o) \/ Open("menu", o) PROVE Inv'
    BY <2>2, OpenInv
  <2>3. ASSUME NEW o, MenuDelete(o) \/ \E l \in Draft : MenuCopy(o, l) PROVE Inv'
    BY <2>3, MenuDeleteInv, MenuCopyInv
  <2>4. ASSUME NEW l \in Draft, OpenAdd(l) PROVE Inv'
    BY <2>4, OpenAddInv
  <2> QED
    BY <1>4, <2>1, <2>2, <2>3, <2>4, DismissInv, SwitchTabInv, PullToRefreshInv DEF User
<1>5. CASE Firestore
  BY <1>5, FsListenInv, FsSetInv, FsDeleteInv DEF Firestore
<1>6. CASE FsAck \/ FsReject \/ Remote \/ Crash
  BY <1>6, FsAckInv, FsRejectInv, RemoteInv, CrashInv
<1>7. CASE UNCHANGED vars
  BY <1>7 DEF vars, coreData, ui, upload, firestore, Inv, Rows, Group, Screens,
              Queues, Counts, ConfirmedIsSafe
<1> QED
  BY <1>1, <1>2, <1>3, <1>4, <1>5, <1>6, <1>7 DEF Next

THEOREM Invariance == Spec => []Inv
<1> QED
  BY InitInv, NextInv, PTL DEF Spec

\* Every variable of the task list keeps its type, whatever the user, the
\* server, other devices and crashes do.
THEOREM TypeCorrect == Spec => []TypeOK
<1>1. Inv => TypeOK
  <2> SUFFICES ASSUME Inv PROVE TypeOK
    OBVIOUS
  <2>1. \A e \in Event : EventOK(e)
    BY DocsAreFunctions DEF Event, EventOK
  <2>2. \A q \in Call : CallOK(q)
    BY DEF Call, CallOK
  <2>3. \A i \in 1 .. Len(mainQ) : EventOK(mainQ[i])
    BY <2>1 DEF Inv, Queues
  <2>4. \A i \in 1 .. Len(fsQ) : CallOK(fsQ[i])
    BY <2>2 DEF Inv, Queues
  <2>5. \A i \in 1 .. Len(unacked) :
          unacked[i] \in [name : Nat \ {NoName}, completion : BOOLEAN]
    <3>1. \A i \in 1 .. Len(unacked) : unacked[i] \in Ack
      BY DEF Inv, Queues
    <3> QED
      BY <3>1 DEF Ack
  <2> QED
    BY <2>3, <2>4, <2>5, DocsAreFunctions
       DEF Inv, TypeOK, Rows, Group, Screens, Counts, OpenScreen
<1> QED
  BY <1>1, Invariance, PTL

\* A confirmed change that Firestore was not given yet is on disk as confirmed
\* and has its worker, with the main thread blocked, so that no snapshot can
\* wipe it and no crash can lose it.
THEOREM ConfirmedChangesAreSafe == Spec => []ConfirmedIsSafe
<1>1. Inv => ConfirmedIsSafe
  BY DEF Inv
<1> QED
  BY <1>1, Invariance, PTL

-----------------------------------------------------------------------------
(* The upload keeps its contract.                                          *)

LEMMA IdleOwesNothing ==
  ASSUME ConfirmedIsSafe, ~waiting
  PROVE  Owed = {}
  BY IdleIsSent DEF Owed

\* A worker pays for its own row and leaves every other debt alone.
LEMMA WorkerPays ==
  ASSUME Inv, NEW o, Worker(o)
  PROVE  Contract!Next
<1> DEFINE due == [obj |-> o, content |-> mem[o].content]
<1>1. /\ o \in DOMAIN mem /\ mem[o] \in Row /\ fsQ \in Seq(Call)
      /\ minted \in Nat /\ mem \in [DOMAIN mem -> Row]
  BY DEF Inv, Worker, Group, Rows, RowsOf, Queues, Counts
<1>2. PICK n \in Nat \ {NoName} : fsQ' = Append(fsQ, SetDoc(n, mem[o].content))
  <2>1. mem[o].id \in Nat /\ minted + 1 \in Nat \ {NoName}
    BY <1>1 DEF Row, NoName
  <2> QED
    BY <2>1 DEF Worker, AddTask, UpdateTask
<1>3. /\ DOMAIN mem' = DOMAIN mem /\ ~Unsent(mem'[o])
      /\ \A p \in DOMAIN mem \ {o} : mem'[p] = mem[p]
  BY <1>1 DEF Worker, AddTask, UpdateTask, Row, Unsent
<1>4. CASE ~Unsent(mem[o])
  <2>1. Owed' = Owed
    BY <1>3, <1>4 DEF Owed
  <2> QED
    BY <2>1 DEF Contract!Next, Contract!Take
<1>5. CASE Unsent(mem[o])
  <2>1. due \in Owed
    BY <1>1, <1>5 DEF Owed
  <2>2. Owed' = Owed \ {due}
    BY <1>1, <1>3, <1>5 DEF Owed
  <2>3. fsQ' # << >> /\ fsQ'[Len(fsQ')] = SetDoc(n, mem[o].content)
    <3>1. SetDoc(n, mem[o].content) \in Call
      BY <1>1, <1>2 DEF SetDoc, Call, Row
    <3> QED
      BY <1>1, <1>2, <3>1
  <2>4. /\ SetDoc(n, mem[o].content).op = "set"
        /\ SetDoc(n, mem[o].content).content = due.content
    BY DEF SetDoc
  <2> QED
    BY <1>2, <2>1, <2>2, <2>3, <2>4 DEF Contract!Next, Contract!HandOver
<1> QED
  BY <1>4, <1>5

LEMMA CrashForgetsNoDebt ==
  ASSUME Inv, Crash
  PROVE  Owed \subseteq Owed'
  BY DEF Inv, Crash, Saved, ConfirmedIsSafe, Owed

\* A confirmed change leaves the rows that have to be uploaded only by a call
\* that hands it to Firestore: never by a snapshot, a save or a crash.
THEOREM UploadKeepsContract == Spec => ImplementsContract
<1>1. Init => Contract!Init
  BY DEF Init, Contract!Init, Owed
<1>2. Inv /\ [Next]_vars => [Contract!Next]_Owed
  <2> SUFFICES ASSUME Inv, [Next]_vars PROVE Contract!Next \/ Owed' = Owed
    OBVIOUS
  <2>1. CASE ~waiting
    BY <2>1, IdleOwesNothing DEF Inv, Contract!Next, Contract!Take
  <2>2. CASE Workers
    BY <2>2, WorkerPays DEF Workers
  <2>3. CASE Crash
    BY <2>3, CrashForgetsNoDebt DEF Contract!Next, Contract!Take
  <2>4. CASE WaitReturns \/ Firestore \/ FsAck \/ FsReject \/ Remote \/ UNCHANGED vars
    <3>1. mem' = mem
      BY <2>4 DEF WaitReturns, Firestore, FsListen, FsSet, FsDelete, FsAck, FsReject,
                  Remote, vars, coreData
    <3> QED
      BY <3>1 DEF Owed
  <2>5. CASE MainQueue
    BY <2>1, <2>5 DEF MainQueue, Notify, Snapshot, SnapshotError, Removed, Callback
  <2>6. CASE User
    BY <2>1, <2>6 DEF User, OpenAdd, ConfirmAdd, ConfirmEdit, MenuStatus, Confirm, Open,
                      MenuDelete, MenuCopy, MenuRow, Dismiss, SwitchTab, PullToRefresh
  <2> QED
    BY <2>2, <2>3, <2>4, <2>5, <2>6 DEF Next
<1> QED
  BY <1>1, <1>2, Invariance, PTL DEF Spec, ImplementsContract, Contract!Spec

-----------------------------------------------------------------------------
(* Who takes the object of an open screen away.                            *)

LEMMA DetachedByDeletion ==
  ASSUME Inv, screen # NoScreen, screen.attached,
         screen' = Detached(screen, deleted) \/ screen' = Moved(Detached(screen, deleted)),
         ~screen'.attached
  PROVE  screen.obj \in deleted
<1>1. screen \in OpenScreen
  BY DEF Inv, Screens
<1>2. CASE screen.obj \notin deleted
  <2>1. Detached(screen, deleted) = screen
    BY <1>2 DEF Detached
  <2>2. Moved(screen).attached = screen.attached
    BY <1>1 DEF Moved, OpenScreen
  <2> QED
    BY <2>1, <2>2
<1> QED
  BY <1>2

\* Only a snapshot's batch deletion, or the user's own deletion, takes the
\* object of an open screen away, so that a confirmation is lost.
THEOREM DetachedBySnapshot == Spec => OnlySnapshotDetaches
<1> DEFINE Lost == screen # NoScreen /\ screen' # NoScreen /\ screen.attached
                     /\ ~screen'.attached
           Excused == Head(mainQ).ev = "snapshot" \/ screen.obj \in deleted
<1>1. Inv /\ [Next]_vars => [Lost => Excused]_vars
  <2> SUFFICES ASSUME Inv, Next, Lost PROVE Excused
    OBVIOUS
  <2>1. CASE MainQueue
    <3>1. CASE Snapshot
      BY <3>1 DEF Snapshot, Callback
    <3>2. CASE Notify \/ SnapshotError \/ Removed
      BY <3>2, DetachedByDeletion DEF Notify, SnapshotError, Removed
    <3> QED
      BY <2>1, <3>1, <3>2 DEF MainQueue
  <2>2. CASE Workers \/ WaitReturns \/ Firestore \/ FsAck \/ FsReject \/ Remote
    BY <2>2 DEF Workers, Worker, WaitReturns, Firestore, FsListen, FsSet, FsDelete,
                FsAck, FsReject, Remote, ui
  <2>3. CASE User
    BY <2>3 DEF User, OpenAdd, ConfirmAdd, ConfirmEdit, MenuStatus, Confirm, Open,
                MenuDelete, MenuCopy, Dismiss, SwitchTab, PullToRefresh, ui
  <2>4. CASE Crash
    BY <2>4 DEF Crash
  <2> QED
    BY <2>1, <2>2, <2>3, <2>4 DEF Next
<1> QED
  BY <1>1, Invariance, PTL DEF Spec, OnlySnapshotDetaches

-----------------------------------------------------------------------------
(* The list mirrors Firestore's documents.  SettledMirrors speaks of empty    *)
(* queues only.  Before that the last snapshot on its way to the main thread  *)
(* is of the documents as they are, every change of them having raised one;   *)
(* and if none is on its way the list differs from the documents only in rows *)
(* that are new, not handed over, or in a call that Firestore still has to    *)
(* take.                                                                      *)

Pending(q) == \E i \in 1 .. Len(q) : q[i].ev = "snapshot"
LatestIs(q, docs) ==
  \A i \in 1 .. Len(q) :
    q[i].ev = "snapshot" /\ (\A j \in 1 .. Len(q) : j > i => q[j].ev # "snapshot")
      => q[i].docs = docs

WriteOnItsWay == \E i \in 1 .. Len(fsQ) : fsQ[i].op = "set"
Explained(o) ==
  \/ mem[o] = NewRow \/ Unsent(mem[o])
  \/ o \in DOMAIN view /\ mem[o].content = view[o]
  \/ WriteOnItsWay

\* Rows that no save has written yet are those of open screens.
UnsavedIsNew ==
  running \subseteq DOMAIN disk /\ \A o \in DOMAIN mem \ DOMAIN disk : mem[o] = NewRow

Mirrors == (\A o \in Live : Explained(o)) /\ DOMAIN view \subseteq Live \cup hidden

Fed == listeners > 0 => LatestIs(mainQ, view) /\ (Pending(mainQ) \/ Mirrors)

LEMMA AppendOther ==
  ASSUME NEW q \in Seq(Event), NEW e \in Event, e.ev # "snapshot", NEW docs,
         LatestIs(q, docs)
  PROVE  LatestIs(Append(q, e), docs) /\ (Pending(q) => Pending(Append(q, e)))
<1>1. /\ Len(Append(q, e)) = Len(q) + 1 /\ Append(q, e)[Len(q) + 1] = e
      /\ \A i \in 1 .. Len(q) : Append(q, e)[i] = q[i] /\ i \in 1 .. Len(q) + 1
      /\ \A i \in 1 .. Len(q) + 1 : i # Len(q) + 1 => i \in 1 .. Len(q)
      /\ Len(q) + 1 \in 1 .. Len(q) + 1
  OBVIOUS
<1> QED  BY <1>1 DEF LatestIs, Pending

\* With a listener the documents reach the main thread as they are now.
LEMMA RaiseLatest ==
  ASSUME NEW q \in Seq(Event), NEW docs \in Docs, NEW n \in Nat, n > 0
  PROVE  LatestIs(q \o Raise(docs, n), docs) /\ Pending(q \o Raise(docs, n))
<1> DEFINE r == Raise(docs, n)
           s == q \o r
<1>1. /\ r \in Seq(Event) /\ Len(r) = n
      /\ \A i \in 1 .. n : r[i].ev = "snapshot" /\ r[i].docs = docs
  <2>1. r = [i \in 1 .. n |-> [ev |-> "snapshot", docs |-> docs]]
    BY DEF Raise, Copies
  <2>2. r \in Seq(Event)
    BY RaiseSeq
  <2>3. DOMAIN r = 1 .. n
    BY <2>1
  <2>4. Len(r) = n
    BY <2>2, <2>3
  <2> QED  BY <2>1, <2>2, <2>4
<1> HIDE DEF r
<1>2. Len(q) \in Nat /\ Len(s) = Len(q) + n
      /\ \A i \in 1 .. Len(s) : s[i] = IF i <= Len(q) THEN q[i] ELSE r[i - Len(q)]
  BY <1>1
<1> HIDE DEF s
<1>3. Len(s) \in 1 .. Len(s) /\ s[Len(s)].ev = "snapshot" /\ s[Len(s)].docs = docs
  <2>1. Len(s) \in 1 .. Len(s) /\ ~ (Len(s) <= Len(q)) /\ Len(s) - Len(q) = n /\ n \in 1 .. n
    BY <1>2
  <2> QED  BY <1>1, <1>2, <2>1
<1>4. \A i \in 1 .. Len(s) : i # Len(s) => Len(s) > i
  BY <1>2
<1>5. LatestIs(s, docs) /\ Pending(s)
  BY <1>3, <1>4 DEF LatestIs, Pending
<1> QED  BY <1>5 DEF s, r

\* The main thread takes its next callback.
LEMMA TailLatest ==
  ASSUME NEW q \in Seq(Event), q # << >>, NEW docs, LatestIs(q, docs)
  PROVE  /\ LatestIs(Tail(q), docs)
         /\ Head(q).ev # "snapshot" /\ Pending(q) => Pending(Tail(q))
         /\ Head(q).ev = "snapshot" => Pending(Tail(q)) \/ Head(q).docs = docs
<1> DEFINE t == Tail(q)
<1>1. /\ Len(q) \in Nat /\ Len(q) >= 1 /\ Len(t) = Len(q) - 1 /\ Head(q) = q[1]
      /\ \A i \in 1 .. Len(t) : t[i] = q[i + 1]
  OBVIOUS
<1> HIDE DEF t
<1>2. /\ \A i \in 1 .. Len(t) : i + 1 \in 1 .. Len(q) /\ i + 1 > 1
      /\ \A i \in 1 .. Len(q) : i # 1 => i - 1 \in 1 .. Len(t) /\ t[i - 1] = q[i] /\ i > 1
      /\ 1 \in 1 .. Len(q)
  <2>1. \A i \in 1 .. Len(q) : i # 1 => i - 1 \in 1 .. Len(t) /\ (i - 1) + 1 = i /\ i > 1
    BY <1>1
  <2> QED  BY <1>1, <2>1
<1>3. ASSUME NEW i \in 1 .. Len(t), t[i].ev = "snapshot",
             \A j \in 1 .. Len(t) : j > i => t[j].ev # "snapshot"
      PROVE  t[i].docs = docs
  <2>1. ASSUME NEW j \in 1 .. Len(q), j > i + 1 PROVE q[j].ev # "snapshot"
    <3>1. j # 1 /\ j - 1 > i
      BY <1>1, <2>1
    <3> QED  BY <1>2, <1>3, <3>1
  <2> QED  BY <1>1, <1>2, <1>3, <2>1 DEF LatestIs
<1>4. LatestIs(t, docs)
  BY <1>3 DEF LatestIs
<1>5. ASSUME Head(q).ev # "snapshot", Pending(q) PROVE Pending(t)
  BY <1>1, <1>2, <1>5 DEF Pending
<1>6. ASSUME Head(q).ev = "snapshot", ~ Pending(t) PROVE Head(q).docs = docs
  BY <1>1, <1>2, <1>6 DEF Pending, LatestIs
<1> QED  BY <1>4, <1>5, <1>6 DEF t

\* A call that is appended hides none that is on its way, and a taken one is gone.
LEMMA CallAppended ==
  ASSUME fsQ \in Seq(Call), NEW c \in Call, fsQ' = Append(fsQ, c)
  PROVE  /\ WriteOnItsWay => WriteOnItsWay'
         /\ c.op = "set" => WriteOnItsWay'
<1>1. /\ Len(fsQ') = Len(fsQ) + 1 /\ fsQ'[Len(fsQ) + 1] = c
      /\ \A i \in 1 .. Len(fsQ) : fsQ'[i] = fsQ[i] /\ i \in 1 .. Len(fsQ) + 1
      /\ Len(fsQ) + 1 \in 1 .. Len(fsQ) + 1
  OBVIOUS
<1> QED  BY <1>1 DEF WriteOnItsWay

LEMMA CallTaken ==
  ASSUME fsQ \in Seq(Call), NEW op, FsCall(op), op # "set"
  PROVE  WriteOnItsWay => WriteOnItsWay'
<1>1. /\ Len(fsQ) \in Nat /\ Len(fsQ) >= 1 /\ Len(fsQ') = Len(fsQ) - 1
      /\ fsQ[1].op # "set" /\ \A i \in 1 .. Len(fsQ') : fsQ'[i] = fsQ[i + 1]
  BY DEF FsCall
<1>2. ASSUME NEW i \in 1 .. Len(fsQ), fsQ[i].op = "set" PROVE WriteOnItsWay'
  <2>1. i - 1 \in 1 .. Len(fsQ') /\ fsQ'[i - 1] = fsQ[i]
    <3>1. i - 1 \in 1 .. Len(fsQ') /\ (i - 1) + 1 = i
      BY <1>1, <1>2
    <3> QED  BY <1>1, <3>1
  <2> QED  BY <1>2, <2>1 DEF WriteOnItsWay
<1> QED  BY <1>2 DEF WriteOnItsWay

\* Rows are added or changed only as new or unsent ones, and none is dropped.
LEMMA MirrorsStay ==
  ASSUME Mirrors, view' = view, WriteOnItsWay => WriteOnItsWay',
         DOMAIN view \cap Live \subseteq Live' \cup hidden', hidden \subseteq hidden',
         \A o \in Live' : \/ o \in Live /\ mem'[o] = mem[o]
                          \/ mem'[o] = NewRow \/ Unsent(mem'[o]) \/ WriteOnItsWay'
  PROVE  Mirrors'
<1>1. ASSUME NEW o \in Live' PROVE Explained(o)'
  <2>1. CASE o \in Live /\ mem'[o] = mem[o]
    BY <2>1 DEF Mirrors, Explained
  <2>2. CASE mem'[o] = NewRow \/ Unsent(mem'[o]) \/ WriteOnItsWay'
    BY <2>2 DEF Explained
  <2> QED  BY <2>1, <2>2
<1>2. DOMAIN view' \subseteq Live' \cup hidden'
  BY DEF Mirrors
<1> QED  BY <1>1, <1>2 DEF Mirrors

\* What a save writes: the rows that are not deleted.
LEMMA SavedLive ==
  ASSUME Rows, Saved(Restrict(mem, Live))
  PROVE  /\ DOMAIN mem' = Live /\ DOMAIN disk' = Live /\ Live' = Live
         /\ \A o \in Live : mem'[o] = mem[o]
<1>1. DOMAIN Restrict(mem, Live) = Live /\ \A x \in Live : Restrict(mem, Live)[x] = mem[x]
  BY RestrictRows DEF Rows, Live
<1> QED  BY <1>1 DEF Saved, Live

LEMMA SavedIsNew ==
  ASSUME NEW m, Saved(m), running' \subseteq DOMAIN m
  PROVE  UnsavedIsNew'
BY DEF Saved, UnsavedIsNew

\* The callbacks that only save, and the tab switch.
LEMMA SavesFed ==
  ASSUME Inv, Fed, Notify \/ SnapshotError \/ Removed \/ SwitchTab
  PROVE  Fed' /\ UnsavedIsNew'
<1>1. Saved(Restrict(mem, Live)) /\ ~ waiting /\ view' = view /\ listeners' = listeners
      /\ hidden' = hidden
  BY DEF Notify, SnapshotError, Removed, SwitchTab, Callback, firestore
<1>2. /\ DOMAIN mem' = Live /\ DOMAIN disk' = Live /\ Live' = Live
      /\ \A o \in Live : mem'[o] = mem[o]
  BY <1>1, SavedLive DEF Inv
<1>3. running' \subseteq Live
  <2>1. CASE Removed
    <3>1. DOMAIN Restrict(mem, Live) = Live
      BY RestrictRows DEF Inv, Rows, Live
    <3> QED  BY <2>1, <3>1 DEF Removed, StartSync
  <2>2. CASE Notify \/ SnapshotError \/ SwitchTab
    BY <1>1, <2>2 DEF Notify, SnapshotError, SwitchTab, upload, Inv, Group
  <2> QED  BY <2>1, <2>2
<1>4. WriteOnItsWay => WriteOnItsWay'
  <2>1. CASE Notify
    BY <2>1, CallAppended DEF Notify, Inv, Queues, Call, Listen
  <2>2. CASE SnapshotError \/ Removed \/ SwitchTab
    BY <2>2 DEF SnapshotError, Removed, SwitchTab, WriteOnItsWay
  <2> QED  BY <2>1, <2>2
<1>5. Mirrors => Mirrors'
  BY <1>1, <1>2, <1>4, MirrorsStay
<1>6. LatestIs(mainQ, view) => LatestIs(mainQ', view) /\ (Pending(mainQ) => Pending(mainQ'))
  <2>1. CASE SwitchTab
    BY <2>1 DEF SwitchTab
  <2>2. CASE Notify \/ SnapshotError \/ Removed
    <3>1. /\ mainQ \in Seq(Event) /\ mainQ # << >> /\ Head(mainQ).ev # "snapshot"
          /\ mainQ' = Tail(mainQ)
      BY <2>2 DEF Notify, SnapshotError, Removed, Callback, Inv, Queues
    <3> QED  BY <3>1, TailLatest
  <2> QED  BY <2>1, <2>2
<1> QED  BY <1>1, <1>2, <1>3, <1>5, <1>6 DEF Fed, UnsavedIsNew

\* The last snapshot makes the list what the documents are.
LEMMA SnapshotFed ==
  ASSUME Inv, Fed, UnsavedIsNew, Snapshot
  PROVE  Fed' /\ UnsavedIsNew'
<1> DEFINE docs == Head(mainQ).docs
           kept == Live \ DOMAIN disk
           m == [o \in kept \cup DOMAIN docs |->
                   IF o \in DOMAIN docs
                   THEN [content |-> docs[o], sync |-> "synchronized", id |-> o]
                   ELSE mem[o]]
<1>1. /\ mainQ \in Seq(Event) /\ mainQ # << >> /\ Head(mainQ).ev = "snapshot"
      /\ mainQ' = Tail(mainQ) /\ ~ waiting /\ running' = running /\ running = {}
      /\ view' = view /\ listeners' = listeners
  BY DEF Snapshot, Callback, Inv, Queues, Group, upload, firestore
<1>2. Saved(m)
  BY DEF Snapshot
<1>3. mem' = m /\ disk' = m /\ deleted' = {}
  BY <1>2 DEF Saved
<1>4. UnsavedIsNew'
  BY <1>1, <1>2, SavedIsNew
<1>5. ASSUME docs = view PROVE Mirrors'
  <2>1. \A o \in Live' : o \in DOMAIN view => mem'[o].content = view[o]
    BY <1>3, <1>5 DEF Live
  <2>2. \A o \in Live' : o \notin DOMAIN view => mem'[o] = NewRow
    BY <1>3, <1>5 DEF Live, UnsavedIsNew
  <2>3. DOMAIN view \subseteq Live'
    BY <1>3, <1>5 DEF Live
  <2> QED  BY <1>1, <2>1, <2>2, <2>3 DEF Mirrors, Explained
<1> HIDE DEF m, docs
<1>6. LatestIs(mainQ, view) => LatestIs(mainQ', view) /\ (Pending(mainQ') \/ docs = view)
  BY <1>1, TailLatest DEF docs
<1> QED  BY <1>1, <1>4, <1>5, <1>6 DEF Fed

\* A worker hands its row over, so a write is on its way.
LEMMA WorkerFed ==
  ASSUME Inv, Fed, UnsavedIsNew, NEW o \in running, Worker(o)
  PROVE  Fed' /\ UnsavedIsNew'
<1>1. /\ DOMAIN mem' = DOMAIN mem /\ disk' = disk /\ deleted' = deleted
      /\ \A p \in DOMAIN mem \ {o} : mem'[p] = mem[p]
      /\ running' = running \ {o} /\ mainQ' = mainQ /\ view' = view /\ hidden' = hidden
      /\ listeners' = listeners
  BY DEF Worker, AddTask, UpdateTask, firestore
<1>2. UnsavedIsNew'
  BY <1>1 DEF UnsavedIsNew
<1>3. WriteOnItsWay'
  <2>1. o \in DOMAIN mem /\ mem[o] \in Row /\ minted \in Nat
    BY DEF Inv, Group, Rows, RowsOf, Counts
  <2>2. CASE AddTask(o)
    <3>1. SetDoc(minted + 1, mem[o].content) \in Call
      BY <2>1 DEF SetDoc, Call, Row, NoName
    <3> QED  BY <2>2, <3>1, CallAppended DEF AddTask, SetDoc, Inv, Queues
  <2>3. CASE UpdateTask(o)
    <3> DEFINE id == IF mem[o].id = NoName THEN minted + 1 ELSE mem[o].id
    <3>1. SetDoc(id, mem[o].content) \in Call
      BY <2>1 DEF SetDoc, Call, Row, NoName
    <3>2. fsQ' = Append(fsQ, SetDoc(id, mem[o].content))
      BY <2>3 DEF UpdateTask
    <3> HIDE DEF id
    <3> QED  BY <3>1, <3>2, CallAppended DEF SetDoc, Inv, Queues
  <2> QED  BY <2>2, <2>3 DEF Worker
<1>4. Mirrors => Mirrors'
  BY <1>1, <1>3, MirrorsStay DEF Live
<1> QED  BY <1>1, <1>2, <1>4 DEF Fed

LEMMA WaitReturnsFed ==
  ASSUME Inv, Fed, UnsavedIsNew, WaitReturns
  PROVE  Fed' /\ UnsavedIsNew'
<1>1. /\ mainQ' = Append(mainQ, [ev |-> "notify"]) /\ [ev |-> "notify"] \in Event
      /\ UNCHANGED <<mem, deleted, disk, running, fsQ, view, listeners, hidden>>
  BY DEF WaitReturns, coreData, firestore, Event
<1>2. LatestIs(mainQ, view) => LatestIs(mainQ', view) /\ (Pending(mainQ) => Pending(mainQ'))
  BY <1>1, AppendOther DEF Inv, Queues
<1>3. Mirrors => Mirrors'
  BY <1>1 DEF Mirrors, Live, Explained, WriteOnItsWay
<1> QED  BY <1>1, <1>2, <1>3 DEF Fed, UnsavedIsNew

-----------------------------------------------------------------------------
(* The user.                                                               *)

LEMMA OpenAddFed ==
  ASSUME Inv, Fed, UnsavedIsNew, NEW l \in Draft, OpenAdd(l)
  PROVE  Fed' /\ UnsavedIsNew'
<1>1. /\ DOMAIN mem' = DOMAIN mem \cup {l} /\ l \notin DOMAIN mem /\ mem'[l] = NewRow
      /\ \A o \in DOMAIN mem : mem'[o] = mem[o]
      /\ UNCHANGED <<deleted, disk, running, fsQ, mainQ, view, listeners, hidden>>
  BY DEF OpenAdd, Unused, Put, upload, firestore
<1>2. Mirrors => Mirrors'
  BY <1>1, MirrorsStay DEF Live, WriteOnItsWay
<1> QED  BY <1>1, <1>2 DEF Fed, UnsavedIsNew

\* A confirmed change makes its row unsent.
LEMMA ConfirmFed ==
  ASSUME Inv, Fed, NEW kind, NEW sync \in {"created", "updated"}, NEW c \in Text,
         Confirm(kind, sync, c)
  PROVE  Fed' /\ UnsavedIsNew'
<1> DEFINE o == screen.obj
           m == IF screen.attached
                THEN [mem EXCEPT ![o] = [@ EXCEPT !.content = c, !.sync = sync]] ELSE mem
<1>1. Saved(Restrict(m, Live)) /\ StartSync(Restrict(m, Live))
      /\ UNCHANGED <<mainQ, fsQ, view, listeners, hidden>>
  BY DEF Confirm, firestore
<1>2. DOMAIN m = DOMAIN mem /\ \A p \in Live : m[p] = mem[p] \/ Unsent(m[p])
  <2>1. c # Blank
    BY BlankAssumption
  <2>2. ASSUME NEW p \in Live, p = o, screen.attached PROVE Unsent(m[p])
    <3>1. p \in DOMAIN mem /\ mem[p] \in Row
      BY DEF Inv, Rows, RowsOf, Live
    <3>2. m[p].content = c /\ m[p].sync = sync
      BY <2>2, <3>1 DEF Row
    <3>3. sync # "synchronized" /\ NewRow.content = Blank
      BY DEF NewRow
    <3> HIDE DEF m
    <3> QED  BY <2>1, <3>2, <3>3 DEF Unsent
  <2>3. \A p \in Live : ~ (p = o /\ screen.attached) => m[p] = mem[p]
    BY DEF Live
  <2>4. DOMAIN m = DOMAIN mem
    OBVIOUS
  <2> QED  BY <2>2, <2>3, <2>4
<1> HIDE DEF m, o
<1>3. DOMAIN Restrict(m, Live) = Live /\ \A p \in Live : Restrict(m, Live)[p] = m[p]
  BY <1>2 DEF Restrict, Live
<1>4. /\ Live' = Live /\ running' \subseteq Live
      /\ \A p \in Live : mem'[p] = mem[p] \/ Unsent(mem'[p])
  BY <1>1, <1>2, <1>3 DEF Saved, StartSync, Live
<1>5. UnsavedIsNew'
  BY <1>1, <1>3, <1>4, SavedIsNew
<1>6. Mirrors => Mirrors'
  BY <1>1, <1>4, MirrorsStay DEF WriteOnItsWay
<1> QED  BY <1>1, <1>5, <1>6 DEF Fed

\* A copy is unsent, or as new as the blank row it copies.
LEMMA MenuCopyFed ==
  ASSUME Inv, Fed, NEW o, NEW l \in Draft, MenuCopy(o, l)
  PROVE  Fed' /\ UnsavedIsNew'
<1> DEFINE r == [content |-> mem[o].content, sync |-> "created", id |-> NoName]
           m == Put(Restrict(mem, Live), l, r)
<1>1. Saved(m) /\ StartSync(m) /\ UNCHANGED <<mainQ, fsQ, view, listeners, hidden>>
      /\ l \notin DOMAIN mem
  BY DEF MenuCopy, firestore, Unused
<1>2. r = NewRow \/ Unsent(r)
  BY DEF Unsent
<1> HIDE DEF r
<1>3. DOMAIN m = Live \cup {l} /\ m[l] = r /\ \A p \in Live : m[p] = mem[p]
  BY <1>1 DEF Put, Restrict, Live
<1> HIDE DEF m
<1>4. /\ Live' = Live \cup {l} /\ running' \subseteq DOMAIN m /\ mem'[l] = r
      /\ \A p \in Live : mem'[p] = mem[p]
  BY <1>1, <1>3 DEF Saved, StartSync, Live
<1>5. UnsavedIsNew'
  BY <1>1, <1>4, SavedIsNew
<1>6. Mirrors => Mirrors'
  BY <1>1, <1>2, <1>4, MirrorsStay DEF WriteOnItsWay
<1> QED  BY <1>1, <1>5, <1>6 DEF Fed

\* A document whose row the user deleted is hidden; a draft is no document.
LEMMA MenuDeleteFed ==
  ASSUME Inv, Fed, UnsavedIsNew, NEW o, MenuDelete(o)
  PROVE  Fed' /\ UnsavedIsNew'
<1>1. /\ deleted' = deleted \cup {o} /\ hidden' = hidden \cup ({o} \ Draft)
      /\ o \in DOMAIN mem /\ mem[o].id \in Nat
      /\ UNCHANGED <<mem, disk, running, mainQ, view, listeners>>
  BY DEF MenuDelete, MenuRow, firestore, upload, Inv, Rows, RowsOf, Row
<1>2. WriteOnItsWay => WriteOnItsWay'
  <2>1. fsQ' = fsQ \/ (mem[o].id # NoName /\ fsQ' = Append(fsQ, DeleteDoc(mem[o].id)))
    BY DEF MenuDelete, RemoveTask
  <2>2. mem[o].id # NoName => DeleteDoc(mem[o].id) \in Call
    BY <1>1 DEF Call, DeleteDoc
  <2>3. CASE fsQ' = fsQ
    BY <2>3 DEF WriteOnItsWay
  <2>4. CASE mem[o].id # NoName /\ fsQ' = Append(fsQ, DeleteDoc(mem[o].id))
    BY <2>2, <2>4, CallAppended DEF Inv, Queues
  <2> QED  BY <2>1, <2>3, <2>4
<1>3. DOMAIN view \subseteq Nat
  BY DocsAreFunctions DEF Inv, Counts, DocsOf
<1>4. DOMAIN view \cap Live \subseteq Live' \cup hidden'
  BY <1>1, <1>3, DraftAssumption DEF Live
<1>5. Mirrors => Mirrors'
  BY <1>1, <1>2, <1>4, MirrorsStay DEF Live
<1> QED  BY <1>1, <1>5 DEF Fed, UnsavedIsNew

LEMMA LooksFed ==
  ASSUME Inv, Fed, UnsavedIsNew,
         Dismiss \/ PullToRefresh \/ (\E kind, o : Open(kind, o)) \/ UNCHANGED vars
  PROVE  Fed' /\ UnsavedIsNew'
<1>1. UNCHANGED <<mem, deleted, disk, running, mainQ, view, listeners, hidden>>
  BY DEF Dismiss, PullToRefresh, Open, coreData, upload, firestore, vars
<1>2. WriteOnItsWay => WriteOnItsWay'
  <2>1. CASE PullToRefresh
    BY <2>1, CallAppended DEF PullToRefresh, Inv, Queues, Call, Listen
  <2>2. CASE fsQ' = fsQ
    BY <2>2 DEF WriteOnItsWay
  <2> QED  BY <2>1, <2>2 DEF Dismiss, PullToRefresh, Open, vars
<1>3. Mirrors => Mirrors'
  BY <1>1, <1>2, MirrorsStay DEF Live
<1> QED  BY <1>1, <1>3 DEF Fed, UnsavedIsNew

-----------------------------------------------------------------------------
(* Firestore.                                                              *)

LEMMA FsUnsaved ==
  ASSUME UnsavedIsNew, FsListen \/ FsSet \/ FsDelete \/ FsAck \/ FsReject \/ Remote
  PROVE  UnsavedIsNew'
BY DEF FsListen, FsSet, FsDelete, FsAck, FsReject, Remote, coreData, upload, UnsavedIsNew

\* What raises a snapshot of the documents as they become.
LEMMA RaisedFed ==
  ASSUME Inv, NEW n \in Nat, mainQ' = mainQ \o Raise(view', n), view' \in Docs,
         listeners' > 0 => n > 0
  PROVE  Fed'
<1> SUFFICES ASSUME listeners' > 0 PROVE LatestIs(mainQ', view') /\ Pending(mainQ')
  BY DEF Fed
<1> QED  BY RaiseLatest DEF Inv, Queues

LEMMA FsDeleteFed ==
  ASSUME Inv, Fed, FsDelete
  PROVE  Fed'
<1> DEFINE n == Head(fsQ).name
<1>1. /\ view' = Restrict(view, DOMAIN view \ {n}) /\ FsCall("delete")
      /\ UNCHANGED <<mem, deleted, disk, listeners, hidden>>
      /\ mainQ' = IF n \in DOMAIN view THEN mainQ \o Raise(view', listeners) ELSE mainQ
  BY DEF FsDelete, coreData
<1>2. view' \in Docs /\ view \in Docs /\ listeners \in Nat
  BY <1>1, RestrictDocs DEF Inv, Counts
<1> HIDE DEF n
<1>3. CASE n \in DOMAIN view
  BY <1>1, <1>2, <1>3, RaisedFed
<1>4. CASE n \notin DOMAIN view
  <2>1. DocsOf(view)
    BY <1>2, DocsAreFunctions
  <2>2. view' = view
    BY <1>1, <1>4, <2>1 DEF DocsOf, Restrict
  <2>3. WriteOnItsWay => WriteOnItsWay'
    BY <1>1, CallTaken DEF Inv, Queues
  <2>4. Mirrors => Mirrors'
    BY <1>1, <2>2, <2>3, MirrorsStay DEF Live
  <2> QED  BY <1>1, <1>4, <2>2, <2>4 DEF Fed
<1> QED  BY <1>3, <1>4

LEMMA FsAckFed ==
  ASSUME Inv, Fed, FsAck
  PROVE  Fed'
<1>1. /\ UNCHANGED <<mem, deleted, disk, listeners, hidden, fsQ, view>>
      /\ \/ mainQ' = Append(mainQ, [ev |-> "removed"])
         \/ mainQ' = mainQ \o Raise(view, listeners)
         \/ mainQ' = mainQ
  BY DEF FsAck, coreData
<1>2. view \in Docs /\ listeners \in Nat /\ [ev |-> "removed"] \in Event
  BY DEF Inv, Counts, Event
<1>3. Mirrors => Mirrors'
  BY <1>1 DEF Mirrors, Live, Explained, WriteOnItsWay
<1>4. CASE mainQ' = mainQ \o Raise(view, listeners)
  BY <1>1, <1>2, <1>4, RaisedFed
<1>5. CASE mainQ' = Append(mainQ, [ev |-> "removed"])
  <2>1. LatestIs(mainQ, view) => LatestIs(mainQ', view) /\ (Pending(mainQ) => Pending(mainQ'))
    BY <1>2, <1>5, AppendOther DEF Inv, Queues
  <2> QED  BY <1>1, <1>3, <2>1 DEF Fed
<1>6. CASE mainQ' = mainQ
  BY <1>1, <1>3, <1>6 DEF Fed
<1> QED  BY <1>1, <1>4, <1>5, <1>6

LEMMA FirestoreFed ==
  ASSUME Inv, Inv', Fed, FsListen \/ FsSet \/ FsReject \/ Remote
  PROVE  Fed'
<1>1. view' \in Docs /\ listeners \in Nat
  BY DEF Inv, Counts
<1>2. CASE FsListen
  <2>1. mainQ' = mainQ \o Raise(view', 1)
    BY <1>2 DEF FsListen
  <2> QED  BY <1>1, <2>1, RaisedFed
<1>3. CASE FsSet \/ Remote
  <2>1. mainQ' = mainQ \o Raise(view', listeners) /\ listeners' = listeners
    BY <1>3 DEF FsSet, Remote
  <2> QED  BY <1>1, <2>1, RaisedFed
<1>4. CASE FsReject
  BY <1>4 DEF FsReject, Fed
<1> QED  BY <1>2, <1>3, <1>4

LEMMA NextFed ==
  ASSUME Inv, Inv', Fed, UnsavedIsNew, [Next]_vars
  PROVE  Fed' /\ UnsavedIsNew'
<1>1. CASE Workers \/ WaitReturns
  BY <1>1, WorkerFed, WaitReturnsFed DEF Workers
<1>2. CASE MainQueue \/ SwitchTab
  BY <1>2, SavesFed, SnapshotFed DEF MainQueue
<1>3. ASSUME NEW c \in Text, ConfirmAdd(c) \/ ConfirmEdit(c) \/ MenuStatus(c)
      PROVE  Fed' /\ UnsavedIsNew'
  BY <1>3, ConfirmFed DEF ConfirmAdd, ConfirmEdit, MenuStatus
<1>4. ASSUME NEW o, MenuDelete(o) \/ \E l \in Draft : MenuCopy(o, l)
      PROVE  Fed' /\ UnsavedIsNew'
  BY <1>4, MenuDeleteFed, MenuCopyFed
<1>5. ASSUME NEW l \in Draft, OpenAdd(l) PROVE Fed' /\ UnsavedIsNew'
  BY <1>5, OpenAddFed
<1>6. CASE Dismiss \/ PullToRefresh \/ (\E kind, o : Open(kind, o)) \/ UNCHANGED vars
  BY <1>6, LooksFed
<1>7. CASE FsListen \/ FsSet \/ FsReject \/ Remote
  BY <1>7, FirestoreFed, FsUnsaved
<1>8. CASE FsDelete \/ FsAck
  BY <1>8, FsDeleteFed, FsAckFed, FsUnsaved
<1>9. CASE Crash
  <2>1. listeners' = 0 /\ Saved(disk) /\ StartSync(disk)
    BY <1>9 DEF Crash
  <2>2. UnsavedIsNew'
    BY <2>1, SavedIsNew DEF StartSync
  <2> QED  BY <2>1, <2>2 DEF Fed
<1>10. CASE User
  BY <1>2, <1>3, <1>4, <1>5, <1>6, <1>10 DEF User
<1> QED  BY <1>1, <1>2, <1>6, <1>7, <1>8, <1>9, <1>10 DEF Next, Firestore

\* When every queue has drained and a listener is alive, the list shows exactly the
\* documents Firestore has, apart from blank rows of open screens and rows deleted
\* since the last snapshot: no order of uploads, remote changes, rejections and
\* crashes leaves an old list on the screen.
THEOREM ListMirrorsDocuments == Spec => []SettledMirrors
<1>1. Init => Fed /\ UnsavedIsNew
  BY DEF Init, Fed, UnsavedIsNew
<1>2. Inv /\ Inv' /\ Fed /\ UnsavedIsNew /\ [Next]_vars => Fed' /\ UnsavedIsNew'
  BY NextFed
<1>3. Inv /\ Fed => SettledMirrors
  <2> SUFFICES ASSUME Inv, Fed, Settled
               PROVE  /\ \A o \in Live : mem[o] = NewRow \/
                           (o \in DOMAIN view /\ mem[o].content = view[o])
                      /\ DOMAIN view \subseteq Live \cup hidden
    BY DEF SettledMirrors
  <2>1. Mirrors
    BY DEF Fed, Settled, Pending
  <2>2. ~ WriteOnItsWay
    BY DEF Settled, WriteOnItsWay
  <2>3. \A o \in Live : ~ Unsent(mem[o])
    BY IdleIsSent DEF Settled, Inv, Live
  <2> QED  BY <2>1, <2>2, <2>3 DEF Mirrors, Explained
<1> QED
  BY <1>1, <1>2, <1>3, Invariance, PTL DEF Spec
=============================================================================
