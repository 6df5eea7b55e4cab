-------------------------- MODULE TaskRemindersProofs --------------------------
(***************************************************************************)
(* TLAPS proofs about TaskReminders, for every finite set of documents and *)
(* drafts and every bound.                                                 *)
(***************************************************************************)
EXTENDS TaskReminders, TLAPS

-----------------------------------------------------------------------------
(* The parts of the inductive invariant.                                   *)

\* No identifier is carried by two rows of f.
Distinct(f) == \A o, p \in DOMAIN f : o # p /\ f[o] = f[p] => f[o] = NoId

\* The screen's own identifier, once its row is gone, is carried by no row.
ScreenIsDistinct == screen # NoScreen => screen.id = NoId \/ screen.id \notin IdsOf(mem)

\* The object whose request the button's handler makes anew.
Confirmed(o, step) == handler.step = step /\ screen.attached /\ o = screen.obj

\* The context holds every row of the store, and a stored identifier is that of
\* the row or absent, unless the handler has yet to save a new one.
ContextHoldsStore ==
  /\ DOMAIN disk \subseteq DOMAIN mem
  /\ \A o \in DOMAIN disk : disk[o] \in {NoId, mem[o]} \/ Confirmed(o, "save")

\* Rows that are in the context only have no reminder yet, but for the same one.
UnsavedHaveNone ==
  \A o \in DOMAIN mem \ DOMAIN disk : mem[o] = NoId \/ Confirmed(o, "save")

\* Every row in the context names a request that is pending or was delivered, but
\* for those whose request the running handler has just cancelled.
RowsNameRequests ==
  \A o \in DOMAIN mem : \/ mem[o] \in {NoId} \cup center \cup fired \cup cut
                        \/ handler.step = "replace" /\ o \in Live
                        \/ Confirmed(o, "add")

\* While rows get their reminders nothing is deleted, and those still to get one
\* are saved without one.
TodoIsUnarmed ==
  handler.step = "rearm" => deleted = {} /\ \A o \in handler.todo : o \in DOMAIN disk /\ disk[o] = NoId

\* The reminders of rows the user deleted are lost, and between the two steps
\* of a snapshot nothing else is pending.
DeletedAreLost == \A o \in deleted : mem[o] \in lost \cup {NoId}
CancelledFirst == handler.step = "replace" => center \subseteq lost

\* Before the button's handler makes a new request the old one is not pending.
ConfirmedIsCancelled == \A o \in DOMAIN mem : Confirmed(o, "add") => mem[o] \notin center

RowsInv == /\ Distinct(mem) /\ Distinct(disk) /\ ScreenIsDistinct
           /\ ContextHoldsStore /\ UnsavedHaveNone /\ RowsNameRequests /\ TodoIsUnarmed
CenterInv == /\ DeletedAreLost /\ CancelledFirst /\ ConfirmedIsCancelled
             /\ RemindersAreAccounted
Inv == TypeOK /\ RowsInv /\ CenterInv

-----------------------------------------------------------------------------
LEMMA InitInv == Init => Inv
  BY LimitAssumption DEF Init, Inv, TypeOK, RowsInv, CenterInv, Distinct,
     ScreenIsDistinct, ContextHoldsStore, RowsNameRequests, Confirmed, UnsavedHaveNone,
     TodoIsUnarmed, DeletedAreLost, CancelledFirst, ConfirmedIsCancelled,
     RemindersAreAccounted, IdsOf, NoScreen, Idle, Live, TaskRow

\* A fresh identifier is larger than every identifier in use.
LEMMA AddFresh ==
  ASSUME TypeOK, NEW c, AddRequest(c)
  PROVE  /\ asked' \in Nat /\ asked' = asked + 1
         /\ \A n \in 0 .. asked : n # asked' /\ n \in 0 .. asked'
         /\ asked' \in 1 .. asked' /\ asked' # NoId
         /\ \A n \in 1 .. asked : n \in 1 .. asked'
         /\ center' = c \cup {asked'}
  BY DEF AddRequest, TypeOK, NoId

\* What a save does to the context and the store.
LEMMA SaveAsRows ==
  ASSUME NEW m, SaveAs(m)
  PROVE  /\ DOMAIN mem' = DOMAIN m \ deleted /\ disk' = mem' /\ deleted' = {}
         /\ \A o \in DOMAIN mem' : mem'[o] = m[o]
  BY DEF SaveAs, Restrict

LEMMA SetRows ==
  ASSUME NEW f, NEW x, NEW v
  PROVE  /\ DOMAIN Set(f, x, v) = DOMAIN f \cup {x}
         /\ \A y \in DOMAIN f \cup {x} : Set(f, x, v)[y] = IF y = x THEN v ELSE f[y]
  BY DEF Set

\* After a save context and store agree, and what only relates them holds.
LEMMA SavedAgree ==
  ASSUME disk' = mem', deleted' = {}, Distinct(mem)', ScreenIsDistinct',
         RowsNameRequests', handler' = Idle
  PROVE  RowsInv' /\ DeletedAreLost' /\ CancelledFirst' /\ ConfirmedIsCancelled'
  BY DEF RowsInv, Distinct, ContextHoldsStore, RowsNameRequests, Confirmed,
     UnsavedHaveNone, TodoIsUnarmed, Live, DeletedAreLost, CancelledFirst,
     ConfirmedIsCancelled, Idle, NoId

-----------------------------------------------------------------------------
(* One lemma per action.                                                   *)

LEMMA OpenAddInv ==
  ASSUME Inv, NEW l \in Draft, OpenAdd(l)
  PROVE  Inv'
<1> USE DEF Inv
<1>1. /\ l \notin DOMAIN mem /\ l \notin DOMAIN disk /\ DOMAIN mem' = DOMAIN mem \cup {l}
      /\ mem'[l] = NoId /\ \A o \in DOMAIN mem : mem'[o] = mem[o]
  BY DEF OpenAdd, Set
<1>2. IdsOf(mem') = IdsOf(mem)
  BY <1>1 DEF IdsOf
<1>3. TypeOK'
  BY <1>1 DEF OpenAdd, TypeOK, TaskRow, NoId, NoScreen, MainFree, Idle
<1>4. RowsInv'
  BY <1>1, <1>2 DEF OpenAdd, RowsInv, Distinct, ScreenIsDistinct, ContextHoldsStore,
     RowsNameRequests, Confirmed, UnsavedHaveNone, TodoIsUnarmed, Live, MainFree, Idle
<1>5. CenterInv'
  BY <1>1, <1>2 DEF OpenAdd, CenterInv, DeletedAreLost, CancelledFirst,
     ConfirmedIsCancelled, Confirmed, RemindersAreAccounted, MainFree, Idle, TypeOK
<1> QED
  BY <1>3, <1>4, <1>5

LEMMA OpenEditInv ==
  ASSUME Inv, NEW o \in DOMAIN mem, OpenEdit(o)
  PROVE  Inv'
<1> USE DEF Inv, OpenEdit, rows, MainFree, Idle
<1>1. TypeOK'
  BY DEF TypeOK, TaskRow, NoId, NoScreen, MainFree, Idle
<1>2. RowsInv' /\ CenterInv'
  BY DEF RowsInv, Distinct, ScreenIsDistinct, ContextHoldsStore, RowsNameRequests,
     Confirmed, UnsavedHaveNone, TodoIsUnarmed, Live, CenterInv, DeletedAreLost,
     CancelledFirst, ConfirmedIsCancelled, RemindersAreAccounted
<1> QED
  BY <1>1, <1>2

\* The identifier of the captured object is that of its row, or of none.
LEMMA CapturedId ==
  ASSUME Inv, screen # NoScreen
  PROVE  /\ Captured \in 0 .. asked
         /\ screen.attached => screen.obj \in DOMAIN mem /\ Captured = mem[screen.obj]
         /\ \A p \in DOMAIN mem : mem[p] = Captured /\ mem[p] # NoId =>
               screen.attached /\ p = screen.obj
<1>1. CASE screen.attached
  BY <1>1 DEF Inv, TypeOK, Captured, RowsInv, Distinct
<1>2. CASE ~ screen.attached
  BY <1>2 DEF Inv, TypeOK, Captured, RowsInv, ScreenIsDistinct, IdsOf
<1> QED
  BY <1>1, <1>2

LEMMA ConfirmCancelsInv ==
  ASSUME Inv, ConfirmCancels
  PROVE  Inv'
<1> USE DEF Inv
<1>1. /\ handler = Idle /\ handler' = [step |-> "add"] /\ screen # NoScreen
      /\ center' = center \ {Captured}
      /\ UNCHANGED <<mem, deleted, disk, screen, asked, crashes, fired, lost, cut>>
  BY DEF ConfirmCancels, MainFree, rows
<1>2. TypeOK'
  BY <1>1 DEF TypeOK
<1>3. RowsNameRequests'
  <2> SUFFICES ASSUME NEW p \in DOMAIN mem, mem[p] \notin {NoId} \cup center' \cup fired \cup cut
               PROVE  screen.attached /\ p = screen.obj
    BY <1>1 DEF RowsNameRequests, Confirmed
  <2>1. mem[p] \in {NoId} \cup center \cup fired \cup cut
    BY <1>1 DEF RowsInv, RowsNameRequests, Confirmed, Idle
  <2>2. mem[p] = Captured /\ mem[p] # NoId
    BY <1>1, <2>1
  <2> QED
    BY <1>1, <2>2, CapturedId
<1>4. RowsInv'
  BY <1>1, <1>3 DEF RowsInv, Distinct, ScreenIsDistinct, ContextHoldsStore, Confirmed,
     UnsavedHaveNone, TodoIsUnarmed, Idle
<1>5. CenterInv'
  BY <1>1, CapturedId DEF CenterInv, DeletedAreLost, CancelledFirst,
     ConfirmedIsCancelled, Confirmed, RemindersAreAccounted
<1> QED
  BY <1>2, <1>4, <1>5

LEMMA ConfirmAddsInv ==
  ASSUME Inv, ConfirmAdds
  PROVE  Inv'
<1> USE DEF Inv
<1> DEFINE o == screen.obj
<1>1. /\ handler.step = "add" /\ handler' = [step |-> "save"] /\ screen # NoScreen
      /\ lost' = (IF screen.attached /\ o \in Live THEN lost ELSE lost \cup {asked'})
      /\ UNCHANGED <<deleted, disk, screen, crashes, fired, cut>>
  BY DEF ConfirmAdds, TypeOK, Idle
<1>2. /\ asked' \in Nat /\ asked' = asked + 1
      /\ \A n \in 0 .. asked : n # asked' /\ n \in 0 .. asked'
      /\ asked' \in 1 .. asked' /\ asked' # NoId
      /\ \A n \in 1 .. asked : n \in 1 .. asked'
      /\ center' = center \cup {asked'}
  BY AddFresh DEF ConfirmAdds
<1>3. screen.attached => o \in DOMAIN mem
  BY <1>1, CapturedId
<1>4. /\ DOMAIN mem' = DOMAIN mem
      /\ \A p \in DOMAIN mem : mem'[p] = IF screen.attached /\ p = o THEN asked' ELSE mem[p]
  <2>1. CASE screen.attached
    BY <2>1, <1>3 DEF ConfirmAdds, Set
  <2>2. CASE ~ screen.attached
    BY <2>2 DEF ConfirmAdds
  <2> QED
    BY <2>1, <2>2
<1>5. \A p \in DOMAIN mem : mem[p] \in 0 .. asked
  BY DEF TypeOK
<1>6. TypeOK'
  <2>1. \A p \in DOMAIN mem' : mem'[p] \in 0 .. asked'
    BY <1>2, <1>4, <1>5
  <2>2. center' \cup fired' \cup lost' \cup cut' \subseteq 1 .. asked'
    BY <1>1, <1>2 DEF TypeOK
  <2>3. /\ screen' \in [kind : {"add", "edit"}, obj : TaskRow,
                        attached : BOOLEAN, id : 0 .. asked']
        /\ screen'.attached => screen'.obj \in DOMAIN mem'
    BY <1>1, <1>2, <1>3, <1>4 DEF TypeOK
  <2>4. handler' \in [step : {"add", "save"}] /\ screen' # NoScreen
    BY <1>1
  <2>5. \A p \in DOMAIN disk : disk[p] \in 0 .. asked'
    BY <1>2 DEF TypeOK
  <2> QED
    BY <1>1, <1>2, <1>4, <2>1, <2>2, <2>3, <2>4, <2>5 DEF TypeOK
<1>7. Distinct(mem)' /\ Distinct(disk)'
  BY <1>1, <1>2, <1>4, <1>5 DEF RowsInv, Distinct
<1>8. ScreenIsDistinct'
  BY <1>1, <1>2, <1>4, <1>5 DEF RowsInv, ScreenIsDistinct, TypeOK, IdsOf
<1>9. ContextHoldsStore' /\ UnsavedHaveNone'
  BY <1>1, <1>4 DEF RowsInv, ContextHoldsStore, UnsavedHaveNone, Confirmed
<1>10. RowsNameRequests'
  BY <1>1, <1>2, <1>4 DEF RowsInv, RowsNameRequests, Confirmed
<1>11. DeletedAreLost'
  BY <1>1, <1>4 DEF CenterInv, DeletedAreLost, Live, TypeOK
<1>12. RemindersAreAccounted'
  <2> SUFFICES ASSUME NEW n \in center', n \notin lost' PROVE n \in IdsOf(mem')
    BY DEF RemindersAreAccounted
  <2>1. CASE n = asked'
    BY <2>1, <1>1, <1>2, <1>3, <1>4 DEF IdsOf
  <2>2. CASE n # asked'
    <3>1. n \in center /\ n \notin lost
      BY <2>2, <1>1, <1>2
    <3>2. PICK p \in DOMAIN mem : mem[p] = n /\ n # NoId
      BY <3>1 DEF CenterInv, RemindersAreAccounted, IdsOf
    <3>3. ~ (screen.attached /\ p = o)
      BY <3>1, <3>2, <1>1 DEF CenterInv, ConfirmedIsCancelled, Confirmed
    <3> QED
      BY <3>2, <3>3, <1>4 DEF IdsOf
  <2> QED
    BY <2>1, <2>2
<1> QED
  BY <1>1, <1>6, <1>7, <1>8, <1>9, <1>10, <1>11, <1>12
     DEF RowsInv, TodoIsUnarmed, CenterInv, CancelledFirst, ConfirmedIsCancelled,
        Confirmed
\* A save that changes no identifier.
LEMMA SaveInv ==
  ASSUME Inv, NEW m, SaveAs(m), handler = Idle \/ handler.step = "save", handler' = Idle,
         DOMAIN mem \subseteq DOMAIN m, DOMAIN m \subseteq TaskRow,
         \A p \in DOMAIN m : m[p] = IF p \in DOMAIN mem THEN mem[p] ELSE NoId,
         screen' = NoScreen \/ screen' = Detached(screen, deleted),
         UNCHANGED <<center, asked, crashes, fired, lost, cut>>
  PROVE  Inv'
<1> USE DEF Inv
<1>1. /\ DOMAIN mem' = DOMAIN m \ deleted /\ disk' = mem' /\ deleted' = {}
      /\ \A o \in DOMAIN mem' : mem'[o] = IF o \in DOMAIN mem THEN mem[o] ELSE NoId
  BY SaveAsRows
<1>2. IdsOf(mem') \subseteq IdsOf(mem)
  BY <1>1 DEF IdsOf
<1>3. TypeOK'
  <2>1. \A o \in DOMAIN mem' : mem'[o] \in 0 .. asked
    BY <1>1 DEF TypeOK, NoId
  <2>2. \/ screen' = NoScreen
        \/ /\ screen' \in [kind : {"add", "edit"}, obj : TaskRow,
                           attached : BOOLEAN, id : 0 .. asked]
           /\ screen'.attached => screen'.obj \in DOMAIN mem'
    <3>1. CASE screen' = NoScreen
      BY <3>1
    <3>2. CASE screen' = Detached(screen, deleted) /\ screen = NoScreen
      BY <3>2 DEF Detached
    <3>3. CASE screen' = Detached(screen, deleted) /\ screen # NoScreen
      BY <3>3, <1>1 DEF Detached, TypeOK
    <3> QED
      BY <3>1, <3>2, <3>3
  <2> QED
    BY <1>1, <2>1, <2>2 DEF TypeOK, MainFree, Idle
<1>4. Distinct(mem)'
  BY <1>1 DEF RowsInv, Distinct
<1>5. ScreenIsDistinct'
  <2>1. CASE screen' = NoScreen
    BY <2>1 DEF ScreenIsDistinct
  <2>2. CASE screen' = screen
    BY <2>2, <1>2 DEF RowsInv, ScreenIsDistinct
  <2>3. CASE screen # NoScreen /\ screen.attached /\ screen.obj \in deleted
             /\ screen' = [screen EXCEPT !.attached = FALSE, !.id = mem[screen.obj]]
    <3>1. screen'.id = mem[screen.obj] /\ screen.obj \in DOMAIN mem
      BY <2>3 DEF TypeOK
    <3>2. screen'.id # NoId => screen'.id \notin IdsOf(mem')
      BY <3>1, <2>3, <1>1 DEF IdsOf, RowsInv, Distinct
    <3> QED
      BY <3>2 DEF ScreenIsDistinct
  <2> QED
    BY <2>1, <2>2, <2>3 DEF Detached
<1>6. RemindersAreAccounted'
  <2> SUFFICES ASSUME NEW n \in center, n \notin lost PROVE n \in IdsOf(mem')
    BY DEF RemindersAreAccounted
  <2>1. PICK p \in DOMAIN mem : mem[p] = n /\ n # NoId
    BY DEF CenterInv, RemindersAreAccounted, IdsOf
  <2>2. p \notin deleted
    BY <2>1 DEF CenterInv, DeletedAreLost
  <2> QED
    BY <2>1, <2>2, <1>1 DEF IdsOf
<1>7. RowsNameRequests'
  BY <1>1 DEF RowsInv, RowsNameRequests, Confirmed, Idle
<1> QED
  BY <1>1, <1>3, <1>4, <1>5, <1>6, <1>7, SavedAgree DEF CenterInv

LEMMA MenuDeleteInv ==
  ASSUME Inv, NEW o \in DOMAIN mem, MenuDelete(o)
  PROVE  Inv'
<1> USE DEF Inv, MenuDelete
<1>1. TypeOK'
  BY DEF TypeOK, MainFree, Idle, NoId
<1>2. RowsInv'
  BY DEF RowsInv, Distinct, ScreenIsDistinct, ContextHoldsStore, RowsNameRequests,
     Confirmed, UnsavedHaveNone, TodoIsUnarmed, Live, MainFree, Idle
<1>3. CenterInv'
  BY DEF CenterInv, DeletedAreLost, CancelledFirst, ConfirmedIsCancelled, Confirmed,
     RemindersAreAccounted
<1> QED
  BY <1>1, <1>2, <1>3

LEMMA SnapshotCancelsInv ==
  ASSUME Inv, NEW docs \in SUBSET Doc, SnapshotCancels(docs)
  PROVE  Inv'
<1> USE DEF Inv, SnapshotCancels, rows
<1>1. TypeOK'
  BY DEF TypeOK
<1>2. handler = Idle /\ handler'.step = "replace"
  BY DEF MainFree
<1>3. RowsNameRequests'
  <2> SUFFICES ASSUME NEW o \in DOMAIN mem, o \notin Live
               PROVE  mem[o] \in {NoId} \cup center' \cup fired \cup cut
    BY <1>2 DEF RowsNameRequests, Live
  <2>1. mem[o] \in {NoId} \cup center \cup fired \cup cut
    BY <1>2 DEF RowsInv, RowsNameRequests, Confirmed, Idle
  <2>2. mem[o] = NoId \/ \A p \in Live : mem[p] # mem[o]
    BY DEF RowsInv, Distinct, Live
  <2> QED
    BY <2>1, <2>2
<1>4. RowsInv'
  BY <1>2, <1>3 DEF RowsInv, Distinct, ScreenIsDistinct, ContextHoldsStore, Confirmed,
     UnsavedHaveNone, TodoIsUnarmed, Idle
<1>5. center' \subseteq lost
  BY DEF CenterInv, RemindersAreAccounted, DeletedAreLost, IdsOf, Live
<1>6. CenterInv'
  BY <1>5, <1>2 DEF CenterInv, DeletedAreLost, CancelledFirst, ConfirmedIsCancelled,
     Confirmed, RemindersAreAccounted
<1> QED
  BY <1>1, <1>4, <1>6

LEMMA SnapshotReplacesInv ==
  ASSUME Inv, SnapshotReplaces
  PROVE  Inv'
<1> USE DEF Inv
<1> DEFINE docs == handler.docs
           kept == Live \ DOMAIN disk
           gone == DOMAIN disk \cup deleted
<1>1. docs \subseteq Doc /\ docs \subseteq TaskRow /\ kept \subseteq DOMAIN mem
  BY DEF SnapshotReplaces, TypeOK, Idle, TaskRow, Live
<1>2. /\ DOMAIN mem' = kept \cup docs /\ disk' = mem' /\ deleted' = {}
      /\ \A o \in DOMAIN mem' : mem'[o] = NoId
      /\ handler' = [step |-> "rearm", todo |-> kept \cup docs]
      /\ screen' = Detached(screen, gone)
      /\ UNCHANGED <<center, asked, crashes, fired, lost, cut>>
  BY DEF SnapshotReplaces, RowsInv, UnsavedHaveNone, Confirmed, Live
<1> HIDE DEF docs
<1>3. TypeOK'
  <2>1. \A o \in DOMAIN mem' : mem'[o] \in 0 .. asked
    BY <1>2 DEF TypeOK, NoId
  <2>2. \/ screen' = NoScreen
        \/ /\ screen' \in [kind : {"add", "edit"}, obj : TaskRow,
                           attached : BOOLEAN, id : 0 .. asked]
           /\ screen'.attached => screen'.obj \in DOMAIN mem'
    <3>1. CASE screen = NoScreen
      BY <3>1, <1>2 DEF Detached
    <3>2. CASE screen # NoScreen
      BY <3>2, <1>2 DEF Detached, TypeOK, Live
    <3> QED
      BY <3>1, <3>2
  <2>3. handler' \in [step : {"rearm"}, todo : SUBSET DOMAIN mem']
    BY <1>2
  <2>4. DOMAIN mem' \subseteq TaskRow
    BY <1>1, <1>2 DEF TypeOK
  <2> QED
    BY <1>2, <2>1, <2>2, <2>3, <2>4 DEF TypeOK
<1>4. IdsOf(mem') = {}
  BY <1>2 DEF IdsOf
<1>5. RowsInv'
  BY <1>2, <1>4 DEF RowsInv, Distinct, ScreenIsDistinct, ContextHoldsStore,
     RowsNameRequests, Confirmed, UnsavedHaveNone, TodoIsUnarmed, Live
<1>6. CenterInv'
  BY <1>2 DEF SnapshotReplaces, CenterInv, DeletedAreLost, CancelledFirst,
     ConfirmedIsCancelled, Confirmed, RemindersAreAccounted
<1> QED
  BY <1>3, <1>5, <1>6

LEMMA RearmInv ==
  ASSUME Inv, NEW o \in DOMAIN mem, Rearm(o)
  PROVE  Inv'
<1> USE DEF Inv
<1>1. /\ asked' = asked + 1 /\ asked' \in Nat
      /\ \A n \in 0 .. asked : n # asked' /\ n \in 0 .. asked'
      /\ asked' \in 1 .. asked' /\ asked' # NoId
      /\ \A n \in 1 .. asked : n \in 1 .. asked'
      /\ center' = (center \ {mem[o]}) \cup {asked'}
  BY AddFresh DEF Rearm
<1>2. /\ DOMAIN mem' = DOMAIN mem /\ mem'[o] = asked'
      /\ \A p \in DOMAIN mem \ {o} : mem'[p] = mem[p]
  BY DEF Rearm
<1>3. /\ handler.step = "rearm" /\ o \in handler.todo
      /\ handler \in [step : {"rearm"}, todo : SUBSET DOMAIN mem]
      /\ handler' = [step |-> "rearm", todo |-> handler.todo \ {o}]
      /\ UNCHANGED <<deleted, disk, screen, crashes, fired, lost, cut>>
  <2>1. handler.step = "rearm" /\ o \in handler.todo
        /\ handler' = [handler EXCEPT !.todo = @ \ {o}]
        /\ UNCHANGED <<deleted, disk, screen, crashes, fired, lost, cut>>
    BY DEF Rearm
  <2>2. handler # Idle
    BY <2>1 DEF Idle
  <2>3. handler \in [step : {"rearm"}, todo : SUBSET DOMAIN mem]
    BY <2>1, <2>2 DEF TypeOK
  <2> QED
    BY <2>1, <2>3
<1>4. TypeOK'
  <2>1. \A p \in DOMAIN mem' : mem'[p] \in 0 .. asked'
    BY <1>1, <1>2 DEF TypeOK
  <2>2. \/ screen' = NoScreen
        \/ /\ screen' \in [kind : {"add", "edit"}, obj : TaskRow,
                           attached : BOOLEAN, id : 0 .. asked']
           /\ screen'.attached => screen'.obj \in DOMAIN mem'
    BY <1>1, <1>2, <1>3 DEF TypeOK
  <2>3. handler' \in [step : {"rearm"}, todo : SUBSET DOMAIN mem']
    BY <1>2, <1>3
  <2> QED
    BY <1>1, <1>2, <1>3, <2>1, <2>2, <2>3 DEF TypeOK
<1>5. Distinct(mem)' /\ Distinct(disk)'
  BY <1>1, <1>2, <1>3 DEF RowsInv, Distinct, TypeOK
<1>6. ScreenIsDistinct'
  BY <1>1, <1>2, <1>3 DEF RowsInv, ScreenIsDistinct, TypeOK, IdsOf
<1>7. ContextHoldsStore' /\ RowsNameRequests'
  <2>1. ContextHoldsStore'
    BY <1>1, <1>2, <1>3 DEF RowsInv, ContextHoldsStore, Confirmed, TodoIsUnarmed
  <2>2. RowsNameRequests'
    <3> SUFFICES ASSUME NEW p \in DOMAIN mem
                 PROVE  mem'[p] \in {NoId} \cup center' \cup fired \cup cut
      BY <1>2, <1>3 DEF RowsNameRequests
    <3>1. CASE p = o
      BY <3>1, <1>1, <1>2
    <3>2. CASE p # o
      <4>1. mem[p] \in {NoId} \cup center \cup fired \cup cut
        BY <1>3 DEF RowsInv, RowsNameRequests, Confirmed
      <4>2. mem[p] = NoId \/ mem[p] # mem[o]
        BY <3>2 DEF RowsInv, Distinct
      <4> QED
        BY <4>1, <4>2, <3>2, <1>1, <1>2
    <3> QED
      BY <3>1, <3>2
  <2> QED
    BY <2>1, <2>2
<1>8. UnsavedHaveNone'
  BY <1>1, <1>2, <1>3 DEF RowsInv, UnsavedHaveNone, TodoIsUnarmed, Confirmed
<1>9. TodoIsUnarmed'
  BY <1>3 DEF RowsInv, TodoIsUnarmed
<1>10. RemindersAreAccounted'
  <2> SUFFICES ASSUME NEW n \in center', n \notin lost PROVE n \in IdsOf(mem')
    BY <1>3 DEF RemindersAreAccounted
  <2>1. CASE n = asked'
    BY <2>1, <1>1, <1>2 DEF IdsOf
  <2>2. CASE n # asked'
    <3>1. PICK p \in DOMAIN mem : mem[p] = n /\ n # NoId
      BY <2>2, <1>1 DEF CenterInv, RemindersAreAccounted, IdsOf
    <3>2. p # o
      BY <2>2, <3>1, <1>1
    <3> QED
      BY <3>1, <3>2, <1>2 DEF IdsOf
  <2> QED
    BY <2>1, <2>2
<1>11. CenterInv'
  BY <1>3, <1>10 DEF CenterInv, DeletedAreLost, CancelledFirst, ConfirmedIsCancelled,
     Confirmed, RowsInv, TodoIsUnarmed
<1> QED
  BY <1>4, <1>5, <1>6, <1>7, <1>8, <1>9, <1>11 DEF RowsInv

LEMMA SnapshotEndsInv ==
  ASSUME Inv, SnapshotEnds
  PROVE  Inv'
<1> USE DEF Inv, SnapshotEnds, rows
<1>1. TypeOK'
  BY DEF TypeOK
<1>2. RowsInv' /\ CenterInv'
  BY DEF RowsInv, Distinct, ScreenIsDistinct, ContextHoldsStore, RowsNameRequests,
     Confirmed, UnsavedHaveNone, TodoIsUnarmed, Live, CenterInv, DeletedAreLost,
     CancelledFirst, ConfirmedIsCancelled, RemindersAreAccounted, Idle
<1> QED
  BY <1>1, <1>2

LEMMA FireInv ==
  ASSUME Inv, NEW n \in center, Fire(n)
  PROVE  Inv'
<1> USE DEF Inv, Fire, rows
<1>1. TypeOK'
  BY DEF TypeOK
<1>2. RowsInv' /\ CenterInv'
  BY DEF RowsInv, Distinct, ScreenIsDistinct, ContextHoldsStore, RowsNameRequests,
     Confirmed, UnsavedHaveNone, TodoIsUnarmed, Live, CenterInv, DeletedAreLost,
     CancelledFirst, ConfirmedIsCancelled, RemindersAreAccounted
<1> QED
  BY <1>1, <1>2

LEMMA CrashInv ==
  ASSUME Inv, Crash
  PROVE  Inv'
<1> USE DEF Inv, Crash
<1>1. TypeOK'
  <2>1. cut' \subseteq 1 .. asked
    BY DEF TypeOK, NoId
  <2> QED
    BY <2>1 DEF TypeOK, Idle
<1>2. Distinct(mem)' /\ ScreenIsDistinct' /\ disk' = mem' /\ deleted' = {} /\ handler' = Idle
  BY DEF RowsInv, Distinct, ScreenIsDistinct
<1>3. RemindersAreAccounted'
  BY DEF RemindersAreAccounted
<1>4. RowsNameRequests'
  <2> SUFFICES ASSUME NEW o \in DOMAIN disk
               PROVE  disk[o] \in {NoId} \cup center \cup fired \cup cut'
    BY DEF RowsNameRequests
  <2>1. CASE o \in Unsaved
    BY <2>1
  <2>2. CASE o \notin Unsaved
    BY <2>2 DEF RowsInv, ContextHoldsStore, RowsNameRequests, Confirmed, Unsaved
  <2> QED
    BY <2>1, <2>2
<1> QED
  BY <1>1, <1>2, <1>3, <1>4, SavedAgree DEF CenterInv

-----------------------------------------------------------------------------
(* The steps that only save.                                               *)

LEMMA ConfirmCompletedInv ==
  ASSUME Inv, ConfirmCompleted
  PROVE  Inv'
<1>1. DOMAIN mem \subseteq TaskRow
  BY DEF Inv, TypeOK
<1> QED
  BY <1>1, SaveInv DEF ConfirmCompleted, MainFree

LEMMA ConfirmSavesInv ==
  ASSUME Inv, ConfirmSaves
  PROVE  Inv'
<1>1. DOMAIN mem \subseteq TaskRow
  BY DEF Inv, TypeOK
<1> QED
  BY <1>1, SaveInv DEF ConfirmSaves

LEMMA MenuCopyInv ==
  ASSUME Inv, NEW l \in Draft, MenuCopy(l)
  PROVE  Inv'
<1> DEFINE m == Set(mem, l, NoId)
<1>1. /\ DOMAIN m = DOMAIN mem \cup {l}
      /\ \A p \in DOMAIN m : m[p] = IF p \in DOMAIN mem THEN mem[p] ELSE NoId
  BY DEF Set, MenuCopy
<1>2. DOMAIN m \subseteq TaskRow
  BY <1>1 DEF Inv, TypeOK, TaskRow
<1>3. SaveAs(m) /\ MainFree /\ screen = NoScreen /\ screen' = NoScreen
      /\ UNCHANGED <<center, handler, asked, crashes, fired, lost, cut>>
  BY DEF MenuCopy
<1> HIDE DEF m
<1> QED
  BY <1>1, <1>2, <1>3, SaveInv DEF MainFree

LEMMA SavesInv ==
  ASSUME Inv, Save
  PROVE  Inv'
<1>1. DOMAIN mem \subseteq TaskRow
  BY DEF Inv, TypeOK
<1> QED
  BY <1>1, SaveInv DEF Save, MainFree

LEMMA DismissInv ==
  ASSUME Inv, Dismiss
  PROVE  Inv'
<1> USE DEF Inv, Dismiss, rows, MainFree, Idle
<1>1. TypeOK'
  BY DEF TypeOK
<1>2. RowsInv' /\ CenterInv'
  BY DEF RowsInv, Distinct, ScreenIsDistinct, ContextHoldsStore, RowsNameRequests,
     Confirmed, UnsavedHaveNone, TodoIsUnarmed, Live, CenterInv, DeletedAreLost,
     CancelledFirst, ConfirmedIsCancelled, RemindersAreAccounted
<1> QED
  BY <1>1, <1>2

-----------------------------------------------------------------------------
LEMMA StepInv == Inv /\ [Next]_vars => Inv'
<1> SUFFICES ASSUME Inv, [Next]_vars PROVE Inv'
  OBVIOUS
<1>1. CASE User
  BY <1>1, OpenAddInv, MenuCopyInv, OpenEditInv, MenuDeleteInv, ConfirmCancelsInv,
     ConfirmAddsInv, ConfirmSavesInv, ConfirmCompletedInv, DismissInv DEF User
<1>2. CASE Save
  BY <1>2, SavesInv
<1>3. CASE SnapshotHandler
  BY <1>3, SnapshotCancelsInv, SnapshotReplacesInv, RearmInv, SnapshotEndsInv
     DEF SnapshotHandler
<1>4. CASE \E n \in center : Fire(n)
  BY <1>4, FireInv
<1>5. CASE Crash
  BY <1>5, CrashInv
<1>6. CASE UNCHANGED vars
  BY <1>6 DEF vars, rows, Inv, TypeOK, RowsInv, Distinct, ScreenIsDistinct,
     ContextHoldsStore, RowsNameRequests, Confirmed, UnsavedHaveNone, TodoIsUnarmed,
     Live, CenterInv, DeletedAreLost, CancelledFirst, ConfirmedIsCancelled,
     RemindersAreAccounted
<1> QED
  BY <1>1, <1>2, <1>3, <1>4, <1>5, <1>6 DEF Next

\* Inv is an inductive invariant of the reminders.
THEOREM Invariance == Spec => []Inv
  BY InitInv, StepInv, PTL DEF Spec

\* Rows, requests, the open screen and the snapshot handler keep their types.
THEOREM TypeCorrect == Spec => []TypeOK
<1>1. Inv => TypeOK
  BY DEF Inv
<1> QED
  BY <1>1, Invariance, PTL

\* No identifier names the reminders of two tasks, so cancelling that of one
\* never cancels that of another.
THEOREM RemindersAreNotShared == Spec => []NoSharedReminder
<1>1. Inv => NoSharedReminder
  BY DEF Inv, RowsInv, Distinct, ScreenIsDistinct, NoSharedReminder
<1> QED
  BY <1>1, Invariance, PTL

\* A pending reminder is named by a row, unless its task was deleted, its row
\* was gone when the reminder was made, or a crash cut its row off.
THEOREM NoReminderLeaks == Spec => []RemindersAreAccounted
<1>1. Inv => RemindersAreAccounted
  BY DEF Inv, CenterInv
<1> QED
  BY <1>1, Invariance, PTL

\* A stored identifier names a request that is pending or was delivered, except
\* that of a row whose request the running handler has cancelled and which it
\* has yet to save, or which a crash left in that state.
THEOREM StoreIsCurrent == Spec => []StoreIsNotStale
<1>1. Inv => StoreIsNotStale
  BY DEF Inv, RowsInv, ContextHoldsStore, RowsNameRequests, Confirmed, StoreIsNotStale,
     Unsaved
<1> QED
  BY <1>1, Invariance, PTL

-----------------------------------------------------------------------------
(* ListedAreReminded needs to know how far the snapshot handler has come: it *)
(* cancels all requests, and only when it is through every row has one.      *)

HasReminder(o) == mem[o] \in center \cup fired \/ (o \in Draft /\ mem[o] = NoId)

Armed ==
  crashes = 0 =>
    /\ handler.step \in {"idle", "add", "save"} =>
         \A o \in Live : HasReminder(o) \/ Confirmed(o, "add")
    /\ handler.step = "rearm" => \A o \in DOMAIN mem \ handler.todo : HasReminder(o)

LEMMA InitArmed == Init => Armed
BY DEF Init, Armed, Live

\* No step but a crash counts crashes.
LEMMA OnlyCrashCounts ==
  ASSUME Next, ~ Crash
  PROVE  crashes' = crashes
BY DEF Next, User, OpenAdd, MenuCopy, OpenEdit, MenuDelete, ConfirmCancels,
   ConfirmAdds, ConfirmSaves, ConfirmCompleted, Dismiss, Save, SnapshotHandler,
   SnapshotCancels, SnapshotReplaces, Rearm, SnapshotEnds, Fire

\* Only the row of the captured object loses its request ...
LEMMA ConfirmCancelsArmed ==
  ASSUME Inv, Armed, crashes = 0, ConfirmCancels
  PROVE  Armed'
<1>1. /\ handler = Idle /\ handler' = [step |-> "add"] /\ screen # NoScreen
      /\ center' = center \ {Captured}
      /\ UNCHANGED <<mem, deleted, screen, fired>>
  BY DEF ConfirmCancels, MainFree, rows
<1>2. ASSUME NEW p \in Live
      PROVE  HasReminder(p)' \/ (screen.attached /\ p = screen.obj)
  <2>1. HasReminder(p)
    BY <1>1 DEF Armed, Idle, Confirmed
  <2>2. NoId \notin center
    BY DEF Inv, TypeOK, NoId
  <2>3. CASE mem[p] = NoId
    BY <2>1, <2>2, <2>3, <1>1 DEF HasReminder
  <2>4. CASE mem[p] # NoId
    BY <2>1, <2>4, <1>1, CapturedId DEF HasReminder, Live
  <2> QED  BY <2>3, <2>4
<1> QED  BY <1>1, <1>2 DEF Armed, Confirmed, Live

\* ... and gets a new one.
LEMMA ConfirmAddsArmed ==
  ASSUME Inv, Armed, crashes = 0, ConfirmAdds
  PROVE  Armed'
<1>1. /\ handler.step = "add" /\ handler' = [step |-> "save"] /\ screen # NoScreen
      /\ center' = center \cup {asked'}
      /\ UNCHANGED <<deleted, screen, fired>>
  BY DEF ConfirmAdds, AddRequest, Inv, TypeOK, Idle
<1>2. screen.attached => screen.obj \in DOMAIN mem
  BY <1>1, CapturedId
<1>3. /\ DOMAIN mem' = DOMAIN mem
      /\ \A p \in DOMAIN mem :
           mem'[p] = IF screen.attached /\ p = screen.obj THEN asked' ELSE mem[p]
  <2>1. CASE screen.attached
    BY <2>1, <1>2 DEF ConfirmAdds, Set
  <2>2. CASE ~ screen.attached
    BY <2>2 DEF ConfirmAdds
  <2> QED  BY <2>1, <2>2
<1>4. ASSUME NEW p \in Live PROVE HasReminder(p)'
  <2>1. HasReminder(p) \/ (screen.attached /\ p = screen.obj)
    BY <1>1, <1>4 DEF Armed, Confirmed
  <2> QED  BY <2>1, <1>1, <1>3, <1>4 DEF HasReminder, Live
<1> QED  BY <1>1, <1>3, <1>4 DEF Armed, Live

\* A row gets its request; the identifier it loses is no other row's.
LEMMA RearmArmed ==
  ASSUME Inv, Armed, crashes = 0, NEW o \in DOMAIN mem, Rearm(o)
  PROVE  Armed'
<1>1. /\ DOMAIN mem' = DOMAIN mem /\ mem'[o] = asked'
      /\ \A p \in DOMAIN mem \ {o} : mem'[p] = mem[p]
      /\ center' = (center \ {mem[o]}) \cup {asked'} /\ fired' = fired
  BY DEF Rearm, AddRequest
<1>2. /\ handler.step = "rearm" /\ handler' = [handler EXCEPT !.todo = @ \ {o}]
      /\ handler # Idle
  BY DEF Rearm, Idle
<1>3. handler'.step = "rearm" /\ handler'.todo = handler.todo \ {o}
  BY <1>2 DEF Inv, TypeOK, Idle
<1>4. ASSUME NEW p \in DOMAIN mem' \ handler'.todo PROVE HasReminder(p)'
  <2>1. CASE p = o
    BY <2>1, <1>1 DEF HasReminder
  <2>2. CASE p # o
    <3>1. p \in DOMAIN mem \ handler.todo /\ mem'[p] = mem[p]
      BY <2>2, <1>1, <1>3
    <3>2. HasReminder(p)
      BY <3>1, <1>2 DEF Armed
    <3>3. mem[p] = NoId \/ mem[p] # mem[o]
      BY <2>2, <3>1 DEF Inv, RowsInv, Distinct
    <3>4. NoId \notin center
      BY DEF Inv, TypeOK, NoId
    <3> QED  BY <3>1, <3>2, <3>3, <3>4, <1>1 DEF HasReminder
  <2> QED  BY <2>1, <2>2
<1> QED  BY <1>3, <1>4 DEF Armed

LEMMA NextArmed ==
  ASSUME Inv, Armed, [Next]_vars
  PROVE  Armed'
<1> USE DEF HasReminder, Confirmed
<1>1. CASE Crash
  <2>1. crashes' # 0
    BY <1>1 DEF Inv, TypeOK, Crash
  <2> QED  BY <2>1 DEF Armed
<1>2. CASE UNCHANGED vars
  BY <1>2 DEF vars, rows, Armed, Live
<1>3. CASE Next /\ ~ Crash /\ crashes # 0
  BY <1>3, OnlyCrashCounts DEF Armed
<1>4. CASE Next /\ ~ Crash /\ crashes = 0
  <2> USE <1>4
  <2>1. ASSUME NEW l \in Draft, OpenAdd(l) PROVE Armed'
    BY <2>1 DEF OpenAdd, Armed, Live, Set, MainFree, Idle
  <2>2. ASSUME NEW l \in Draft, MenuCopy(l) PROVE Armed'
    <3>1. /\ DOMAIN mem' = (DOMAIN mem \cup {l}) \ deleted /\ deleted' = {}
          /\ \A p \in DOMAIN mem' : mem'[p] = IF p = l THEN NoId ELSE mem[p]
      <4> DEFINE m == Set(mem, l, NoId)
      <4>1. DOMAIN m = DOMAIN mem \cup {l}
            /\ \A p \in DOMAIN m : m[p] = IF p = l THEN NoId ELSE mem[p]
        BY DEF Set
      <4>2. SaveAs(m)
        BY <2>2 DEF MenuCopy
      <4> HIDE DEF m
      <4> QED  BY <4>1, <4>2, SaveAsRows
    <3> QED  BY <2>2, <3>1 DEF MenuCopy, Armed, Live, MainFree, Idle
  <2>3. ASSUME NEW o \in DOMAIN mem, OpenEdit(o) PROVE Armed'
    BY <2>3 DEF OpenEdit, Armed, Live, rows, MainFree, Idle
  <2>4. ASSUME NEW o \in DOMAIN mem, MenuDelete(o) PROVE Armed'
    BY <2>4 DEF MenuDelete, Armed, Live, MainFree, Idle
  <2>5. CASE ConfirmCancels \/ ConfirmAdds
    BY <2>5, ConfirmCancelsArmed, ConfirmAddsArmed
  <2>6. CASE ConfirmCompleted \/ Save \/ ConfirmSaves
    <3>1. /\ SaveAs(mem) /\ handler.step \in {"idle", "save"} /\ handler'.step = "idle"
          /\ UNCHANGED <<center, fired>>
      BY <2>6 DEF ConfirmCompleted, Save, ConfirmSaves, MainFree, Idle
    <3>2. /\ DOMAIN mem' = DOMAIN mem \ deleted /\ deleted' = {}
          /\ \A p \in DOMAIN mem' : mem'[p] = mem[p]
      BY <3>1, SaveAsRows
    <3> QED  BY <3>1, <3>2 DEF Armed, Live
  <2>7. CASE Dismiss
    BY <2>7 DEF Dismiss, Armed, Live, rows, MainFree, Idle
  <2>8. ASSUME NEW docs \in SUBSET Doc, SnapshotCancels(docs) PROVE Armed'
    BY <2>8 DEF SnapshotCancels, Armed, Idle
  <2>9. CASE SnapshotReplaces
    BY <2>9 DEF SnapshotReplaces, Armed, Idle
  <2>10. ASSUME NEW o \in DOMAIN mem, Rearm(o) PROVE Armed'
    BY <2>10, RearmArmed
  <2>11. CASE SnapshotEnds
    BY <2>11 DEF SnapshotEnds, Armed, Live, Idle, rows
  <2>12. ASSUME NEW n \in center, Fire(n) PROVE Armed'
    BY <2>12 DEF Fire, Armed, Live, rows
  <2> QED
    BY <2>1, <2>2, <2>3, <2>4, <2>5, <2>6, <2>7, <2>8, <2>9, <2>10, <2>11, <2>12
    DEF Next, User, SnapshotHandler
<1> QED  BY <1>1, <1>2, <1>3, <1>4

\* Without a crash every row of the list has its reminder whenever the main thread
\* is free, except the drafts that never got one: a snapshot re-arms every row
\* before it returns, and no edit, copy, deletion or save cancels another row's.
THEOREM RowsAreReminded == Spec => []ListedAreReminded
<1>1. Inv /\ Armed => ListedAreReminded
  BY DEF Armed, ListedAreReminded, HasReminder, MainFree, Idle, Confirmed
<1>2. Inv /\ Armed /\ [Next]_vars => Armed'
  BY NextArmed
<1> QED
  BY <1>1, <1>2, InitArmed, Invariance, PTL DEF Spec
=============================================================================
