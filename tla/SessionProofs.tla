----------------------------- MODULE SessionProofs -----------------------------
(***************************************************************************)
(* TLAPS proofs about Session, for every set of users and every bound.     *)
(***************************************************************************)
EXTENDS Session, SequenceTheorems, FiniteSetTheorems, TLAPS

Request == [op : {"signIn", "register"}, here : BOOLEAN]
Status == {"created", "updated", "sent"}

-----------------------------------------------------------------------------
(* TypeOK, in parts.                                                       *)

AuthType == user \in Owner /\ requests \in Seq(Request)

ListType ==
  /\ author \in Seq(Owner)
  /\ lists \in Seq([owner : Owner, shown : SUBSET Name])
  /\ stack \in Seq({Registration} \cup 1 .. Len(lists))
  /\ syncing \in {NoList} \cup 1 .. Len(lists)
  /\ source \in {NoList} \cup 1 .. Len(lists)
  /\ listeners \subseteq 1 .. Len(lists)

RowsType(f) == DOMAIN f \subseteq Name /\ f \in [DOMAIN f -> Status]
DocsType == DOMAIN docs \subseteq Name /\ docs \in [DOMAIN docs -> Owner]
StoreType == RowsType(rows) /\ RowsType(disk) /\ DocsType

QueueType == mainQ \in Seq(Event)
UsedType == /\ used \in [{"auth", "edit", "cloud", "crash"} -> Nat]
            /\ overlapped \in BOOLEAN

PastType == expelled \in BOOLEAN /\ stranded \subseteq Name

\* TypeOK but for what happened to the last user.
Shape == AuthType /\ ListType /\ StoreType /\ QueueType /\ UsedType

LEMMA TypeParts ==
  TypeOK <=> AuthType /\ ListType /\ StoreType /\ QueueType /\ UsedType /\ PastType
  BY DEF TypeOK, AuthType, Request, ListType, StoreType, RowsType, DocsType, Status,
         QueueType, UsedType, PastType

LEMMA TypePartsNext ==
  TypeOK' <=> AuthType' /\ ListType' /\ StoreType' /\ QueueType' /\ UsedType' /\ PastType'
  BY DEF TypeOK, AuthType, Request, ListType, StoreType, RowsType, DocsType, Status,
         QueueType, UsedType, PastType

LEMMA ShapeOfState == TypeOK <=> Shape /\ PastType
  BY TypeParts DEF Shape

LEMMA ShapeOfNext == TypeOK' <=> Shape' /\ PastType'
  BY TypePartsNext DEF Shape

-----------------------------------------------------------------------------
(* Steps that leave a part of the state alone, or let it grow.             *)

LEMMA Lengths ==
  ASSUME ListType
  PROVE  Len(lists) \in Nat /\ Len(author) \in Nat /\ Len(stack) \in Nat
  BY LenProperties DEF ListType

LEMMA SameLists ==
  ASSUME ListType, QueueType, UNCHANGED <<lists, author>>
  PROVE  /\ Name' = Name /\ Event' = Event
         /\ author' \in Seq(Owner)
         /\ lists' \in Seq([owner : Owner, shown : SUBSET Name'])
  BY DEF ListType, Name, Event, AuthEvent

\* More lists and more tasks only add events and names.
LEMMA Growth ==
  ASSUME ListType, QueueType, Len(lists') \in Nat, Len(author') \in Nat,
         Len(lists) <= Len(lists'), Len(author) <= Len(author')
  PROVE  /\ Name \subseteq Name' /\ Event \subseteq Event'
         /\ 1 .. Len(lists) \subseteq 1 .. Len(lists')
         /\ mainQ \in Seq(Event')
<1>1. Name \subseteq Name' /\ 1 .. Len(lists) \subseteq 1 .. Len(lists')
  BY Lengths DEF Name
<1>2. Event \subseteq Event'
  <2>1. [ev : {"notify", "error"}, list : 1 .. Len(lists)]
          \subseteq [ev : {"notify", "error"}, list : 1 .. Len(lists')]
    BY <1>1
  <2>2. [ev : {"snapshot"}, list : 1 .. Len(lists), docs : SUBSET Name]
          \subseteq [ev : {"snapshot"}, list : 1 .. Len(lists'), docs : SUBSET Name']
    BY <1>1
  <2>3. AuthEvent' = AuthEvent
    BY DEF AuthEvent
  <2> QED
    BY <2>1, <2>2, <2>3 DEF Event
<1> QED
  BY <1>1, <1>2, SeqMonotonic DEF QueueType

LEMMA SameStore ==
  ASSUME StoreType, Name \subseteq Name', UNCHANGED <<rows, disk, docs>>
  PROVE  StoreType'
  BY DEF StoreType, RowsType, DocsType

LEMMA FunctionIsSeq ==
  ASSUME NEW S, NEW n \in Nat, NEW s \in [1 .. n -> S]
  PROVE  s \in Seq(S) /\ Len(s) = n
  OBVIOUS

-----------------------------------------------------------------------------
(* Snapshots that Firestore raises.                                        *)

LEMMA RaisedEvents ==
  ASSUME ListType, NEW ds, NEW N, DOMAIN ds \subseteq N, NEW who, NEW s \in Raised(ds, who)
  PROVE  s \in Seq([ev : {"snapshot"}, list : 1 .. Len(lists), docs : SUBSET N])
<1> DEFINE told == {c \in listeners : lists[c].owner \in who}
<1> DEFINE n == Cardinality(told)
<1>1. IsFiniteSet(told)
  <2>1. IsFiniteSet(1 .. Len(lists))
    BY FS_Interval, Lengths
  <2> QED
    BY <2>1, FS_Subset DEF ListType
<1>2. n \in Nat
  BY <1>1, FS_CardinalityType
<1>3. PICK f \in [1 .. n -> told] :
        s = [i \in DOMAIN f |-> [ev |-> "snapshot", list |-> f[i],
                                 docs |-> OwnedBy(ds, lists[f[i]].owner)]]
  BY DEF Raised
<1>4. s \in [1 .. n -> [ev : {"snapshot"}, list : 1 .. Len(lists), docs : SUBSET N]]
  <2>1. told \subseteq 1 .. Len(lists)
    BY DEF ListType
  <2>2. \A u : OwnedBy(ds, u) \subseteq N
    BY DEF OwnedBy
  <2> HIDE DEF told, n
  <2> QED
    BY <1>3, <2>1, <2>2
<1> HIDE DEF n, told
<1> QED
  BY <1>2, <1>4, FunctionIsSeq

LEMMA OrphanedSeq ==
  ASSUME NEW S, NEW s \in Seq(S), NEW t,
         t = [i \in 1 .. Len(s) |->
                IF Top = Registration /\ "here" \in DOMAIN s[i]
                THEN [s[i] EXCEPT !.here = FALSE] ELSE s[i]],
         \A e \in S : "here" \in DOMAIN e => [e EXCEPT !.here = FALSE] \in S
  PROVE  t \in Seq(S) /\ Len(t) = Len(s)
<1>1. Len(s) \in Nat /\ \A i \in 1 .. Len(s) : s[i] \in S
  BY LenProperties, ElementOfSeq
<1>2. t \in [1 .. Len(s) -> S]
  BY <1>1
<1> QED
  BY <1>1, <1>2, FunctionIsSeq

-----------------------------------------------------------------------------
(* Type correctness, step by step.                                         *)

LEMMA InitTypes == Init => TypeOK
<1> SUFFICES ASSUME Init PROVE TypeOK
  OBVIOUS
<1>1. Shared \in Nat
  BY LimitAssumption
<1>2. author \in Seq(Owner) /\ Len(author) = Shared /\ docs \in [Name -> Owner]
  <2>1. author \in [1 .. Shared -> Owner]
    BY DEF Init, Owner
  <2>2. author \in Seq(Owner) /\ Len(author) = Shared
    BY <1>1, <2>1, FunctionIsSeq
  <2> QED
    BY <2>1, <2>2 DEF Init, Name
<1>3. ListType
  BY <1>2, EmptySeq DEF Init, ListType
<1>4. AuthType /\ QueueType /\ UsedType
  <2>1. AuthType /\ QueueType
    BY EmptySeq DEF Init, AuthType, QueueType, Owner
  <2>2. used \in [{"auth", "edit", "cloud", "crash"} -> Nat]
    <3>1. used = [auth |-> 0, edit |-> 0, cloud |-> 0, crash |-> 0]
      BY DEF Init
    <3> QED
      BY <3>1
  <2>3. overlapped \in BOOLEAN
    BY Zenon DEF Init
  <2> QED
    BY <2>1, <2>2, <2>3 DEF UsedType
<1>5. StoreType
  BY <1>2 DEF Init, StoreType, RowsType, DocsType
<1>6. PastType
  BY Zenon DEF Init, PastType
<1> QED
  BY <1>3, <1>4, <1>5, <1>6, TypeParts

\* What every step with unchanged lists keeps.
LEMMA QuietTypes ==
  ASSUME ListType, QueueType, UNCHANGED <<screens, author, listeners>>,
         syncing' = syncing, source' = source
  PROVE  ListType' /\ Event' = Event /\ Name' = Name
  BY SameLists DEF screens, ListType

LEMMA CallbackTypes ==
  ASSUME QueueType, mainQ # << >>
  PROVE  Head(mainQ) \in Event /\ Tail(mainQ) \in Seq(Event)
  BY HeadTailProperties DEF QueueType

LEMMA SpentTypes ==
  ASSUME UsedType, NEW what \in {"auth", "edit", "cloud", "crash"}, NEW max, Spend(what, max),
         overlapped' \in BOOLEAN
  PROVE  UsedType'
  BY DEF UsedType, Spend

LEMMA AskTypes ==
  ASSUME Shape, NEW op \in {"signIn", "register"}, Ask(op)
  PROVE  Shape'
<1> USE DEF Shape
<1>1. AuthType'
  <2>1. [op |-> op, here |-> TRUE] \in Request
    BY DEF Request
  <2> QED
    BY <2>1, AppendProperties DEF Ask, AuthType
<1>2. ListType' /\ Event' = Event /\ Name' = Name
  BY QuietTypes DEF Ask, cloud
<1>3. StoreType' /\ QueueType'
  BY <1>2, SameStore DEF Ask, store, cloud, QueueType
<1>4. UsedType'
  BY SpentTypes DEF Ask, UsedType
<1> QED
  BY <1>1, <1>2, <1>3, <1>4

LEMMA AnswerTypes ==
  ASSUME Shape, NEW i \in 1 .. Len(requests), Answer(i)
  PROVE  Shape'
<1> USE DEF Shape
<1>1. PICK ev \in AuthEvent, u \in Owner : Answered(i, ev, u)
  BY DEF Answer, AuthEvent, Owner, AuthType
<1>2. Len(requests) \in Nat /\ \A j \in 1 .. Len(requests) : requests[j] \in Request
  BY LenProperties, ElementOfSeq DEF AuthType
<1>3. AuthType'
  <2>1. requests' \in [1 .. Len(requests) - 1 -> Request]
    BY <1>1, <1>2 DEF Answered
  <2>2. requests' \in Seq(Request)
    BY <1>2, <2>1, FunctionIsSeq
  <2> QED
    BY <1>1, <2>2 DEF Answered, AuthType
<1>4. ListType' /\ Event' = Event /\ Name' = Name
  BY <1>1, QuietTypes DEF Answered, cloud
<1>5. QueueType'
  <2>1. [ev |-> ev, here |-> requests[i].here] \in Event
    BY <1>2 DEF Request, Event
  <2> QED
    BY <1>1, <1>4, <2>1, AppendProperties DEF Answered, QueueType
<1>6. StoreType' /\ UsedType'
  BY <1>1, <1>4, SameStore DEF Answered, store, cloud, UsedType
<1> QED
  BY <1>3, <1>4, <1>5, <1>6

LEMMA TokenRefusedTypes ==
  ASSUME Shape, TokenRefused
  PROVE  Shape'
<1> USE DEF Shape
<1>1. ListType' /\ Event' = Event /\ Name' = Name
  BY QuietTypes DEF TokenRefused, cloud
<1>2. StoreType' /\ QueueType' /\ AuthType'
  BY <1>1, SameStore DEF TokenRefused, store, cloud, QueueType, AuthType, Owner
<1>3. UsedType'
  BY SpentTypes DEF TokenRefused, UsedType
<1> QED
  BY <1>1, <1>2, <1>3

LEMMA SignedInTypes ==
  ASSUME Shape, SignedIn
  PROVE  Shape'
<1> USE DEF Shape
<1> DEFINE new == [owner |-> user, shown |-> DOMAIN rows]
<1>1. Name' = Name
  BY DEF SignedIn, Name
<1>2. lists' = Append(lists, new) /\ new \in [owner : Owner, shown : SUBSET Name]
  BY DEF SignedIn, AuthType, StoreType, RowsType
<1>3. /\ lists' \in Seq([owner : Owner, shown : SUBSET Name])
      /\ Len(lists') = Len(lists) + 1 /\ Len(lists) \in Nat
  BY <1>2, AppendProperties, Lengths DEF ListType
<1>4. mainQ \in Seq(Event')
  BY <1>3, Lengths, Growth DEF SignedIn
<1>5. mainQ # << >> /\ mainQ' = Tail(mainQ)
  BY DEF SignedIn, Callback
<1>6. QueueType'
  BY <1>4, <1>5, HeadTailProperties DEF QueueType
<1>7. ListType'
  <2>1. stack \in Seq({Registration} \cup 1 .. Len(lists'))
    BY <1>3, SeqMonotonic DEF ListType
  <2>2. stack' \in Seq({Registration} \cup 1 .. Len(lists'))
    BY <1>3, <2>1, AppendProperties DEF SignedIn
  <2> QED
    BY <1>1, <1>3, <2>2 DEF SignedIn, ListType, cloud
<1>8. StoreType' /\ AuthType' /\ UsedType'
  BY <1>1 DEF SignedIn, SavedIf, StoreType, RowsType, DocsType, cloud, auth, AuthType, UsedType
<1> QED
  BY <1>6, <1>7, <1>8

LEMMA RefusedTypes ==
  ASSUME Shape, Refused
  PROVE  Shape'
<1> USE DEF Shape
<1>1. ListType' /\ Event' = Event /\ Name' = Name
  BY QuietTypes DEF Refused, cloud
<1>2. QueueType'
  BY <1>1, CallbackTypes DEF Refused, Callback, QueueType
<1>3. StoreType' /\ UsedType' /\ AuthType'
  BY <1>1, SameStore DEF Refused, store, cloud, UsedType, auth, AuthType
<1> QED
  BY <1>1, <1>2, <1>3

\* A popped stack holds what it held below the top.
LEMMA PoppedStack ==
  ASSUME ListType, NEW q, Popped(q)
  PROVE  stack' \in Seq({Registration} \cup 1 .. Len(lists))
<1> DEFINE S == {Registration} \cup 1 .. Len(lists)
<1>1. Len(stack) \in Nat /\ \A i \in 1 .. Len(stack) - 1 : stack[i] \in S
  BY Lengths, ElementOfSeq DEF ListType
<1>2. stack' = SubSeq(stack, 1, Len(stack) - 1)
  BY DEF Popped
<1> HIDE DEF S
<1>3. stack' \in Seq(S)
  BY <1>1, <1>2, SubSeqProperties
<1> QED
  BY <1>3 DEF S

LEMMA PoppedTypes ==
  ASSUME ListType, AuthType, stack # << >>, NEW q \in Seq(Event), Popped(q),
         UNCHANGED <<lists, author, listeners, syncing, source>>
  PROVE  /\ ListType' /\ QueueType' /\ requests' \in Seq(Request)
         /\ Event' = Event /\ Name' = Name
<1>1. Event' = Event /\ Name' = Name
  BY DEF Event, AuthEvent, Name
<1>2. requests' \in Seq(Request)
  <2>1. \A r \in Request : [r EXCEPT !.here = FALSE] \in Request
    BY DEF Request
  <2> QED
    BY <2>1, OrphanedSeq DEF Popped, AuthType
<1>3. mainQ' \in Seq(Event)
  <2>1. \A e \in Event : "here" \in DOMAIN e => [e EXCEPT !.here = FALSE] \in Event
    BY DEF Event
  <2> QED
    BY <2>1, OrphanedSeq DEF Popped
<1>4. stack' \in Seq({Registration} \cup 1 .. Len(lists))
  BY PoppedStack
<1> QED
  BY <1>1, <1>2, <1>3, <1>4 DEF ListType, QueueType

LEMMA RegisteredTypes ==
  ASSUME Shape, Registered
  PROVE  Shape'
<1> USE DEF Shape
<1>1. Tail(mainQ) \in Seq(Event)
  BY CallbackTypes DEF Registered
<1>2. Event' = Event /\ Name' = Name
  BY SameLists DEF Registered
<1>3. ListType' /\ QueueType' /\ requests' \in Seq(Request)
  <2>1. CASE Head(mainQ).here /\ stack # << >>
    BY <1>1, <2>1, PoppedTypes DEF Registered, cloud
  <2>2. CASE ~Head(mainQ).here
    BY <1>1, <1>2, <2>2, QuietTypes DEF Registered, screens, cloud, QueueType, AuthType
  <2>3. CASE Head(mainQ).here /\ stack = << >>
    <3>1. SubSeq(stack, 1, Len(stack) - 1) = << >>
      BY <2>3, SubSeqEmpty, EmptySeq
    <3>2. ListType'
      BY <1>2, <2>3, <3>1 DEF Registered, Popped, ListType, cloud
    <3>3. requests' \in Seq(Request)
      <4>1. \A r \in Request : [r EXCEPT !.here = FALSE] \in Request
        BY DEF Request
      <4> QED
        BY <2>3, <4>1, OrphanedSeq DEF Registered, Popped, AuthType
    <3>4. QueueType'
      <4>1. \A e \in Event : "here" \in DOMAIN e => [e EXCEPT !.here = FALSE] \in Event
        BY DEF Event
      <4>2. mainQ' \in Seq(Event)
        BY <1>1, <2>3, <4>1, OrphanedSeq DEF Registered, Popped
      <4> QED
        BY <1>2, <4>2 DEF QueueType
    <3> QED
      BY <3>2, <3>3, <3>4
  <2> QED
    BY <2>1, <2>2, <2>3
<1>4. StoreType' /\ AuthType' /\ UsedType'
  <2>1. disk' = rows \/ disk' = disk
    BY DEF Registered, Popped, SavedIf
  <2> QED
    BY <1>2, <1>3, <2>1 DEF Registered, StoreType, RowsType, DocsType, cloud, AuthType, UsedType
<1> QED
  BY <1>3, <1>4

LEMMA OpenRegistrationTypes ==
  ASSUME Shape, OpenRegistration
  PROVE  Shape'
<1> USE DEF Shape
<1>1. Event' = Event /\ Name' = Name
  BY SameLists DEF OpenRegistration
<1>2. stack' \in Seq({Registration} \cup 1 .. Len(lists))
  BY DEF OpenRegistration
<1>3. ListType' /\ QueueType'
  BY <1>1, <1>2 DEF OpenRegistration, ListType, QueueType, cloud
<1>4. StoreType' /\ AuthType' /\ UsedType'
  BY <1>1, SameStore DEF OpenRegistration, store, cloud, auth, AuthType, UsedType
<1> QED
  BY <1>3, <1>4

LEMMA BackTypes ==
  ASSUME Shape, Back
  PROVE  Shape'
<1> USE DEF Shape
<1>1. ListType' /\ QueueType' /\ requests' \in Seq(Request) /\ Name' = Name
  BY PoppedTypes DEF Back, cloud, QueueType
<1>2. StoreType' /\ AuthType' /\ UsedType'
  <2>1. disk' = rows \/ disk' = disk
    BY DEF Back, Popped, SavedIf
  <2> QED
    BY <1>1, <2>1 DEF Back, StoreType, RowsType, DocsType, cloud, AuthType, UsedType
<1> QED
  BY <1>1, <1>2

LEMMA LogOutTypes ==
  ASSUME Shape, LogOut
  PROVE  Shape'
<1> USE DEF Shape
<1>1. ListType' /\ QueueType' /\ requests' \in Seq(Request) /\ Name' = Name
  BY PoppedTypes DEF LogOut, ListIsVisible, cloud, QueueType
<1>2. StoreType' /\ AuthType' /\ UsedType'
  <2>1. disk' = rows \/ disk' = disk
    BY DEF LogOut, Popped, SavedIf
  <2> QED
    BY <1>1, <2>1 DEF LogOut, StoreType, RowsType, DocsType, cloud, AuthType, UsedType, Owner
<1> QED
  BY <1>1, <1>2

\* The list on the screen exists.
LEMMA VisibleListExists ==
  ASSUME ListType, ListIsVisible
  PROVE  Top \in 1 .. Len(lists) /\ lists[Top] \in [owner : Owner, shown : SUBSET Name]
<1>1. Len(stack) \in 1 .. Len(stack)
  BY Lengths, EmptySeq DEF ListType, ListIsVisible
<1>2. Top \in {Registration} \cup 1 .. Len(lists)
  BY <1>1, ElementOfSeq DEF Top, ListType
<1>3. Top \in 1 .. Len(lists)
  BY <1>2 DEF ListIsVisible
<1> QED
  BY <1>3, ElementOfSeq DEF ListType

LEMMA SaveAndSyncTypes ==
  ASSUME Shape, ListIsVisible, NEW rs, SaveAndSync(rs),
         author' \in Seq(Owner), Len(author) <= Len(author'),
         DOMAIN rs \subseteq Name', rs \in [DOMAIN rs -> Status]
  PROVE  Shape'
<1> USE DEF Shape
<1>1. Top \in 1 .. Len(lists)
  BY VisibleListExists
<1>2. /\ Len(lists') = Len(lists) /\ Len(lists) \in Nat
      /\ Name \subseteq Name' /\ mainQ \in Seq(Event')
  <2>1. Len(lists') = Len(lists) /\ Len(lists) \in Nat
    BY LenProperties DEF SaveAndSync, ListType
  <2> QED
    BY <2>1, Growth, LenProperties
<1>3. lists' \in Seq([owner : Owner, shown : SUBSET Name'])
  <2>1. lists \in Seq([owner : Owner, shown : SUBSET Name'])
    BY <1>2, SeqMonotonic DEF ListType
  <2>2. lists[Top] \in [owner : Owner, shown : SUBSET Name']
    BY <1>1, <2>1, ElementOfSeq
  <2>3. [lists[Top] EXCEPT !.shown = DOMAIN rs] \in [owner : Owner, shown : SUBSET Name']
    BY <2>2
  <2>4. lists' = [lists EXCEPT ![Top] = [lists[Top] EXCEPT !.shown = DOMAIN rs]]
    BY DEF SaveAndSync
  <2> QED
    BY <1>1, <2>1, <2>3, <2>4, ExceptSeq
<1>4. ListType'
  BY <1>1, <1>2, <1>3 DEF SaveAndSync, ListType, cloud
<1>5. QueueType' /\ StoreType'
  BY <1>2 DEF SaveAndSync, QueueType, StoreType, RowsType, DocsType, cloud
<1>6. AuthType' /\ UsedType'
  BY SpentTypes DEF SaveAndSync, auth, AuthType, UsedType
<1> QED
  BY <1>4, <1>5, <1>6

LEMMA AddTaskTypes ==
  ASSUME Shape, AddTask
  PROVE  Shape'
<1> USE DEF Shape
<1> DEFINE rs == [n \in DOMAIN rows \cup {Len(author')} |->
                    IF n \in DOMAIN rows THEN rows[n] ELSE "created"]
<1>1. lists[Top].owner \in Owner
  BY VisibleListExists DEF AddTask
<1>2. author' \in Seq(Owner) /\ Len(author') = Len(author) + 1 /\ Len(author) \in Nat
  BY <1>1, AppendProperties, Lengths DEF AddTask, ListType
<1>3. DOMAIN rs \subseteq Name' /\ rs \in [DOMAIN rs -> Status]
  BY <1>2 DEF StoreType, RowsType, Name, Status
<1> HIDE DEF rs
<1> QED
  BY <1>2, <1>3, SaveAndSyncTypes DEF AddTask, rs

LEMMA EditTaskTypes ==
  ASSUME Shape, EditTask
  PROVE  Shape'
<1> USE DEF Shape
<1>1. author' \in Seq(Owner) /\ Len(author) <= Len(author') /\ Name' = Name
  BY Lengths DEF EditTask, ListType, Name
<1>2. ASSUME NEW n \in lists[Top].shown, SaveAndSync([rows EXCEPT ![n] = "updated"])
      PROVE  Shape'
  <2>1. /\ DOMAIN [rows EXCEPT ![n] = "updated"] \subseteq Name'
        /\ [rows EXCEPT ![n] = "updated"] \in [DOMAIN [rows EXCEPT ![n] = "updated"] -> Status]
    BY <1>1 DEF StoreType, RowsType, Status
  <2> QED
    BY <1>1, <1>2, <2>1, SaveAndSyncTypes DEF EditTask
<1>3. ASSUME SaveAndSync(rows) PROVE Shape'
  BY <1>1, <1>3, SaveAndSyncTypes DEF EditTask, StoreType, RowsType
<1> QED
  BY <1>2, <1>3 DEF EditTask

LEMMA UploadTypes ==
  ASSUME Shape, Upload
  PROVE  Shape'
<1> USE DEF Shape
<1> DEFINE owner == lists[syncing].owner
<1> DEFINE sent == {n \in DOMAIN rows : rows[n] = "updated" \/ (rows[n] = "created" /\ owner # Nobody)}
<1> DEFINE affected == IF sent = {} THEN {}
                       ELSE {owner} \cup {docs[n] : n \in sent \cap DOMAIN docs}
<1> DEFINE done == <<[ev |-> "notify", list |-> syncing]>>
<1>1. syncing \in 1 .. Len(lists) /\ owner \in Owner
  <2>1. syncing \in 1 .. Len(lists)
    BY DEF Upload, MainIsFree, ListType
  <2>2. lists[syncing] \in [owner : Owner, shown : SUBSET Name]
    BY <2>1, ElementOfSeq DEF ListType
  <2> QED
    BY <2>1, <2>2
<1>2. Event' = Event /\ Name' = Name
  BY SameLists DEF Upload, screens
<1>3. docs' = [n \in DOMAIN docs \cup sent |-> IF n \in sent THEN owner ELSE docs[n]]
  BY DEF Upload
<1>4. StoreType'
  <2>1. DOMAIN docs' \subseteq Name /\ docs' \in [DOMAIN docs' -> Owner]
    BY <1>1, <1>3 DEF StoreType, RowsType, DocsType
  <2>2. DOMAIN rows' = DOMAIN rows /\ rows' \in [DOMAIN rows -> Status]
    BY DEF Upload, StoreType, RowsType, Status
  <2> QED
    BY <1>2, <2>1, <2>2 DEF Upload, StoreType, RowsType, DocsType
<1>5. QueueType'
  <2>1. PICK told \in Raised(docs', affected) :
          mainQ' \in {mainQ \o told \o done, mainQ \o done \o told}
    BY DEF Upload
  <2>2. told \in Seq(Event)
    <3>1. DOMAIN docs' \subseteq Name
      BY <1>2, <1>4 DEF StoreType, DocsType
    <3>2. told \in Seq([ev : {"snapshot"}, list : 1 .. Len(lists), docs : SUBSET Name])
      BY <2>1, <3>1, RaisedEvents
    <3> QED
      BY <3>2, SeqMonotonic DEF Event
  <2>3. done \in Seq(Event)
    BY <1>1 DEF Event
  <2> HIDE DEF done
  <2>4. mainQ \o told \in Seq(Event) /\ mainQ \o done \in Seq(Event)
    BY <2>2, <2>3, ConcatProperties DEF QueueType
  <2>5. mainQ \o told \o done \in Seq(Event) /\ mainQ \o done \o told \in Seq(Event)
    BY <2>2, <2>3, <2>4, ConcatProperties
  <2> QED
    BY <1>2, <2>1, <2>5 DEF QueueType
<1>6. ListType' /\ AuthType' /\ UsedType'
  BY <1>2 DEF Upload, screens, auth, ListType, AuthType, UsedType
<1> QED
  BY <1>4, <1>5, <1>6

LEMMA NotifyTypes ==
  ASSUME Shape, Notify
  PROVE  Shape'
<1> USE DEF Shape
<1> DEFINE c == Head(mainQ).list
<1> DEFINE e == [ev |-> "snapshot", list |-> c, docs |-> OwnedBy(docs, lists[c].owner)]
<1>1. c \in 1 .. Len(lists) /\ Tail(mainQ) \in Seq(Event)
  BY CallbackTypes DEF Notify, Event, AuthEvent
<1>2. Event' = Event /\ Name' = Name
  BY SameLists DEF Notify, screens
<1>3. e \in Event
  <2>1. OwnedBy(docs, lists[c].owner) \subseteq Name
    BY DEF OwnedBy, StoreType, DocsType
  <2> QED
    BY <1>1, <2>1 DEF Event
<1> HIDE DEF e, c
<1>4. mainQ' = Tail(mainQ) \/ mainQ' = Append(Tail(mainQ), e)
  BY DEF Notify, e, c
<1>5. QueueType'
  <2>1. Append(Tail(mainQ), e) \in Seq(Event)
    BY <1>1, <1>3, AppendProperties
  <2>2. mainQ' \in Seq(Event)
    BY <1>1, <1>4, <2>1
  <2> QED
    BY <1>2, <2>2 DEF QueueType
<1>6. listeners' \subseteq 1 .. Len(lists)
  BY <1>1 DEF Notify, ListType, c
<1>7. ListType' /\ StoreType' /\ AuthType' /\ UsedType'
  BY <1>2, <1>6 DEF Notify, screens, auth, ListType, AuthType, UsedType, StoreType, RowsType, DocsType
<1> QED
  BY <1>5, <1>7

LEMMA SnapshotTypes ==
  ASSUME Shape, Snapshot
  PROVE  Shape'
<1> USE DEF Shape
<1> DEFINE c == Head(mainQ).list
<1> DEFINE new == Head(mainQ).docs
<1>1. c \in 1 .. Len(lists) /\ new \subseteq Name /\ Tail(mainQ) \in Seq(Event)
  BY CallbackTypes DEF Snapshot, Callback, Event, AuthEvent
<1>2. lists' \in Seq([owner : Owner, shown : SUBSET Name]) /\ Len(lists') = Len(lists)
  <2>1. Len(lists) \in Nat /\ \A d \in 1 .. Len(lists) : lists[d] \in [owner : Owner, shown : SUBSET Name]
    BY LenProperties, ElementOfSeq DEF ListType
  <2>2. lists' \in [1 .. Len(lists) -> [owner : Owner, shown : SUBSET Name]]
    BY <1>1, <2>1 DEF Snapshot
  <2> QED
    BY <2>1, <2>2, FunctionIsSeq
<1>3. Event' = Event /\ Name' = Name
  BY <1>2 DEF Snapshot, Event, AuthEvent, Name
<1>4. QueueType'
  BY <1>1, <1>3 DEF Snapshot, Callback, QueueType
<1>5. ListType'
  BY <1>1, <1>2, <1>3 DEF Snapshot, ListType, cloud
<1>6. StoreType' /\ AuthType' /\ UsedType'
  BY <1>1, <1>3 DEF Snapshot, StoreType, RowsType, DocsType, Status, cloud, auth, AuthType, UsedType
<1> QED
  BY <1>4, <1>5, <1>6

LEMMA SnapshotErrorTypes ==
  ASSUME Shape, SnapshotError
  PROVE  Shape'
<1> USE DEF Shape
<1> DEFINE c == Head(mainQ).list
<1>1. c \in 1 .. Len(lists) /\ Tail(mainQ) \in Seq(Event)
  BY CallbackTypes DEF SnapshotError, Callback, Event, AuthEvent
<1>2. lists' \in Seq([owner : Owner, shown : SUBSET Name]) /\ Len(lists') = Len(lists)
  <2>1. lists[c] \in [owner : Owner, shown : SUBSET Name]
    BY <1>1, ElementOfSeq DEF ListType
  <2>2. [lists[c] EXCEPT !.shown = DOMAIN rows] \in [owner : Owner, shown : SUBSET Name]
    BY <2>1 DEF StoreType, RowsType
  <2>3. lists' = [lists EXCEPT ![c] = [lists[c] EXCEPT !.shown = DOMAIN rows]]
    BY DEF SnapshotError
  <2> QED
    BY <1>1, <2>2, <2>3, ExceptSeq DEF ListType
<1>3. Event' = Event /\ Name' = Name
  BY <1>2 DEF SnapshotError, Event, AuthEvent, Name
<1>4. QueueType'
  BY <1>1, <1>3 DEF SnapshotError, Callback, QueueType
<1>5. ListType'
  BY <1>2, <1>3 DEF SnapshotError, ListType, cloud
<1>6. StoreType' /\ AuthType' /\ UsedType'
  BY <1>3 DEF SnapshotError, StoreType, RowsType, DocsType, cloud, auth, AuthType, UsedType
<1> QED
  BY <1>4, <1>5, <1>6

LEMMA RejectTypes ==
  ASSUME Shape, NEW c \in listeners, Reject(c)
  PROVE  Shape'
<1> USE DEF Shape
<1>1. Event' = Event /\ Name' = Name
  BY SameLists DEF Reject, screens
<1>2. QueueType'
  <2>1. [ev |-> "error", list |-> c] \in Event
    BY DEF Event, ListType
  <2> QED
    BY <1>1, <2>1, AppendProperties DEF Reject, QueueType
<1>3. ListType' /\ StoreType' /\ AuthType'
  BY <1>1 DEF Reject, screens, store, auth, ListType, AuthType, StoreType, RowsType, DocsType
<1>4. UsedType'
  BY SpentTypes DEF Reject, UsedType
<1> QED
  BY <1>2, <1>3, <1>4

LEMMA RemoteTypes ==
  ASSUME Shape, NEW u \in User, Remote(u)
  PROVE  Shape'
<1> USE DEF Shape
<1>1. author' \in Seq(Owner) /\ Len(author) <= Len(author') /\ Len(author') \in Nat
  <2>1. CASE author' = Append(author, u)
    BY <2>1, AppendProperties, Lengths DEF ListType, Owner
  <2>2. CASE author' = author
    BY <2>2, Lengths DEF ListType
  <2> QED
    BY <2>1, <2>2 DEF Remote
<1>2. /\ Name \subseteq Name' /\ Event \subseteq Event' /\ mainQ \in Seq(Event')
      /\ lists' = lists
  BY <1>1, Growth, Lengths DEF Remote, screens
<1>3. DOMAIN docs' \subseteq Name' /\ docs' \in [DOMAIN docs' -> Owner]
  <2>1. CASE /\ author' = Append(author, u)
             /\ docs' = [n \in DOMAIN docs \cup {Len(author')} |->
                           IF n \in DOMAIN docs THEN docs[n] ELSE u]
    <3>1. Len(author') \in Name'
      BY <2>1, AppendProperties, Lengths DEF Name, ListType, Owner
    <3> QED
      BY <1>2, <2>1, <3>1 DEF StoreType, DocsType, Owner
  <2>2. CASE \E n \in OwnedBy(docs, u) : docs' = Restrict(docs, DOMAIN docs \ {n})
    BY <1>2, <2>2 DEF StoreType, DocsType, Restrict
  <2> QED
    BY <2>1, <2>2 DEF Remote
<1>4. ListType'
  <2>1. lists' \in Seq([owner : Owner, shown : SUBSET Name'])
    BY <1>2, SeqMonotonic DEF ListType
  <2> QED
    BY <1>1, <1>2, <2>1 DEF Remote, screens, ListType
<1>5. QueueType'
  <2>1. PICK told \in Raised(docs', {u}) : mainQ' = mainQ \o told
    BY DEF Remote
  <2> DEFINE Told == [ev : {"snapshot"}, list : 1 .. Len(lists'), docs : SUBSET Name']
  <2>2. told \in Seq(Told)
    <3>1. told \in Seq([ev : {"snapshot"}, list : 1 .. Len(lists), docs : SUBSET Name'])
      BY <1>3, <2>1, RaisedEvents
    <3> QED
      BY <1>2, <3>1
  <2>3. told \in Seq(Event')
    BY <2>2, SeqMonotonic DEF Event
  <2> QED
    BY <1>2, <2>1, <2>3, ConcatProperties DEF QueueType
<1>6. StoreType' /\ AuthType'
  BY <1>2, <1>3 DEF Remote, store, auth, AuthType, StoreType, RowsType, DocsType
<1>7. UsedType'
  BY SpentTypes DEF Remote, UsedType
<1> QED
  BY <1>4, <1>5, <1>6, <1>7

LEMMA CrashTypes ==
  ASSUME Shape, Crash
  PROVE  Shape'
<1> USE DEF Shape
<1>1. Name' = Name
  BY DEF Crash, Name
<1>2. ListType'
  <2>1. CASE user = Nobody
    <3>1. lists' = << >> /\ stack' = << >> /\ syncing' = NoList
      BY <2>1 DEF Crash
    <3> QED
      BY <1>1, <3>1, EmptySeq DEF Crash, ListType
  <2>2. CASE user # Nobody
    <3> DEFINE l == [owner |-> user, shown |-> DOMAIN disk]
    <3>1. lists' = <<l>> /\ stack' = <<1>> /\ syncing' = 1
      BY <2>2 DEF Crash, Launched
    <3>2. l \in [owner : Owner, shown : SUBSET Name]
      BY DEF AuthType, StoreType, RowsType
    <3> HIDE DEF l
    <3>3. Len(lists') = 1 /\ lists' \in Seq([owner : Owner, shown : SUBSET Name])
      BY <3>1, <3>2
    <3>4. stack' \in Seq({Registration} \cup 1 .. Len(lists'))
      BY <3>1, <3>3
    <3> QED
      BY <1>1, <3>1, <3>3, <3>4 DEF Crash, ListType
  <2> QED
    BY <2>1, <2>2
<1>3. QueueType'
  BY EmptySeq DEF Crash, QueueType
<1>4. AuthType'
  BY EmptySeq DEF Crash, AuthType
<1>5. StoreType'
  BY <1>1 DEF Crash, StoreType, RowsType, DocsType
<1>6. UsedType'
  BY SpentTypes DEF Crash, UsedType
<1> QED
  BY <1>2, <1>3, <1>4, <1>5, <1>6

LEMMA StutterTypes ==
  ASSUME Shape, UNCHANGED vars
  PROVE  Shape'
<1> USE DEF Shape
<1>1. Event' = Event /\ Name' = Name
  BY DEF vars, screens, Event, AuthEvent, Name
<1> QED
  BY <1>1 DEF vars, auth, screens, store, cloud, AuthType, ListType, StoreType, RowsType,
              DocsType, QueueType, UsedType

LEMMA NextShape == Shape /\ [Next]_vars => Shape'
<1> SUFFICES ASSUME Shape, [Next]_vars PROVE Shape'
  OBVIOUS
<1>1. CASE TrySignIn \/ TryRegister
  BY <1>1, AskTypes DEF TrySignIn, TryRegister
<1>2. CASE \E i \in 1 .. Len(requests) : Answer(i)
  BY <1>2, AnswerTypes
<1>3. CASE SignedIn \/ Refused \/ Registered
  BY <1>3, SignedInTypes, RefusedTypes, RegisteredTypes
<1>4. CASE OpenRegistration \/ Back \/ LogOut
  BY <1>4, OpenRegistrationTypes, BackTypes, LogOutTypes
<1>5. CASE AddTask \/ EditTask \/ Upload
  BY <1>5, AddTaskTypes, EditTaskTypes, UploadTypes
<1>6. CASE Notify \/ Snapshot \/ SnapshotError
  BY <1>6, NotifyTypes, SnapshotTypes, SnapshotErrorTypes
<1>7. CASE \E c \in listeners : Reject(c)
  BY <1>7, RejectTypes
<1>8. CASE \E u \in User : Remote(u)
  BY <1>8, RemoteTypes
<1>9. CASE Crash
  BY <1>9, CrashTypes
<1>10. CASE UNCHANGED vars
  BY <1>10, StutterTypes
<1>11. CASE TokenRefused
  BY <1>11, TokenRefusedTypes
<1> QED
  BY <1>1, <1>2, <1>3, <1>4, <1>5, <1>6, <1>7, <1>8, <1>9, <1>10, <1>11 DEF Next

\* Tasks are never taken back from the history.
LEMMA NamesStay ==
  ASSUME Shape, [Next]_vars
  PROVE  Name \subseteq Name'
<1> USE DEF Shape
<1>1. CASE author' = author
  BY <1>1 DEF Name
<1>2. ASSUME NEW a \in Owner, author' = Append(author, a) PROVE Name \subseteq Name'
  <2>1. Len(author') = Len(author) + 1 /\ Len(author) \in Nat
    BY <1>2, AppendProperties, Lengths DEF ListType
  <2> QED
    BY <2>1 DEF Name
<1>3. CASE AddTask
  BY <1>2, <1>3, VisibleListExists DEF AddTask
<1>4. ASSUME NEW u \in User, Remote(u) PROVE Name \subseteq Name'
  BY <1>1, <1>2, <1>4 DEF Remote, Owner
<1> QED
  BY <1>1, <1>3, <1>4
  DEF Next, vars, TrySignIn, TryRegister, Ask, Answer, Answered, TokenRefused, SignedIn, Refused,
      Registered, OpenRegistration, Back, LogOut, EditTask, Upload, Notify, Snapshot,
      SnapshotError, Reject, Crash

LEMMA NextPast ==
  ASSUME Shape, PastType, [Next]_vars
  PROVE  PastType'
<1>1. Name \subseteq Name'
  BY NamesStay
<1>2. CASE UNCHANGED past
  BY <1>1, <1>2 DEF past, PastType
<1>3. CASE TokenRefused
  BY <1>1, <1>3 DEF TokenRefused, PastType
<1>4. ASSUME NEW i \in 1 .. Len(requests), Answer(i) PROVE PastType'
  <2>1. PICK ev, u : Answered(i, ev, u)
    BY <1>4 DEF Answer
  <2>2. stranded' = stranded /\ expelled' \in BOOLEAN
    BY <2>1 DEF Answered, PastType
  <2> QED
    BY <1>1, <2>2 DEF PastType
<1>5. CASE Crash
  BY <1>1, <1>5 DEF Crash, PastType, Shape, StoreType, RowsType
<1>6. UNCHANGED past \/ TokenRefused \/ (\E i \in 1 .. Len(requests) : Answer(i)) \/ Crash
  BY DEF Next, vars, TrySignIn, TryRegister, Ask, SignedIn, Refused, Registered,
         OpenRegistration, Back, LogOut, AddTask, EditTask, SaveAndSync, Upload, Notify,
         Snapshot, SnapshotError, Reject, Remote
<1> QED
  BY <1>2, <1>3, <1>4, <1>5, <1>6

LEMMA NextTypes == TypeOK /\ [Next]_vars => TypeOK'
  BY NextShape, NextPast, ShapeOfState, ShapeOfNext

\* The state has its shape whatever the users, the screens and Firestore do: no
\* callback or screen refers to a list that does not exist.
THEOREM TypeCorrect == Spec => []TypeOK
<1>1. Init => TypeOK
  BY InitTypes
<1>2. TypeOK /\ [Next]_vars => TypeOK'
  BY NextTypes
<1> QED
  BY <1>1, <1>2, PTL DEF Spec

-----------------------------------------------------------------------------
(* The inductive invariant of the session: without an overlap at most one  *)
(* authentication is under way, and none while a list is on the screen; so *)
(* that only a refused token changes the user under a list.                *)

Quiet(q) == \A i \in 1 .. Len(q) : q[i].ev \notin AuthEvent
Single(q) == \A i, j \in 1 .. Len(q) :
               q[i].ev \in AuthEvent /\ q[j].ev \in AuthEvent => i = j

OneAtATime == /\ Len(requests) <= 1
              /\ requests # << >> => Quiet(mainQ)
              /\ Single(mainQ)
OneList == /\ \A i \in 1 .. Len(stack) - 1 : stack[i] = Registration
           /\ ListIsVisible => /\ requests = << >> /\ Quiet(mainQ)
                              /\ \/ lists[Top].owner = user
                                 \/ user = Nobody /\ expelled
Orderly == OneAtATime /\ OneList

\* The queue r holds no authentication callback that q does not.
Kept(q, r) == /\ Quiet(q) => Quiet(r)
              /\ Single(q) => Single(r)

LEMMA KeptTail ==
  ASSUME NEW S, NEW q \in Seq(S), q # << >>
  PROVE  /\ Kept(q, Tail(q))
         /\ Single(q) /\ Head(q).ev \in AuthEvent => Quiet(Tail(q))
<1>1. /\ Len(q) \in Nat \ {0} /\ Len(Tail(q)) = Len(q) - 1 /\ Head(q) = q[1]
      /\ \A i \in 1 .. Len(Tail(q)) : Tail(q)[i] = q[i + 1]
  BY HeadTailProperties, EmptySeq
<1> QED
  BY <1>1 DEF Kept, Quiet, Single

LEMMA KeptConcat ==
  ASSUME NEW S, NEW q \in Seq(S), NEW t \in Seq(S), Quiet(t)
  PROVE  Kept(q, q \o t)
<1>1. /\ Len(q) \in Nat /\ Len(t) \in Nat /\ Len(q \o t) = Len(q) + Len(t)
      /\ \A i \in 1 .. Len(q) + Len(t) :
           (q \o t)[i] = IF i <= Len(q) THEN q[i] ELSE t[i - Len(q)]
  BY ConcatProperties, LenProperties
<1>2. \A i \in 1 .. Len(q \o t) : (q \o t)[i].ev \in AuthEvent
        => i \in 1 .. Len(q) /\ (q \o t)[i] = q[i]
  BY <1>1 DEF Quiet
<1> QED
  BY <1>1, <1>2 DEF Kept, Quiet, Single, AuthEvent

LEMMA KeptAppend ==
  ASSUME NEW S, NEW q \in Seq(S), NEW e \in S, e.ev \notin AuthEvent
  PROVE  Kept(q, Append(q, e))
<1>1. /\ Len(q) \in Nat /\ Len(Append(q, e)) = Len(q) + 1
      /\ \A i \in 1 .. Len(q) : Append(q, e)[i] = q[i]
      /\ Append(q, e)[Len(q) + 1] = e
  BY AppendProperties, LenProperties
<1>2. \A i \in 1 .. Len(Append(q, e)) : Append(q, e)[i].ev \in AuthEvent
        => i \in 1 .. Len(q) /\ Append(q, e)[i] = q[i]
  BY <1>1
<1> QED
  BY <1>1, <1>2 DEF Kept, Quiet, Single, AuthEvent

LEMMA KeptChain ==
  ASSUME NEW q, NEW r, NEW s, Kept(q, r), Kept(r, s)
  PROVE  Kept(q, s)
  BY DEF Kept

\* Firestore's snapshots carry no authentication.
LEMMA RaisedQuiet ==
  ASSUME ListType, NEW ds, NEW N, DOMAIN ds \subseteq N,
         NEW who, NEW t \in Raised(ds, who)
  PROVE  Quiet(t)
<1>1. t \in Seq([ev : {"snapshot"}, list : 1 .. Len(lists), docs : SUBSET N])
  BY RaisedEvents
<1>2. \A i \in 1 .. Len(t) : t[i] \in [ev : {"snapshot"}, list : 1 .. Len(lists), docs : SUBSET N]
  BY <1>1, ElementOfSeq
<1> QED
  BY <1>2 DEF Quiet, AuthEvent

\* A step that keeps the user, the screens and the requests, and queues no
\* authentication, keeps the order.
LEMMA QuietOrderly ==
  ASSUME Orderly, Kept(mainQ, mainQ'), UNCHANGED <<user, expelled, requests, stack>>,
         ListIsVisible => lists'[Top].owner = lists[Top].owner
  PROVE  Orderly'
<1>1. OneAtATime'
  BY DEF Orderly, OneAtATime, Kept
<1>2. OneList'
  BY DEF Orderly, OneList, Kept, ListIsVisible, Top
<1> QED
  BY <1>1, <1>2 DEF Orderly

LEMMA OrphanedKept ==
  ASSUME NEW S, NEW s \in Seq(S), NEW t,
         t = [i \in 1 .. Len(s) |->
                IF Top = Registration /\ "here" \in DOMAIN s[i]
                THEN [s[i] EXCEPT !.here = FALSE] ELSE s[i]],
         \A e \in S : "here" \in DOMAIN e =>
           [e EXCEPT !.here = FALSE] \in S /\ [e EXCEPT !.here = FALSE].ev = e.ev
  PROVE  Kept(s, t)
<1>1. Len(t) = Len(s)
  BY OrphanedSeq
<1>2. \A i \in 1 .. Len(s) : t[i].ev = s[i].ev
  BY ElementOfSeq
<1> QED
  BY <1>1, <1>2 DEF Kept, Quiet, Single

LEMMA PoppedOrderly ==
  ASSUME ListType, AuthType, Orderly, NEW q \in Seq(Event), Kept(mainQ, q), Popped(q)
  PROVE  Orderly' /\ ~ListIsVisible'
<1>1. Kept(q, mainQ')
  <2>1. \A e \in Event : "here" \in DOMAIN e =>
          [e EXCEPT !.here = FALSE] \in Event /\ [e EXCEPT !.here = FALSE].ev = e.ev
    BY DEF Event
  <2> QED
    BY <2>1, OrphanedKept DEF Popped
<1>2. Len(requests') = Len(requests) /\ requests' \in Seq(Request) /\ Len(requests) \in Nat
  <2>1. \A r \in Request : [r EXCEPT !.here = FALSE] \in Request
    BY DEF Request
  <2> QED
    BY <2>1, OrphanedSeq, LenProperties DEF Popped, AuthType
<1>3. requests' # << >> => requests # << >>
  BY <1>2, EmptySeq
<1>4. Kept(mainQ, mainQ')
  BY <1>1, KeptChain
<1>5. OneAtATime'
  BY <1>1, <1>2, <1>3, <1>4 DEF Orderly, OneAtATime, Kept
<1>6. \A i \in 1 .. Len(stack') : stack'[i] = Registration
  <2>1. Len(stack) \in Nat /\ \A i \in 1 .. Len(stack) - 1 : stack[i] = Registration
    BY Lengths DEF Orderly, OneList
  <2>2. /\ Len(stack') = IF 1 <= Len(stack) - 1 THEN Len(stack) - 1 ELSE 0
        /\ \A i \in 1 .. Len(stack) - 1 : stack'[i] = stack[i]
    BY <2>1, SubSeqProperties DEF Popped
  <2> QED
    BY <2>1, <2>2
<1>7. ~ListIsVisible'
  <2>1. stack' \in Seq({Registration} \cup 1 .. Len(lists))
    BY PoppedStack
  <2>2. stack' # << >> => Len(stack') \in 1 .. Len(stack')
    BY <2>1, EmptySeq
  <2> QED
    BY <1>6, <2>2 DEF ListIsVisible, Top
<1>8. OneList'
  <2>1. \A i \in 1 .. Len(stack') - 1 : i \in 1 .. Len(stack')
    <3>1. Len(stack') \in Nat
      BY Lengths, SubSeqProperties, ElementOfSeq DEF Popped, ListType
    <3> QED
      BY <3>1
  <2> QED
    BY <1>6, <1>7, <2>1 DEF OneList
<1> QED
  BY <1>5, <1>7, <1>8 DEF Orderly

-----------------------------------------------------------------------------
(* Where the rows that wait for their upload were entered: in the list on  *)
(* the screen, but for those that no account will upload as its own.       *)

Strays == {n \in Name : author[n] = Nobody} \cup stranded
Waiting(f) == {n \in DOMAIN f : f[n] = "created" /\ n \notin Strays}
Entered == /\ syncing # NoList => ListIsVisible /\ Top = syncing
           /\ \A n \in Waiting(rows) : syncing # NoList /\ author[n] = lists[Top].owner
           /\ \A n \in Waiting(disk) : ListIsVisible /\ author[n] = lists[Top].owner

Inv == TypeOK /\ (~overlapped => Orderly /\ Entered)

LEMMA InitInv == Init => Inv
<1> SUFFICES ASSUME Init PROVE Inv
  OBVIOUS
<1>1. Len(requests) = 0 /\ Len(mainQ) = 0 /\ Len(stack) = 0
  BY EmptySeq DEF Init
<1>2. OneAtATime
  BY <1>1 DEF Init, OneAtATime, Quiet, Single
<1>3. OneList
  BY <1>1 DEF Init, OneList, ListIsVisible
<1>4. Entered
  BY DEF Init, Entered, Waiting
<1> QED
  BY <1>2, <1>3, <1>4, InitTypes DEF Inv, Orderly

LEMMA AskInv ==
  ASSUME Inv, NEW op \in {"signIn", "register"}, Ask(op), ~ListIsVisible, ~overlapped'
  PROVE  Orderly' /\ Entered'
<1> USE TypeParts DEF Inv
<1>1. ~overlapped /\ requests = << >> /\ Quiet(mainQ)
  BY DEF Ask, Underway, Quiet
<1>2. Len(requests') = 1
  BY <1>1 DEF Ask
<1>3. Single(mainQ)
  BY <1>1 DEF Quiet, Single, AuthEvent
<1>4. OneAtATime'
  BY <1>1, <1>2, <1>3 DEF Ask, OneAtATime, Quiet, Single
<1>5. OneList'
  BY <1>1 DEF Ask, screens, Orderly, OneList, ListIsVisible, Top
<1>6. Entered'
  BY <1>1 DEF Ask, screens, store, past, Entered, Waiting, Strays, Name, ListIsVisible, Top
<1> QED
  BY <1>4, <1>5, <1>6 DEF Orderly

LEMMA AtMostOne ==
  ASSUME NEW n \in Nat, n <= 1, NEW i \in 1 .. n
  PROVE  n = 1
  OBVIOUS

LEMMA AnswerInv ==
  ASSUME Inv, NEW i \in 1 .. Len(requests), Answer(i), ~overlapped'
  PROVE  Orderly' /\ Entered'
<1> USE TypeParts DEF Inv
<1>1. PICK ev \in AuthEvent, u \in Owner : Answered(i, ev, u)
  BY DEF Answer, AuthEvent, Owner, AuthType
<1>2. ~overlapped /\ Len(requests) = 1 /\ requests # << >>
  <2>1. ~overlapped
    BY <1>1 DEF Answered
  <2>2. Len(requests) \in Nat /\ Len(requests) <= 1
    BY <2>1, LenProperties DEF Orderly, OneAtATime, AuthType
  <2>3. Len(requests) = 1
    BY <2>2, AtMostOne
  <2>4. requests # << >>
    BY <2>3, EmptySeq
  <2> QED
    BY <2>1, <2>3, <2>4
<1>3. Quiet(mainQ) /\ ~ListIsVisible
  BY <1>2 DEF Orderly, OneAtATime, OneList
<1>4. Len(requests') = 0 /\ requests' = << >>
  <2>1. requests' \in Seq(Request) /\ Len(requests') = 0
    <3>1. requests' \in [1 .. 0 -> Request]
      BY <1>1, <1>2 DEF Answered
    <3> QED
      BY <3>1, FunctionIsSeq
  <2> QED
    BY <2>1, EmptySeq
<1>5. /\ Len(mainQ) \in Nat /\ Len(mainQ') = Len(mainQ) + 1
      /\ \A j \in 1 .. Len(mainQ) : mainQ'[j] = mainQ[j]
      /\ mainQ'[Len(mainQ) + 1].ev = ev
  <2>1. [ev |-> ev, here |-> requests[i].here] \in [ev : AuthEvent, here : BOOLEAN]
    BY ElementOfSeq DEF AuthType, Request
  <2>2. [ev |-> ev, here |-> requests[i].here] \in Event
    BY <2>1 DEF Event
  <2> QED
    BY <1>1, <2>2, AppendProperties, LenProperties DEF Answered, QueueType
<1>6. Single(mainQ')
  BY <1>3, <1>5 DEF Single, Quiet, AuthEvent
<1>7. OneAtATime'
  BY <1>1, <1>4, <1>6 DEF Answered, OneAtATime
<1>8. OneList'
  BY <1>1, <1>2, <1>3 DEF Answered, screens, Orderly, OneList, ListIsVisible, Top
<1>9. Entered'
  BY <1>1, <1>2, <1>3
  DEF Answered, screens, store, Entered, Waiting, Strays, Name, ListIsVisible, Top
<1> QED
  BY <1>7, <1>8, <1>9 DEF Orderly

\* The list that is left on the screen goes on for the user it was made for.
LEMMA TokenRefusedInv ==
  ASSUME Inv, TokenRefused, ~overlapped'
  PROVE  Orderly' /\ Entered'
<1> USE TypeParts DEF Inv
<1>1. /\ Orderly /\ Entered /\ user' = Nobody /\ expelled' = TRUE
      /\ UNCHANGED <<requests, stack, lists, syncing, mainQ, rows, disk, author, stranded>>
  BY DEF TokenRefused, screens, store
<1>2. OneAtATime'
  BY <1>1 DEF Orderly, OneAtATime
<1>3. OneList'
  BY <1>1 DEF Orderly, OneList, ListIsVisible, Top
<1>4. Entered'
  BY <1>1 DEF Entered, Waiting, Strays, Name, ListIsVisible, Top
<1> QED
  BY <1>2, <1>3, <1>4 DEF Orderly

\* An authentication callback at the head of the queue is the only one, and no
\* list is on the screen.
LEMMA AuthCallback ==
  ASSUME TypeOK, Orderly, mainQ # << >>, Head(mainQ).ev \in AuthEvent
  PROVE  /\ ~ListIsVisible /\ requests = << >> /\ Quiet(Tail(mainQ))
         /\ Kept(mainQ, Tail(mainQ)) /\ ~Quiet(mainQ)
<1> USE TypeParts
<1>1. Len(mainQ) \in Nat \ {0} /\ Head(mainQ) = mainQ[1]
  BY EmptySeq DEF QueueType
<1>2. ~Quiet(mainQ)
  BY <1>1 DEF Quiet
<1>3. Kept(mainQ, Tail(mainQ)) /\ Quiet(Tail(mainQ))
  BY KeptTail DEF QueueType, Orderly, OneAtATime
<1> QED
  BY <1>2, <1>3 DEF Orderly, OneAtATime, OneList

LEMMA SignedInInv ==
  ASSUME Inv, SignedIn, ~overlapped'
  PROVE  Orderly' /\ Entered'
<1> USE TypeParts DEF Inv
<1>1. Orderly /\ Entered /\ mainQ # << >> /\ Head(mainQ).ev = "signedIn" /\ mainQ' = Tail(mainQ)
  BY DEF SignedIn, Callback
<1>2. /\ ~ListIsVisible /\ requests = << >> /\ Quiet(Tail(mainQ))
      /\ Kept(mainQ, Tail(mainQ))
  BY <1>1, AuthCallback DEF AuthEvent
<1>3. OneAtATime'
  BY <1>1, <1>2 DEF SignedIn, auth, Orderly, OneAtATime, Kept
<1>4. \A i \in 1 .. Len(stack) : stack[i] = Registration
  <2>1. Len(stack) \in Nat /\ (Len(stack) = 0 \/ stack # << >>)
    BY Lengths, EmptySeq
  <2> QED
    BY <1>1, <1>2, <2>1 DEF Orderly, OneList, ListIsVisible, Top
<1>5. /\ Len(lists') = Len(lists) + 1 /\ Len(lists) \in Nat
      /\ lists'[Len(lists')].owner = user
  <2>1. [owner |-> user, shown |-> DOMAIN rows] \in [owner : Owner, shown : SUBSET Name]
    BY DEF AuthType, StoreType, RowsType
  <2> QED
    BY <2>1, AppendProperties, Lengths DEF SignedIn, ListType
<1>6. /\ Len(stack') = Len(stack) + 1 /\ Len(stack) \in Nat
      /\ stack'[Len(stack')] = Len(lists') /\ \A i \in 1 .. Len(stack) : stack'[i] = stack[i]
  <2>1. stack \in Seq({Registration} \cup 1 .. Len(lists'))
    BY <1>5, SeqMonotonic DEF ListType
  <2> QED
    BY <1>5, <2>1, AppendProperties, Lengths DEF SignedIn
<1>7. ListIsVisible' /\ Top' = Len(lists')
  <2>1. stack' # << >>
    BY <1>6, EmptySeq
  <2> QED
    BY <1>5, <1>6, <2>1 DEF ListIsVisible, Top, Registration
<1>8. OneList'
  BY <1>1, <1>2, <1>4, <1>5, <1>6, <1>7 DEF SignedIn, auth, OneList
<1>9. Entered'
  <2>1. syncing' = Top' /\ UNCHANGED <<author, stranded, rows, disk>>
    BY <1>2, <1>7 DEF SignedIn, SavedIf, past
  <2>2. Waiting(rows) = {} /\ Waiting(disk) = {}
    BY <1>1, <1>2 DEF Entered
  <2> QED
    BY <1>7, <2>1, <2>2 DEF Entered, Waiting, Strays, Name
<1> QED
  BY <1>3, <1>8, <1>9 DEF Orderly

LEMMA RefusedInv ==
  ASSUME Inv, Refused, ~overlapped'
  PROVE  Orderly' /\ Entered'
<1> USE TypeParts DEF Inv
<1>1. Orderly /\ Entered /\ mainQ # << >> /\ Head(mainQ).ev = "refused" /\ mainQ' = Tail(mainQ)
  BY DEF Refused, Callback
<1>2. Kept(mainQ, mainQ')
  BY <1>1, AuthCallback DEF AuthEvent
<1>3. Orderly'
  BY <1>1, <1>2, QuietOrderly DEF Refused, auth, screens, past
<1>4. Entered'
  BY <1>1
  DEF Refused, screens, store, past, Entered, Waiting, Strays, Name, ListIsVisible, Top
<1> QED
  BY <1>3, <1>4

\* A popped screen leaves no row waiting, as none waits while the main thread
\* is free and a list that disappears saves its rows.
LEMMA PoppedEntered ==
  ASSUME Entered, MainIsFree, ~ListIsVisible', NEW q, Popped(q),
         UNCHANGED <<syncing, rows, author, past>>
  PROVE  Entered'
<1>1. Waiting(rows) = {} /\ syncing' = NoList
  BY DEF Entered, MainIsFree
<1>2. Waiting(disk') = {}
  BY <1>1 DEF Popped, SavedIf, Entered
<1>3. Strays' = Strays
  BY DEF Strays, Name, past
<1> QED
  BY <1>1, <1>2, <1>3 DEF Entered, Waiting

LEMMA RegisteredInv ==
  ASSUME Inv, Registered, ~overlapped'
  PROVE  Orderly' /\ Entered'
<1> USE TypeParts DEF Inv
<1>1. Orderly /\ Entered /\ mainQ # << >> /\ Head(mainQ).ev = "registered" /\ MainIsFree
  BY DEF Registered
<1>2. Kept(mainQ, Tail(mainQ)) /\ Quiet(Tail(mainQ)) /\ Tail(mainQ) \in Seq(Event)
  BY <1>1, AuthCallback, CallbackTypes DEF AuthEvent
<1>3. CASE Head(mainQ).here
  <2>1. Popped(Tail(mainQ)) /\ UNCHANGED <<syncing, rows, author, past>>
    BY <1>3 DEF Registered
  <2>2. Orderly' /\ ~ListIsVisible'
    BY <1>1, <1>2, <2>1, PoppedOrderly
  <2> QED
    BY <1>1, <2>1, <2>2, PoppedEntered
<1>4. CASE ~Head(mainQ).here
  <2>1. Orderly'
    BY <1>1, <1>2, <1>4, QuietOrderly DEF Registered, past
  <2>2. Entered'
    BY <1>1, <1>4 DEF Registered, past, Entered, Waiting, Strays, Name, ListIsVisible, Top
  <2> QED
    BY <2>1, <2>2
<1> QED
  BY <1>3, <1>4

LEMMA OpenRegistrationInv ==
  ASSUME Inv, OpenRegistration, ~overlapped'
  PROVE  Orderly' /\ Entered'
<1> USE TypeParts DEF Inv
<1>1. Orderly /\ Entered /\ stack' = <<Registration>> /\ ~ListIsVisible /\ MainIsFree
  BY DEF OpenRegistration, ListIsVisible
<1>2. ~ListIsVisible' /\ Len(stack') = 1
  BY <1>1 DEF ListIsVisible, Top
<1>3. OneAtATime'
  BY <1>1 DEF OpenRegistration, auth, Orderly, OneAtATime
<1>4. OneList'
  BY <1>2 DEF OneList
<1>5. Entered'
  BY <1>1, <1>2
  DEF OpenRegistration, store, past, MainIsFree, Entered, Waiting, Strays, Name
<1> QED
  BY <1>3, <1>4, <1>5 DEF Orderly

LEMMA KeptSelf == \A q : Kept(q, q)
  BY DEF Kept

LEMMA BackInv ==
  ASSUME Inv, Back, ~overlapped'
  PROVE  Orderly' /\ Entered'
<1> USE TypeParts DEF Inv
<1>1. Orderly /\ Entered /\ Popped(mainQ) /\ MainIsFree /\ UNCHANGED <<syncing, rows, author, past>>
  BY DEF Back
<1>2. Orderly' /\ ~ListIsVisible'
  BY <1>1, KeptSelf, PoppedOrderly DEF QueueType
<1> QED
  BY <1>1, <1>2, PoppedEntered

LEMMA LogOutInv ==
  ASSUME Inv, LogOut, ~overlapped'
  PROVE  Orderly' /\ Entered'
<1> USE TypeParts DEF Inv
<1>1. Orderly /\ Entered /\ Popped(mainQ) /\ MainIsFree /\ UNCHANGED <<syncing, rows, author, past>>
  BY DEF LogOut
<1>2. Orderly' /\ ~ListIsVisible'
  BY <1>1, KeptSelf, PoppedOrderly DEF QueueType
<1> QED
  BY <1>1, <1>2, PoppedEntered

LEMMA SaveAndSyncInv ==
  ASSUME Inv, ListIsVisible, NEW rs, SaveAndSync(rs), ~overlapped',
         \A n \in DOMAIN rs : rs[n] = "created" => n \in Strays' \/ author'[n] = lists[Top].owner
  PROVE  Orderly' /\ Entered'
<1> USE TypeParts DEF Inv
<1>1. Orderly /\ ~overlapped
  BY DEF SaveAndSync
<1>2. lists'[Top].owner = lists[Top].owner
  <2>1. Top \in DOMAIN lists /\ lists[Top] \in [owner : Owner, shown : SUBSET Name]
    BY VisibleListExists, LenProperties DEF ListType
  <2>2. lists' = [lists EXCEPT ![Top] = [lists[Top] EXCEPT !.shown = DOMAIN rs]]
    BY DEF SaveAndSync
  <2>3. lists'[Top] = [lists[Top] EXCEPT !.shown = DOMAIN rs]
    BY <2>1, <2>2
  <2> QED
    BY <2>1, <2>3
<1>3. Orderly'
  BY <1>1, <1>2, KeptSelf, QuietOrderly DEF SaveAndSync, auth, past
<1>4. Entered'
  <2>1. ListIsVisible' /\ Top' = Top /\ syncing' = Top /\ Top # NoList
    BY DEF SaveAndSync, ListIsVisible, Top, Registration, NoList
  <2> QED
    BY <1>2, <2>1 DEF SaveAndSync, Entered, Waiting
<1> QED
  BY <1>3, <1>4

LEMMA AddTaskInv ==
  ASSUME Inv, AddTask, ~overlapped'
  PROVE  Orderly' /\ Entered'
<1> USE TypeParts DEF Inv
<1> DEFINE rs == [n \in DOMAIN rows \cup {Len(author')} |->
                    IF n \in DOMAIN rows THEN rows[n] ELSE "created"]
<1>1. SaveAndSync(rs) /\ ListIsVisible /\ MainIsFree /\ author' = Append(author, lists[Top].owner)
  BY DEF AddTask
<1>2. Orderly /\ Entered
  BY <1>1 DEF SaveAndSync
<1>3. Waiting(rows) = {} /\ UNCHANGED past
  BY <1>1, <1>2 DEF Entered, MainIsFree, SaveAndSync
<1>4. /\ Len(author') = Len(author) + 1 /\ Len(author) \in Nat
      /\ author'[Len(author')] = lists[Top].owner
      /\ \A n \in Name : n \in Name' /\ author'[n] = author[n]
  <2>1. lists[Top].owner \in Owner
    BY <1>1, VisibleListExists
  <2> QED
    BY <1>1, <2>1, AppendProperties, Lengths DEF ListType, Name
<1>5. ASSUME NEW n \in DOMAIN rs, rs[n] = "created"
      PROVE  n \in Strays' \/ author'[n] = lists[Top].owner
  <2>1. CASE n \in DOMAIN rows
    <3>1. n \in Strays /\ n \in Name
      BY <1>3, <1>5, <2>1 DEF Waiting, StoreType, RowsType
    <3> QED
      BY <1>3, <1>4, <3>1 DEF Strays, past
  <2>2. CASE n \notin DOMAIN rows
    BY <1>4, <1>5, <2>2
  <2> QED
    BY <2>1, <2>2
<1> HIDE DEF rs
<1> QED
  BY <1>1, <1>5, SaveAndSyncInv

LEMMA EditTaskInv ==
  ASSUME Inv, EditTask, ~overlapped'
  PROVE  Orderly' /\ Entered'
<1> USE TypeParts DEF Inv
<1>1. ListIsVisible /\ MainIsFree
  BY DEF EditTask
<1>4. ASSUME ~overlapped, UNCHANGED past, NEW n \in DOMAIN rows, rows[n] = "created"
      PROVE  n \in Strays'
  <2>1. Strays' = Strays
    BY <1>4 DEF EditTask, Strays, Name, past
  <2> QED
    BY <1>1, <1>4, <2>1 DEF Entered, Waiting, MainIsFree
<1>2. ASSUME NEW n \in lists[Top].shown, SaveAndSync([rows EXCEPT ![n] = "updated"])
      PROVE  Orderly' /\ Entered'
  <2> DEFINE rs == [rows EXCEPT ![n] = "updated"]
  <2>1. \A m \in DOMAIN rs : rs[m] = "created" => m \in DOMAIN rows /\ rows[m] = "created"
    OBVIOUS
  <2> HIDE DEF rs
  <2>2. \A m \in DOMAIN rs : rs[m] = "created" => m \in Strays'
    BY <1>2, <1>4, <2>1 DEF SaveAndSync, rs
  <2> QED
    BY <1>1, <1>2, <2>2, SaveAndSyncInv DEF rs
<1>3. ASSUME SaveAndSync(rows)
      PROVE  Orderly' /\ Entered'
  <2>1. \A m \in DOMAIN rows : rows[m] = "created" => m \in Strays'
    BY <1>3, <1>4 DEF SaveAndSync
  <2> QED
    BY <1>1, <1>3, <2>1, SaveAndSyncInv
<1> QED
  BY <1>2, <1>3 DEF EditTask

\* What an upload sends, and to whom.
LEMMA UploadSends ==
  ASSUME Inv, Upload, ~overlapped
  PROVE  /\ Waiting(rows)' = {}
         /\ \A n \in Waiting(rows) : n \in DOMAIN docs' /\ docs'[n] = author[n]
<1> USE TypeParts DEF Inv
<1>1. /\ syncing # NoList /\ UNCHANGED <<author, stranded>>
      /\ \A n \in Waiting(rows) : author[n] = lists[syncing].owner
  BY DEF Upload, MainIsFree, Entered, past
<1> DEFINE sent == {n \in DOMAIN rows : rows[n] = "updated"
                      \/ (rows[n] = "created" /\ lists[syncing].owner # Nobody)}
<1>2. Waiting(rows) \subseteq sent
  <2>1. \A n \in Waiting(rows) : n \in Name /\ author[n] # Nobody
    BY DEF Waiting, Strays, StoreType, RowsType
  <2> QED
    BY <1>1, <2>1 DEF Waiting
<1>3. /\ docs' = [n \in DOMAIN docs \cup sent |-> IF n \in sent THEN lists[syncing].owner ELSE docs[n]]
      /\ rows' = [n \in DOMAIN rows |-> IF n \in sent THEN "sent" ELSE rows[n]]
  BY DEF Upload
<1> HIDE DEF sent
<1>4. Waiting(rows)' = {}
  BY <1>1, <1>2, <1>3 DEF Waiting, Strays, Name
<1>5. \A n \in Waiting(rows) : n \in DOMAIN docs' /\ docs'[n] = author[n]
  BY <1>1, <1>2, <1>3
<1> QED
  BY <1>4, <1>5

LEMMA UploadInv ==
  ASSUME Inv, Upload, ~overlapped'
  PROVE  Orderly' /\ Entered'
<1> USE TypeParts DEF Inv
<1>1. Orderly /\ Entered /\ ~overlapped /\ syncing \in 1 .. Len(lists)
  BY DEF Upload, MainIsFree, ListType
<1> DEFINE owner == lists[syncing].owner
<1> DEFINE sent == {n \in DOMAIN rows : rows[n] = "updated" \/ (rows[n] = "created" /\ owner # Nobody)}
<1> DEFINE affected == IF sent = {} THEN {}
                       ELSE {owner} \cup {docs[n] : n \in sent \cap DOMAIN docs}
<1> DEFINE e == [ev |-> "notify", list |-> syncing]
<1>2. PICK told \in Raised(docs', affected) :
        mainQ' \in {mainQ \o told \o <<e>>, mainQ \o <<e>> \o told}
  BY DEF Upload
<1> HIDE DEF owner, sent, affected
<1>3. Quiet(told) /\ told \in Seq(Event)
  <2>1. DOMAIN docs' \subseteq Name
    BY UploadTypes, SameLists, ShapeOfState DEF Shape, Upload, screens, StoreType, DocsType
  <2>2. told \in Seq([ev : {"snapshot"}, list : 1 .. Len(lists), docs : SUBSET Name])
    BY <1>2, <2>1, RaisedEvents
  <2> QED
    BY <1>2, <2>1, <2>2, RaisedQuiet, SeqMonotonic DEF Event
<1>4. Quiet(<<e>>) /\ <<e>> \in Seq(Event)
  BY <1>1 DEF Quiet, AuthEvent, Event
<1> HIDE DEF e
<1>5. Kept(mainQ, mainQ')
  <2>1. /\ Kept(mainQ, mainQ \o told) /\ Kept(mainQ, mainQ \o <<e>>)
        /\ mainQ \o told \in Seq(Event) /\ mainQ \o <<e>> \in Seq(Event)
    BY <1>3, <1>4, KeptConcat, ConcatProperties DEF QueueType
  <2>2. Kept(mainQ \o told, mainQ \o told \o <<e>>) /\ Kept(mainQ \o <<e>>, mainQ \o <<e>> \o told)
    BY <1>3, <1>4, <2>1, KeptConcat
  <2>3. Kept(mainQ, mainQ \o told \o <<e>>)
    BY <2>1, <2>2, KeptChain
  <2>4. Kept(mainQ, mainQ \o <<e>> \o told)
    BY <2>1, <2>2, KeptChain
  <2> QED
    BY <1>2, <2>3, <2>4
<1>6. Orderly'
  BY <1>1, <1>5, QuietOrderly DEF Upload, auth, screens, past
<1>7. Entered'
  <2>1. Waiting(rows)' = {} /\ syncing' = NoList
    BY <1>1, UploadSends DEF Upload
  <2>2. UNCHANGED <<disk, stack, lists, author, stranded>>
    BY DEF Upload, screens, past
  <2> QED
    BY <1>1, <2>1, <2>2 DEF Entered, Waiting, Strays, Name, ListIsVisible, Top
<1> QED
  BY <1>6, <1>7

LEMMA NotifyInv ==
  ASSUME Inv, Notify, ~overlapped'
  PROVE  Orderly' /\ Entered'
<1> USE TypeParts DEF Inv
<1> DEFINE c == Head(mainQ).list
<1> DEFINE e == [ev |-> "snapshot", list |-> c, docs |-> OwnedBy(docs, lists[c].owner)]
<1>1. Orderly /\ Entered /\ MainIsFree /\ mainQ # << >>
  BY DEF Notify
<1>2. mainQ' = Tail(mainQ) \/ mainQ' = Append(Tail(mainQ), e)
  BY DEF Notify
<1>3. e \in Event /\ e.ev \notin AuthEvent
  <2>1. c \in 1 .. Len(lists)
    BY CallbackTypes DEF Notify, Event, AuthEvent
  <2>2. OwnedBy(docs, lists[c].owner) \subseteq Name
    BY DEF OwnedBy, StoreType, DocsType
  <2> QED
    BY <2>1, <2>2 DEF Event, AuthEvent
<1> HIDE DEF e
<1>4. Kept(mainQ, mainQ')
  <2>1. Kept(mainQ, Tail(mainQ)) /\ Tail(mainQ) \in Seq(Event)
    BY <1>1, KeptTail, CallbackTypes DEF QueueType
  <2>2. Kept(Tail(mainQ), Append(Tail(mainQ), e))
    BY <1>3, <2>1, KeptAppend
  <2>3. Kept(mainQ, Append(Tail(mainQ), e))
    BY <2>1, <2>2, KeptChain
  <2> QED
    BY <1>2, <2>1, <2>3
<1>5. Orderly'
  BY <1>1, <1>4, QuietOrderly DEF Notify, auth, screens, past
<1>6. Entered'
  BY <1>1
  DEF Notify, screens, past, Entered, Waiting, Strays, Name, MainIsFree, ListIsVisible, Top
<1> QED
  BY <1>5, <1>6

LEMMA SnapshotInv ==
  ASSUME Inv, Snapshot, ~overlapped'
  PROVE  Orderly' /\ Entered'
<1> USE TypeParts DEF Inv
<1>1. Orderly /\ Entered /\ MainIsFree /\ mainQ # << >> /\ mainQ' = Tail(mainQ)
  BY DEF Snapshot, Callback
<1>2. Kept(mainQ, mainQ')
  BY <1>1, KeptTail DEF QueueType
<1>3. ASSUME ListIsVisible PROVE lists'[Top].owner = lists[Top].owner
  <2>1. Top \in 1 .. Len(lists) /\ lists[Top] \in [owner : Owner, shown : SUBSET Name]
    BY <1>3, VisibleListExists
  <2> DEFINE shows == IF Top = Head(mainQ).list THEN Head(mainQ).docs ELSE {}
  <2>2. lists'[Top] = [lists[Top] EXCEPT !.shown = shows]
    BY <2>1 DEF Snapshot
  <2> HIDE DEF shows
  <2> QED
    BY <2>1, <2>2
<1>4. Orderly'
  BY <1>1, <1>2, <1>3, QuietOrderly DEF Snapshot, auth, past
<1>5. Entered'
  <2>1. Waiting(rows)' = {} /\ Waiting(disk)' = {} /\ syncing' = NoList
    BY <1>1 DEF Snapshot, Waiting, MainIsFree
  <2> QED
    BY <2>1 DEF Entered
<1> QED
  BY <1>4, <1>5

LEMMA SnapshotErrorInv ==
  ASSUME Inv, SnapshotError, ~overlapped'
  PROVE  Orderly' /\ Entered'
<1> USE TypeParts DEF Inv
<1>1. Orderly /\ Entered /\ MainIsFree /\ mainQ # << >> /\ mainQ' = Tail(mainQ)
  BY DEF SnapshotError, Callback
<1>2. Kept(mainQ, mainQ')
  BY <1>1, KeptTail DEF QueueType
<1>3. ASSUME ListIsVisible PROVE lists'[Top].owner = lists[Top].owner
  <2> DEFINE c == Head(mainQ).list
  <2>1. Top \in DOMAIN lists /\ lists[Top] \in [owner : Owner, shown : SUBSET Name]
    BY <1>3, VisibleListExists, LenProperties DEF ListType
  <2>2. lists' = [lists EXCEPT ![c] = [lists[c] EXCEPT !.shown = DOMAIN rows]]
    BY DEF SnapshotError
  <2> HIDE DEF c
  <2>3. lists'[Top] = lists[Top] \/ lists'[Top] = [lists[Top] EXCEPT !.shown = DOMAIN rows]
    BY <2>1, <2>2
  <2> QED
    BY <2>1, <2>3
<1>4. Orderly'
  BY <1>1, <1>2, <1>3, QuietOrderly DEF SnapshotError, auth, past
<1>5. Entered'
  <2>1. Waiting(rows)' = {} /\ Waiting(disk)' = {} /\ syncing' = NoList
    BY <1>1 DEF SnapshotError, Waiting, Strays, Name, past, MainIsFree, Entered
  <2> QED
    BY <2>1 DEF Entered
<1> QED
  BY <1>4, <1>5

LEMMA RejectInv ==
  ASSUME Inv, NEW c \in listeners, Reject(c), ~overlapped'
  PROVE  Orderly' /\ Entered'
<1> USE TypeParts DEF Inv
<1>1. Orderly /\ Entered
  BY DEF Reject
<1>2. Kept(mainQ, mainQ')
  <2> DEFINE e == [ev |-> "error", list |-> c]
  <2>1. e \in Event /\ e.ev \notin AuthEvent
    BY DEF Event, AuthEvent, ListType
  <2>2. mainQ' = Append(mainQ, e)
    BY DEF Reject
  <2> HIDE DEF e
  <2> QED
    BY <2>1, <2>2, KeptAppend DEF QueueType
<1>3. Orderly'
  BY <1>1, <1>2, QuietOrderly DEF Reject, auth, screens, past
<1>4. Entered'
  BY <1>1 DEF Reject, screens, store, past, Entered, Waiting, Strays, Name, ListIsVisible, Top
<1> QED
  BY <1>3, <1>4

\* Other devices do not change in whose list a task of this one was entered.
LEMMA RemoteAuthors ==
  ASSUME TypeOK, NEW u \in User, Remote(u)
  PROVE  \A n \in Name : author'[n] = author[n]
<1> USE TypeParts
<1>1. CASE author' = Append(author, u)
  BY <1>1, AppendProperties DEF ListType, Owner, Name
<1>2. CASE author' = author
  BY <1>2
<1> QED
  BY <1>1, <1>2 DEF Remote

LEMMA RemoteInv ==
  ASSUME Inv, NEW u \in User, Remote(u), ~overlapped'
  PROVE  Orderly' /\ Entered'
<1> USE TypeParts DEF Inv
<1>1. Orderly /\ Entered
  BY DEF Remote
<1>2. Kept(mainQ, mainQ')
  <2>1. PICK told \in Raised(docs', {u}) : mainQ' = mainQ \o told
    BY DEF Remote
  <2>2. DOMAIN docs' \subseteq Name'
    BY RemoteTypes, ShapeOfState DEF Shape, StoreType, DocsType
  <2>3. Quiet(told) /\ told \in Seq([ev : {"snapshot"}, list : 1 .. Len(lists), docs : SUBSET Name'])
    BY <2>1, <2>2, RaisedQuiet, RaisedEvents
  <2> DEFINE S == Event \cup [ev : {"snapshot"}, list : 1 .. Len(lists), docs : SUBSET Name']
  <2>4. mainQ \in Seq(S) /\ told \in Seq(S)
    BY <2>3, SeqMonotonic DEF QueueType
  <2> HIDE DEF S
  <2> QED
    BY <2>1, <2>3, <2>4, KeptConcat
<1>3. Orderly'
  BY <1>1, <1>2, QuietOrderly DEF Remote, auth, screens, past
<1>4. Entered'
  <2>1. \A n \in Name : n \in Name' /\ author'[n] = author[n]
    BY RemoteAuthors, NamesStay, ShapeOfState DEF Next
  <2>2. Name \cap Strays' \subseteq Strays /\ Strays \subseteq Strays'
    BY <2>1 DEF Remote, past, Strays, PastType
  <2>3. DOMAIN rows \subseteq Name /\ DOMAIN disk \subseteq Name
    BY DEF StoreType, RowsType
  <2>4. UNCHANGED <<rows, disk, stack, lists, syncing>>
    BY DEF Remote, screens, store
  <2>5. \A n \in Waiting(rows)' : n \in Waiting(rows) /\ author'[n] = author[n]
    BY <2>1, <2>2, <2>3, <2>4 DEF Waiting
  <2>6. \A n \in Waiting(disk)' : n \in Waiting(disk) /\ author'[n] = author[n]
    BY <2>1, <2>2, <2>3, <2>4 DEF Waiting
  <2> QED
    BY <1>1, <2>4, <2>5, <2>6 DEF Entered, ListIsVisible, Top
<1> QED
  BY <1>3, <1>4

LEMMA CrashInv ==
  ASSUME Inv, Crash, ~overlapped'
  PROVE  Orderly' /\ Entered'
<1> USE TypeParts DEF Inv
<1>1. Orderly /\ Entered /\ requests' = << >> /\ mainQ' = << >>
  BY DEF Crash
<1>2. Len(requests') = 0 /\ Len(mainQ') = 0
  BY <1>1, EmptySeq
<1>3. OneAtATime' /\ Quiet(mainQ')
  BY <1>1, <1>2 DEF OneAtATime, Quiet, Single
<1>4. CASE user = Nobody
  <2>1. stack' = << >> /\ syncing' = NoList /\ Len(stack') = 0
    BY <1>4, EmptySeq DEF Crash
  <2>2. Waiting(rows)' = {} /\ Waiting(disk)' = {}
    <3>1. {n \in DOMAIN disk : disk[n] = "created"} \subseteq Strays'
      BY <1>4 DEF Crash, Strays
    <3> QED
      BY <3>1 DEF Crash, Waiting
  <2>3. OneList' /\ Entered'
    BY <2>1, <2>2 DEF OneList, Entered, ListIsVisible
  <2> QED
    BY <1>3, <2>3 DEF Orderly
<1>5. CASE user # Nobody
  <2>1. /\ stack' = <<1>> /\ syncing' = 1 /\ lists'[1].owner = user
    BY <1>5 DEF Crash, Launched
  <2>2. ListIsVisible' /\ Top' = 1 /\ Len(stack') = 1
    BY <2>1 DEF ListIsVisible, Top, Registration
  <2>3. OneList'
    BY <1>1, <1>3, <1>5, <2>1, <2>2 DEF Crash, OneList
  <2>4. Entered'
    <3>1. Strays' = Strays /\ rows' = disk /\ disk' = disk /\ author' = author
      BY <1>5 DEF Crash, Strays, Name
    <3>2. \A n \in Waiting(disk) : author[n] = user
      BY <1>1, <1>5 DEF Orderly, OneList, Entered
    <3> QED
      BY <2>1, <2>2, <3>1, <3>2 DEF Entered, Waiting, NoList
  <2> QED
    BY <1>3, <2>3, <2>4 DEF Orderly
<1> QED
  BY <1>4, <1>5

LEMMA StutterInv ==
  ASSUME Inv, UNCHANGED vars, ~overlapped'
  PROVE  Orderly' /\ Entered'
<1>1. Orderly /\ Entered
  BY DEF Inv, vars
<1>2. Orderly'
  BY <1>1, KeptSelf, QuietOrderly DEF vars, auth, screens, past
<1>3. Entered'
  BY <1>1 DEF vars, screens, store, past, Entered, Waiting, Strays, Name, ListIsVisible, Top
<1> QED
  BY <1>2, <1>3

LEMMA NextInv == Inv /\ [Next]_vars => Inv'
<1> SUFFICES ASSUME Inv, [Next]_vars, ~overlapped' PROVE Orderly' /\ Entered'
  BY NextTypes DEF Inv
<1>1. CASE TrySignIn \/ TryRegister
  BY <1>1, AskInv DEF TrySignIn, TryRegister, ListIsVisible
<1>2. CASE \E i \in 1 .. Len(requests) : Answer(i)
  BY <1>2, AnswerInv
<1>3. CASE SignedIn \/ Refused \/ Registered
  BY <1>3, SignedInInv, RefusedInv, RegisteredInv
<1>4. CASE OpenRegistration \/ Back \/ LogOut
  BY <1>4, OpenRegistrationInv, BackInv, LogOutInv
<1>5. CASE AddTask \/ EditTask \/ Upload
  BY <1>5, AddTaskInv, EditTaskInv, UploadInv
<1>6. CASE Notify \/ Snapshot \/ SnapshotError
  BY <1>6, NotifyInv, SnapshotInv, SnapshotErrorInv
<1>7. CASE \E c \in listeners : Reject(c)
  BY <1>7, RejectInv
<1>8. CASE \E u \in User : Remote(u)
  BY <1>8, RemoteInv
<1>9. CASE Crash
  BY <1>9, CrashInv
<1>10. CASE UNCHANGED vars
  BY <1>10, StutterInv
<1>11. CASE TokenRefused
  BY <1>11, TokenRefusedInv
<1> QED
  BY <1>1, <1>2, <1>3, <1>4, <1>5, <1>6, <1>7, <1>8, <1>9, <1>10, <1>11 DEF Next

\* The task list on the screen works for the signed-in user, or for one whom a
\* refused token signed out under it, unless two authentications overlapped:
\* through registrations, log-outs that fail, callbacks that come late and
\* relaunches.
THEOREM VisibleListIsTheUsers == Spec => []ListIsTheUsers
<1>1. Init => Inv
  BY InitInv
<1>2. Inv /\ [Next]_vars => Inv'
  BY NextInv
<1>3. Inv => ListIsTheUsers
  BY DEF Inv, Orderly, OneList, ListIsTheUsers
<1> QED
  BY <1>1, <1>2, <1>3, PTL DEF Spec

-----------------------------------------------------------------------------
LEMMA TasksStep ==
  ASSUME Inv, [Next]_vars, NEW n \in DOMAIN rows, rows[n] = "created",
         n \in DOMAIN docs' \ DOMAIN docs
  PROVE  overlapped \/ docs'[n] = author[n] \/ author[n] = Nobody \/ n \in stranded
<1> USE TypeParts DEF Inv
<1>1. n \in Name
  BY DEF StoreType, RowsType
<1>2. CASE Upload
  BY <1>1, <1>2, UploadSends DEF Waiting, Strays
<1>3. ASSUME NEW u \in User, Remote(u) PROVE FALSE
  <2>1. CASE /\ author' = Append(author, u)
             /\ docs' = [m \in DOMAIN docs \cup {Len(author')} |->
                           IF m \in DOMAIN docs THEN docs[m] ELSE u]
    <3>1. Len(author') = Len(author) + 1
      BY <2>1, AppendProperties DEF ListType, Owner
    <3> QED
      BY <1>1, <2>1, <3>1, Lengths DEF Name
  <2>2. CASE \E m \in OwnedBy(docs, u) : docs' = Restrict(docs, DOMAIN docs \ {m})
    BY <2>2 DEF Restrict
  <2> QED
    BY <1>3, <2>1, <2>2 DEF Remote
<1>4. CASE docs' = docs
  BY <1>4
<1>5. Upload \/ (\E u \in User : Remote(u)) \/ docs' = docs
  BY DEF Next, vars, cloud, TrySignIn, TryRegister, Ask, Answer, Answered, TokenRefused,
         SignedIn, Refused,
         Registered, OpenRegistration, Back, LogOut, AddTask, EditTask, SaveAndSync, Notify,
         Snapshot, SnapshotError, Reject, Crash
<1> QED
  BY <1>2, <1>3, <1>4, <1>5

\* A new task becomes a document of the user in whose list it was entered: no
\* crash, log-out, refused token or later login makes it somebody else's, unless
\* two authentications overlapped, the list was nobody's, or the process died with
\* nobody signed in.
THEOREM NewTasksGoToTheirAuthor == Spec => TasksGoToTheirAuthor
<1>1. Init => Inv
  BY InitInv
<1>2. Inv /\ [Next]_vars => Inv'
  BY NextInv
<1>3. Inv /\ [Next]_vars =>
        [\A n \in DOMAIN rows :
           rows[n] = "created" /\ n \in DOMAIN docs' \ DOMAIN docs
             => \/ overlapped
                \/ docs'[n] = author[n]
                \/ author[n] = Nobody \/ n \in stranded]_vars
  BY TasksStep
<1> QED
  BY <1>1, <1>2, <1>3, PTL DEF Spec, TasksGoToTheirAuthor

-----------------------------------------------------------------------------
(* What fills the store.  The last snapshot on its way to a list with a       *)
(* listener is of the documents as they are, and as long as no snapshot is on *)
(* its way, nor a notification that will ask for one, the rows are those of   *)
(* the last one.                                                              *)

OfList(e, c) == e.ev = "snapshot" /\ e.list = c
LatestFor(q, c, S) ==
  \A i \in 1 .. Len(q) :
    OfList(q[i], c) /\ (\A j \in 1 .. Len(q) : j > i => ~ OfList(q[j], c)) => q[i].docs = S

\* What the snapshots of list c in the queue q bring.
Brings(q, c) == {q[i].docs : i \in {k \in 1 .. Len(q) : OfList(q[k], c)}}

Filling(e, ls) == e.ev = "snapshot" \/ (e.ev = "notify" /\ ls[e.list].owner # Nobody)
Fills(q, ls) == \E i \in 1 .. Len(q) : Filling(q[i], ls)

\* No snapshot or notification of q is missing from r, and none is new.
Calm(q, r) ==
  /\ \A c, S : LatestFor(q, c, S) => LatestFor(r, c, S)
  /\ \A c : Brings(r, c) \subseteq Brings(q, c)
  /\ \A ls : Fills(q, ls) => Fills(r, ls)

Coming == Fills(mainQ, lists) \/ (syncing # NoList /\ lists[syncing].owner # Nobody)
Fits == \A n \in Name : author[n] # Nobody =>
          (n \in DOMAIN rows <=> n \in OwnedBy(docs, lists[source].owner))

Current == \A c \in listeners : LatestFor(mainQ, c, OwnedBy(docs, lists[c].owner))
Filled == source \in listeners => Coming \/ Fits

\* A list on the screen, filled by its own snapshot or about to be, knows documents
\* of its user only.
Mine(S) == \A n \in S \cap DOMAIN docs : docs[n] = lists[Top].owner
Unmoved ==
  ~ overlapped /\ ListIsVisible =>
    /\ source = Top => Mine(DOMAIN rows)
    /\ \A S \in Brings(mainQ, Top) : Mine(S)

LEMMA TailFills ==
  ASSUME NEW T, NEW q \in Seq(T), q # << >>, NEW ls
  PROVE  /\ \A c, S : LatestFor(q, c, S) => LatestFor(Tail(q), c, S)
         /\ \A c : Brings(Tail(q), c) \subseteq Brings(q, c)
         /\ Fills(q, ls) /\ ~ Filling(Head(q), ls) => Fills(Tail(q), ls)
         /\ \A c, S : OfList(Head(q), c) /\ LatestFor(q, c, S) =>
              Fills(Tail(q), ls) \/ Head(q).docs = S
         /\ \A c : OfList(Head(q), c) => Head(q).docs \in Brings(q, c)
<1> DEFINE t == Tail(q)
<1>1. /\ Len(q) \in Nat /\ Len(q) >= 1 /\ Len(t) = Len(q) - 1 /\ Head(q) = q[1]
      /\ \A i \in 1 .. Len(t) : t[i] = q[i + 1]
  BY HeadTailProperties, EmptySeq, LenProperties
<1> HIDE DEF t
<1>2. /\ \A i \in 1 .. Len(t) : i + 1 \in 1 .. Len(q) /\ i + 1 > 1
      /\ \A i \in 1 .. Len(q) : i # 1 => i - 1 \in 1 .. Len(t) /\ t[i - 1] = q[i] /\ i > 1
      /\ 1 \in 1 .. Len(q)
  <2>1. \A i \in 1 .. Len(q) : i # 1 => i - 1 \in 1 .. Len(t) /\ (i - 1) + 1 = i /\ i > 1
    BY <1>1
  <2> QED  BY <1>1, <2>1
<1>3. ASSUME NEW c, NEW S, LatestFor(q, c, S),
             NEW i \in 1 .. Len(t), OfList(t[i], c),
             \A j \in 1 .. Len(t) : j > i => ~ OfList(t[j], c)
      PROVE  t[i].docs = S
  <2>1. ASSUME NEW j \in 1 .. Len(q), j > i + 1 PROVE ~ OfList(q[j], c)
    <3>1. j # 1 /\ j - 1 > i
      BY <1>1, <2>1
    <3> QED  BY <1>2, <1>3, <3>1
  <2> QED  BY <1>1, <1>2, <1>3, <2>1 DEF LatestFor
<1>4. \A c, S : LatestFor(q, c, S) => LatestFor(t, c, S)
  BY <1>3 DEF LatestFor
<1>5. \A c : Brings(t, c) \subseteq Brings(q, c)
  BY <1>1, <1>2 DEF Brings
<1>6. Fills(q, ls) /\ ~ Filling(Head(q), ls) => Fills(t, ls)
  BY <1>1, <1>2 DEF Fills
<1>7. ASSUME NEW c, NEW S, OfList(Head(q), c), LatestFor(q, c, S), ~ Fills(t, ls)
      PROVE  Head(q).docs = S
  <2>1. \A j \in 1 .. Len(q) : j > 1 => ~ OfList(q[j], c)
    BY <1>2, <1>7 DEF Fills, Filling, OfList
  <2> QED  BY <1>1, <1>2, <1>7, <2>1 DEF LatestFor
<1>8. \A c : OfList(Head(q), c) => Head(q).docs \in Brings(q, c)
  BY <1>1, <1>2 DEF Brings
<1> QED  BY <1>4, <1>5, <1>6, <1>7, <1>8 DEF t

\* Where the events of a longer queue come from.
LEMMA ConcatIndices ==
  ASSUME NEW T, NEW q \in Seq(T), NEW t \in Seq(T)
  PROVE  /\ Len(q) \in Nat
         /\ \A i \in 1 .. Len(q) : i \in 1 .. Len(q \o t) /\ (q \o t)[i] = q[i]
         /\ \A i \in 1 .. Len(t) : Len(q) + i \in 1 .. Len(q \o t) /\ (q \o t)[Len(q) + i] = t[i]
         /\ \A i \in 1 .. Len(q \o t) : i \in 1 .. Len(q) \/
              (i - Len(q) \in 1 .. Len(t) /\ (q \o t)[i] = t[i - Len(q)] /\ i > Len(q))
<1> DEFINE r == q \o t
<1>1. /\ Len(q) \in Nat /\ Len(t) \in Nat /\ Len(r) = Len(q) + Len(t)
      /\ \A i \in 1 .. Len(r) : r[i] = IF i <= Len(q) THEN q[i] ELSE t[i - Len(q)]
  BY ConcatProperties, LenProperties
<1> HIDE DEF r
<1>2. \A i \in 1 .. Len(t) : Len(q) + i \in 1 .. Len(r) /\ ~ (Len(q) + i <= Len(q))
                             /\ (Len(q) + i) - Len(q) = i
  BY <1>1
<1>3. \A i \in 1 .. Len(q) : i \in 1 .. Len(r) /\ i <= Len(q)
  BY <1>1
<1>4. \A i \in 1 .. Len(r) : i \in 1 .. Len(q) \/ (i - Len(q) \in 1 .. Len(t)
                                /\ ~ (i <= Len(q)) /\ i > Len(q))
  BY <1>1
<1>5. /\ \A i \in 1 .. Len(q) : i \in 1 .. Len(r) /\ r[i] = q[i]
      /\ \A i \in 1 .. Len(t) : Len(q) + i \in 1 .. Len(r) /\ r[Len(q) + i] = t[i]
      /\ \A i \in 1 .. Len(r) : i \in 1 .. Len(q) \/
           (i - Len(q) \in 1 .. Len(t) /\ r[i] = t[i - Len(q)] /\ i > Len(q))
  BY <1>1, <1>2, <1>3, <1>4
<1> QED  BY <1>1, <1>5 DEF r

\* Snapshots that join the queue bring what list c shall see, and one of them does,
\* unless the queue ends with that already.
LEMMA ConcatLatest ==
  ASSUME NEW T, NEW q \in Seq(T), NEW t \in Seq(T), NEW c, NEW S,
         \A i \in 1 .. Len(t) : OfList(t[i], c) => t[i].docs = S,
         LatestFor(q, c, S) \/ (\E i \in 1 .. Len(t) : OfList(t[i], c))
  PROVE  LatestFor(q \o t, c, S)
<1> DEFINE r == q \o t
<1>1. /\ Len(q) \in Nat
      /\ \A i \in 1 .. Len(q) : i \in 1 .. Len(r) /\ r[i] = q[i]
      /\ \A i \in 1 .. Len(t) : Len(q) + i \in 1 .. Len(r) /\ r[Len(q) + i] = t[i]
      /\ \A i \in 1 .. Len(r) : i \in 1 .. Len(q) \/
           (i - Len(q) \in 1 .. Len(t) /\ r[i] = t[i - Len(q)] /\ i > Len(q))
  BY ConcatIndices
<1> HIDE DEF r
<1>2. ASSUME NEW i \in 1 .. Len(r), OfList(r[i], c),
             \A j \in 1 .. Len(r) : j > i => ~ OfList(r[j], c)
      PROVE  r[i].docs = S
  <2>1. CASE i \notin 1 .. Len(q)
    BY <1>1, <1>2, <2>1
  <2>2. CASE i \in 1 .. Len(q)
    <3>1. \A j \in 1 .. Len(t) : Len(q) + j > i
      BY <1>1, <2>2
    <3>2. ~ \E j \in 1 .. Len(t) : OfList(t[j], c)
      BY <1>1, <1>2, <3>1
    <3>3. OfList(q[i], c) /\ \A j \in 1 .. Len(q) : j > i => ~ OfList(q[j], c)
      BY <1>1, <1>2, <2>2
    <3> QED  BY <1>1, <2>2, <3>2, <3>3 DEF LatestFor
  <2> QED  BY <2>1, <2>2
<1>3. LatestFor(r, c, S)
  BY <1>2 DEF LatestFor
<1> QED  BY <1>3 DEF r

LEMMA ConcatFills ==
  ASSUME NEW T, NEW q \in Seq(T), NEW t \in Seq(T)
  PROVE  /\ \A c : Brings(q \o t, c) \subseteq Brings(q, c) \cup Brings(t, c)
         /\ \A ls : Fills(q, ls) \/ Fills(t, ls) => Fills(q \o t, ls)
<1> DEFINE r == q \o t
<1>1. /\ \A i \in 1 .. Len(q) : i \in 1 .. Len(r) /\ r[i] = q[i]
      /\ \A i \in 1 .. Len(t) : Len(q) + i \in 1 .. Len(r) /\ r[Len(q) + i] = t[i]
      /\ \A i \in 1 .. Len(r) : i \in 1 .. Len(q) \/
           (i - Len(q) \in 1 .. Len(t) /\ r[i] = t[i - Len(q)])
  BY ConcatIndices
<1> HIDE DEF r
<1>2. ASSUME NEW c, NEW i \in 1 .. Len(r), OfList(r[i], c)
      PROVE  r[i].docs \in Brings(q, c) \cup Brings(t, c)
  <2>1. CASE i \in 1 .. Len(q)
    BY <1>1, <1>2, <2>1 DEF Brings
  <2>2. CASE i \notin 1 .. Len(q)
    <3>1. i - Len(q) \in 1 .. Len(t) /\ OfList(t[i - Len(q)], c) /\ r[i].docs = t[i - Len(q)].docs
      BY <1>1, <1>2, <2>2
    <3> QED  BY <3>1 DEF Brings
  <2> QED  BY <2>1, <2>2
<1>3. \A c : Brings(r, c) \subseteq Brings(q, c) \cup Brings(t, c)
  BY <1>2 DEF Brings
<1>4. \A ls : Fills(q, ls) \/ Fills(t, ls) => Fills(r, ls)
  BY <1>1 DEF Fills
<1> QED  BY <1>3, <1>4 DEF r

\* An event that is no snapshot changes nothing of the kind.
LEMMA AppendCalm ==
  ASSUME NEW T, NEW q \in Seq(T), NEW e \in T, e.ev # "snapshot"
  PROVE  Calm(q, Append(q, e))
<1>1. Append(q, e) = q \o <<e>> /\ <<e>> \in Seq(T) /\ Len(<<e>>) = 1 /\ <<e>>[1] = e
  BY AppendIsConcat
<1>2. \A c : \A i \in 1 .. Len(<<e>>) : ~ OfList(<<e>>[i], c)
  BY <1>1 DEF OfList
<1>3. ASSUME NEW c, NEW S, LatestFor(q, c, S) PROVE LatestFor(Append(q, e), c, S)
  BY <1>1, <1>2, <1>3, ConcatLatest
<1>4. \A c : Brings(<<e>>, c) = {}
  BY <1>2 DEF Brings
<1>5. \A c : Brings(Append(q, e), c) \subseteq Brings(q, c)
  BY <1>1, <1>4, ConcatFills
<1>6. \A ls : Fills(q, ls) => Fills(Append(q, e), ls)
  <2>1. \A ls : Fills(q, ls) \/ Fills(<<e>>, ls) => Fills(q \o <<e>>, ls)
    BY <1>1, ConcatFills
  <2> QED  BY <1>1, <2>1
<1> QED  BY <1>3, <1>5, <1>6 DEF Calm

\* A callback that is no snapshot and no notification.
LEMMA TailCalm ==
  ASSUME NEW T, NEW q \in Seq(T), q # << >>, Head(q).ev \notin {"snapshot", "notify"}
  PROVE  Calm(q, Tail(q))
<1>1. \A ls : ~ Filling(Head(q), ls)
  BY DEF Filling
<1> QED  BY <1>1, TailFills DEF Calm

LEMMA CalmChain ==
  ASSUME NEW q, NEW r, NEW t, Calm(q, r), Calm(r, t)
  PROVE  Calm(q, t)
BY DEF Calm

\* The callbacks of a registration screen that is popped change only their "here".
LEMMA OrphanedCalm ==
  ASSUME NEW q \in Seq(Event), NEW t,
         t = [i \in 1 .. Len(q) |->
                IF Top = Registration /\ "here" \in DOMAIN q[i]
                THEN [q[i] EXCEPT !.here = FALSE] ELSE q[i]]
  PROVE  Calm(q, t)
<1>1. Len(t) = Len(q)
  BY LenProperties
<1>2. \A i \in 1 .. Len(q) : t[i].ev = q[i].ev /\ (q[i].ev \notin AuthEvent => t[i] = q[i])
  <2> SUFFICES ASSUME NEW i \in 1 .. Len(q)
               PROVE  t[i].ev = q[i].ev /\ (q[i].ev \notin AuthEvent => t[i] = q[i])
    OBVIOUS
  <2>1. q[i] \in Event
    BY ElementOfSeq
  <2>2. CASE q[i] \in [ev : AuthEvent, here : BOOLEAN]
    BY <2>2
  <2>3. CASE q[i] \notin [ev : AuthEvent, here : BOOLEAN]
    <3>1. DOMAIN q[i] = {"ev", "list"} \/ DOMAIN q[i] = {"ev", "list", "docs"}
      BY <2>1, <2>3 DEF Event
    <3> QED  BY <3>1
  <2> QED  BY <2>2, <2>3
<1>3. /\ \A i \in 1 .. Len(q) : \A c : OfList(t[i], c) <=> OfList(q[i], c)
      /\ \A i \in 1 .. Len(q) : \A c : OfList(q[i], c) => t[i] = q[i]
      /\ \A i \in 1 .. Len(q) : \A ls : Filling(q[i], ls) => Filling(t[i], ls)
  BY <1>2 DEF OfList, Filling, AuthEvent
<1> QED  BY <1>1, <1>3 DEF Calm, LatestFor, Brings, Fills

-----------------------------------------------------------------------------
(* The steps that raise no snapshot and ask for none.                      *)

Quiets ==
  \/ TrySignIn \/ TryRegister \/ (\E i \in 1 .. Len(requests) : Answer(i))
  \/ TokenRefused
  \/ SignedIn \/ Refused \/ Registered
  \/ OpenRegistration \/ Back \/ LogOut
  \/ AddTask \/ EditTask \/ SnapshotError
  \/ (\E c \in listeners : Reject(c)) \/ UNCHANGED vars

\* A list keeps its owner until the process dies.
LEMMA OwnersStay ==
  ASSUME TypeOK, [Next]_vars, ~ Crash
  PROVE  \A c \in 1 .. Len(lists) : c \in 1 .. Len(lists') /\ lists'[c].owner = lists[c].owner
<1> USE TypeParts
<1>1. /\ Len(lists) \in Nat /\ DOMAIN lists = 1 .. Len(lists)
      /\ \A c \in 1 .. Len(lists) : lists[c] \in [owner : Owner, shown : SUBSET Name]
  BY LenProperties, ElementOfSeq DEF ListType
<1>2. CASE lists' = lists
  BY <1>2
<1>3. ASSUME NEW c \in 1 .. Len(lists), NEW s, lists' = [lists EXCEPT ![c].shown = s]
      PROVE  \A d \in 1 .. Len(lists) : d \in 1 .. Len(lists') /\ lists'[d].owner = lists[d].owner
  <2>1. DOMAIN lists' = 1 .. Len(lists)
    BY <1>1, <1>3
  <2>2. Len(lists') = Len(lists)
    BY <1>1, <2>1
  <2>3. \A d \in 1 .. Len(lists) : lists'[d].owner = lists[d].owner
    BY <1>1, <1>3
  <2> QED  BY <2>2, <2>3
<1>4. CASE SignedIn
  <2>1. [owner |-> user, shown |-> DOMAIN rows] \in [owner : Owner, shown : SUBSET Name]
    BY DEF AuthType, StoreType, RowsType
  <2> QED  BY <1>1, <1>4, <2>1, AppendProperties DEF SignedIn, ListType
<1>5. CASE AddTask \/ EditTask
  <2>1. ListIsVisible /\ Top \in 1 .. Len(lists)
    BY <1>5, VisibleListExists DEF AddTask, EditTask
  <2>2. \E s : lists' = [lists EXCEPT ![Top].shown = s]
    BY <1>5 DEF AddTask, EditTask, SaveAndSync
  <2> QED  BY <1>3, <2>1, <2>2
<1>6. CASE SnapshotError
  <2>1. Head(mainQ) \in Event /\ Head(mainQ).ev = "error"
    BY <1>6, CallbackTypes DEF SnapshotError, Callback
  <2>2. Head(mainQ).list \in 1 .. Len(lists)
    BY <2>1 DEF Event, AuthEvent
  <2> QED  BY <1>3, <1>6, <2>2 DEF SnapshotError
<1>7. CASE Snapshot
  <2> DEFINE c == Head(mainQ).list
             shows(d) == IF d = c THEN Head(mainQ).docs ELSE {}
  <2>1. lists' = [d \in 1 .. Len(lists) |-> [lists[d] EXCEPT !.shown = shows(d)]]
    BY <1>7 DEF Snapshot
  <2> HIDE DEF shows
  <2>2. DOMAIN lists' = 1 .. Len(lists) /\ Len(lists') = Len(lists)
    BY <1>1, <2>1
  <2>3. \A d \in 1 .. Len(lists) : lists'[d].owner = lists[d].owner
    BY <1>1, <2>1
  <2> QED  BY <2>2, <2>3
<1> QED
  BY <1>2, <1>4, <1>5, <1>6, <1>7
  DEF Next, vars, screens, TrySignIn, TryRegister, Ask, Answer, Answered, TokenRefused,
      Refused, Registered,
      OpenRegistration, Back, LogOut, Upload, Notify, Reject, Remote

\* What waits for a list of a user goes on waiting for it.
LEMMA FillsForNow ==
  ASSUME TypeOK, Fills(mainQ, lists),
         \A c \in 1 .. Len(lists) : lists'[c].owner = lists[c].owner
  PROVE  Fills(mainQ, lists')
<1> USE TypeParts
<1>1. PICK i \in 1 .. Len(mainQ) : Filling(mainQ[i], lists)
  BY DEF Fills
<1>2. mainQ[i] \in Event
  BY ElementOfSeq DEF QueueType
<1>3. mainQ[i].ev = "notify" => mainQ[i].list \in 1 .. Len(lists)
  BY <1>2 DEF Event, AuthEvent
<1> QED  BY <1>1, <1>3 DEF Fills, Filling

LEMMA PoppedCalm ==
  ASSUME NEW q \in Seq(Event), Popped(q)
  PROVE  Calm(q, mainQ')
BY OrphanedCalm DEF Popped

LEMMA QuietCalm ==
  ASSUME TypeOK, Quiets
  PROVE  /\ Calm(mainQ, mainQ')
         /\ docs' = docs /\ listeners' \subseteq listeners /\ source' = source
         /\ syncing # NoList => syncing' = syncing
<1> USE TypeParts
<1>1. CASE TrySignIn \/ TryRegister \/ TokenRefused \/ OpenRegistration \/ AddTask \/ EditTask
            \/ UNCHANGED vars
  BY <1>1 DEF TrySignIn, TryRegister, Ask, TokenRefused, OpenRegistration, AddTask, EditTask,
              SaveAndSync, vars, cloud, Calm, MainIsFree
<1>2. ASSUME NEW i \in 1 .. Len(requests), Answer(i)
      PROVE  /\ Calm(mainQ, mainQ') /\ UNCHANGED <<docs, listeners, source, syncing>>
  <2>1. PICK ev \in AuthEvent, u \in Owner : Answered(i, ev, u)
    BY <1>2 DEF Answer, AuthEvent, Owner, AuthType
  <2>2. requests[i] \in Request
    BY ElementOfSeq DEF AuthType
  <2> DEFINE e == [ev |-> ev, here |-> requests[i].here]
  <2>3. e \in Event /\ e.ev # "snapshot"
    BY <2>2 DEF Request, Event, AuthEvent
  <2>4. mainQ' = Append(mainQ, e) /\ UNCHANGED <<docs, listeners, source, syncing>>
    BY <2>1 DEF Answered, cloud
  <2> HIDE DEF e
  <2> QED  BY <2>3, <2>4, AppendCalm DEF QueueType
<1>3. CASE SignedIn \/ Refused \/ SnapshotError
  <2>1. mainQ # << >> /\ mainQ' = Tail(mainQ) /\ syncing = NoList
        /\ Head(mainQ).ev \notin {"snapshot", "notify"}
    BY <1>3 DEF SignedIn, Refused, SnapshotError, Callback, MainIsFree
  <2>2. Calm(mainQ, mainQ')
    BY <2>1, TailCalm DEF QueueType
  <2> QED  BY <1>3, <2>1, <2>2 DEF SignedIn, Refused, SnapshotError, cloud
<1>4. CASE Registered
  <2>1. mainQ # << >> /\ Head(mainQ).ev = "registered" /\ syncing = NoList
        /\ UNCHANGED <<docs, listeners, source>>
        /\ (Popped(Tail(mainQ)) \/ mainQ' = Tail(mainQ))
    BY <1>4 DEF Registered, cloud, MainIsFree
  <2>2. Calm(mainQ, Tail(mainQ)) /\ Tail(mainQ) \in Seq(Event)
    BY <2>1, TailCalm, CallbackTypes DEF QueueType
  <2> QED  BY <2>1, <2>2, PoppedCalm, CalmChain
<1>5. CASE Back \/ LogOut
  <2>1. Popped(mainQ) /\ syncing = NoList /\ UNCHANGED <<docs, listeners, source>>
    BY <1>5 DEF Back, LogOut, cloud, MainIsFree
  <2> QED  BY <2>1, PoppedCalm DEF QueueType
<1>6. ASSUME NEW c \in listeners, Reject(c)
      PROVE  /\ Calm(mainQ, mainQ') /\ listeners' \subseteq listeners
             /\ UNCHANGED <<docs, source, syncing>>
  <2> DEFINE e == [ev |-> "error", list |-> c]
  <2>1. e \in Event /\ e.ev # "snapshot"
    BY <1>6 DEF Event, AuthEvent, ListType
  <2>2. mainQ' = Append(mainQ, e) /\ listeners' \subseteq listeners
        /\ UNCHANGED <<docs, source, syncing>>
    BY <1>6 DEF Reject
  <2> HIDE DEF e
  <2> QED  BY <2>1, <2>2, AppendCalm DEF QueueType
<1> QED  BY <1>1, <1>2, <1>3, <1>4, <1>5, <1>6 DEF Quiets

\* Of the rows only a new task's changes, and it is excepted or about to be replaced.
LEMMA QuietFits ==
  ASSUME TypeOK, Quiets, Fits, source \in listeners,
         \A c \in 1 .. Len(lists) : c \in 1 .. Len(lists') /\ lists'[c].owner = lists[c].owner
  PROVE  Coming' \/ Fits'
<1> USE TypeParts
<1>1. docs' = docs /\ source' = source /\ source \in 1 .. Len(lists)
  BY QuietCalm DEF ListType
<1>2. lists'[source'].owner = lists[source].owner
  BY <1>1
<1>3. CASE author' = author /\ DOMAIN rows' = DOMAIN rows
  BY <1>1, <1>2, <1>3 DEF Fits, Name, OwnedBy
<1>4. CASE AddTask
  <2>1. ListIsVisible /\ Top \in 1 .. Len(lists) /\ Top # NoList
    BY <1>4, VisibleListExists DEF AddTask, ListIsVisible, Registration, NoList
  <2>2. lists[Top].owner \in Owner
    BY <2>1, VisibleListExists
  <2>3. /\ author' = Append(author, lists[Top].owner) /\ syncing' = Top
        /\ DOMAIN rows' = DOMAIN rows \cup {Len(author')}
    BY <1>4 DEF AddTask, SaveAndSync
  <2>4. /\ Len(author') = Len(author) + 1 /\ Len(author) \in Nat
        /\ \A n \in 1 .. Len(author) : author'[n] = author[n]
        /\ author'[Len(author) + 1] = lists[Top].owner
    BY <2>2, <2>3, AppendProperties, LenProperties DEF ListType
  <2>5. CASE lists[Top].owner # Nobody
    BY <2>1, <2>3, <2>5 DEF Coming
  <2>6. CASE lists[Top].owner = Nobody
    <3>1. \A n \in Name' : n = Len(author) + 1 \/ (n \in Name /\ n # Len(author'))
      BY <2>4 DEF Name
    <3>2. \A n \in Name : author'[n] = author[n]
      BY <2>4 DEF Name
    <3> QED  BY <1>1, <1>2, <2>3, <2>4, <2>6, <3>1, <3>2 DEF Fits, OwnedBy
  <2> QED  BY <2>5, <2>6
<1>5. AddTask \/ (author' = author /\ DOMAIN rows' = DOMAIN rows)
  <2>1. CASE EditTask
    BY <2>1 DEF EditTask, SaveAndSync
  <2>2. CASE ~ EditTask
    BY <2>2
    DEF Quiets, vars, store, TrySignIn, TryRegister, Ask, Answer, Answered, TokenRefused,
        SignedIn, Refused,
        Registered, OpenRegistration, Back, LogOut, SnapshotError, Reject
  <2> QED  BY <2>1, <2>2
<1> QED  BY <1>3, <1>4, <1>5

LEMMA QuietFilled ==
  ASSUME TypeOK, Quiets, Current, Filled,
         \A c \in 1 .. Len(lists) : c \in 1 .. Len(lists') /\ lists'[c].owner = lists[c].owner
  PROVE  Current' /\ Filled'
<1> USE TypeParts
<1>1. /\ Calm(mainQ, mainQ') /\ docs' = docs /\ listeners' \subseteq listeners
      /\ source' = source /\ (syncing # NoList => syncing' = syncing)
  BY QuietCalm
<1>2. Current'
  <2> SUFFICES ASSUME NEW c \in listeners'
               PROVE  LatestFor(mainQ', c, OwnedBy(docs', lists'[c].owner))
    BY DEF Current
  <2>1. c \in listeners /\ lists'[c].owner = lists[c].owner
    BY <1>1 DEF ListType
  <2>2. LatestFor(mainQ, c, OwnedBy(docs, lists[c].owner))
    BY <2>1 DEF Current
  <2> QED  BY <1>1, <2>1, <2>2 DEF Calm
<1>3. ASSUME source' \in listeners' PROVE Coming' \/ Fits'
  <2>1. source \in listeners
    BY <1>1, <1>3
  <2>2. CASE Fills(mainQ, lists)
    <3>1. Fills(mainQ, lists')
      BY <2>2, FillsForNow
    <3> QED  BY <1>1, <3>1 DEF Calm, Coming
  <2>3. CASE syncing # NoList /\ lists[syncing].owner # Nobody
    <3>1. syncing' = syncing /\ lists'[syncing].owner # Nobody
      BY <1>1, <2>3 DEF ListType
    <3> QED  BY <2>3, <3>1 DEF Coming
  <2>4. CASE Fits
    BY <2>1, <2>4, QuietFits
  <2> QED  BY <2>1, <2>2, <2>3, <2>4 DEF Filled, Coming
<1> QED  BY <1>2, <1>3 DEF Filled

-----------------------------------------------------------------------------
(* The steps that raise snapshots, ask for one, or take one.               *)

\* Every listener of an owner whose documents changed gets them as they became.
LEMMA RaisedBrings ==
  ASSUME ListType, NEW ds, NEW who, NEW t \in Raised(ds, who)
  PROVE  /\ \A i \in 1 .. Len(t) : \A c : OfList(t[i], c) => t[i].docs = OwnedBy(ds, lists[c].owner)
         /\ \A c \in listeners : lists[c].owner \in who => \E i \in 1 .. Len(t) : OfList(t[i], c)
<1> DEFINE told == {c \in listeners : lists[c].owner \in who}
           n == Cardinality(told)
           S(c) == OwnedBy(ds, lists[c].owner)
<1>1. n \in Nat
  <2>1. IsFiniteSet(1 .. Len(lists))
    BY FS_Interval, Lengths
  <2>2. IsFiniteSet(told)
    BY <2>1, FS_Subset DEF ListType
  <2> QED  BY <2>2, FS_CardinalityType
<1>2. PICK f \in [1 .. n -> told] :
        /\ Range(f) = told
        /\ t = [i \in DOMAIN f |-> [ev |-> "snapshot", list |-> f[i], docs |-> S(f[i])]]
  BY DEF Raised
<1> HIDE DEF n, S
<1>3. t = [i \in 1 .. n |-> [ev |-> "snapshot", list |-> f[i], docs |-> S(f[i])]]
  BY <1>2
<1>4. Len(t) = n
  <2> DEFINE V == {t[i] : i \in 1 .. n}
  <2>1. t \in [1 .. n -> V]
    BY <1>3
  <2> HIDE DEF V
  <2> QED  BY <1>1, <2>1, FunctionIsSeq
<1>5. \A i \in 1 .. n : t[i].ev = "snapshot" /\ t[i].list = f[i] /\ t[i].docs = S(f[i])
  BY <1>3
<1>6. \A i \in 1 .. Len(t) : \A c : OfList(t[i], c) => t[i].docs = S(c)
  BY <1>4, <1>5 DEF OfList
<1>7. \A c \in told : \E i \in 1 .. n : f[i] = c
  BY <1>2 DEF Range
<1>8. \A c \in told : \E i \in 1 .. Len(t) : OfList(t[i], c)
  BY <1>4, <1>5, <1>7 DEF OfList
<1> QED  BY <1>6, <1>8 DEF S

LEMMA RaisedCurrent ==
  ASSUME ListType, NEW T, NEW q \in Seq(T), NEW t \in Seq(T), NEW ds, NEW who,
         t \in Raised(ds, who),
         \A w : w \notin who => OwnedBy(ds, w) = OwnedBy(docs, w),
         \A c \in listeners : LatestFor(q, c, OwnedBy(docs, lists[c].owner))
  PROVE  \A c \in listeners : LatestFor(q \o t, c, OwnedBy(ds, lists[c].owner))
<1> SUFFICES ASSUME NEW c \in listeners
             PROVE  LatestFor(q \o t, c, OwnedBy(ds, lists[c].owner))
  OBVIOUS
<1> DEFINE S == OwnedBy(ds, lists[c].owner)
<1>1. \A i \in 1 .. Len(t) : OfList(t[i], c) => t[i].docs = S
  BY RaisedBrings
<1>2. LatestFor(q, c, S) \/ \E i \in 1 .. Len(t) : OfList(t[i], c)
  BY RaisedBrings
<1> HIDE DEF S
<1>3. LatestFor(q \o t, c, S)
  BY <1>1, <1>2, ConcatLatest
<1> QED  BY <1>3 DEF S

\* What the workers of a list hand over, and the snapshots that raises.
LEMMA UploadFilled ==
  ASSUME TypeOK, Upload, Current, Filled
  PROVE  Current' /\ Filled'
<1> USE TypeParts
<1> DEFINE owner == lists[syncing].owner
           sent == {n \in DOMAIN rows : rows[n] = "updated" \/ (rows[n] = "created" /\ owner # Nobody)}
           affected == IF sent = {} THEN {}
                       ELSE {owner} \cup {docs[n] : n \in sent \cap DOMAIN docs}
           e == [ev |-> "notify", list |-> syncing]
<1>1. /\ docs' = [n \in DOMAIN docs \cup sent |-> IF n \in sent THEN owner ELSE docs[n]]
      /\ DOMAIN rows' = DOMAIN rows /\ sent \subseteq DOMAIN rows
      /\ UNCHANGED <<lists, listeners, author, source>>
  BY DEF Upload, screens
<1>2. PICK t \in Raised(docs', affected) :
        mainQ' \in {mainQ \o t \o <<e>>, mainQ \o <<e>> \o t}
  BY DEF Upload
<1>3. \A w : w \notin affected => OwnedBy(docs', w) = OwnedBy(docs, w)
  BY <1>1 DEF OwnedBy
<1>4. ASSUME NEW n \in sent, n \in DOMAIN docs PROVE docs[n] \in affected
  BY <1>4
<1> HIDE DEF sent, affected
<1>5. syncing \in 1 .. Len(lists) /\ e \in Event /\ e.ev = "notify" /\ e.list = syncing
  BY DEF Upload, MainIsFree, ListType, Event
<1>6. t \in Seq(Event)
  <2>1. DOMAIN docs' \subseteq Name
    BY <1>1 DEF StoreType, RowsType, DocsType
  <2>2. t \in Seq([ev : {"snapshot"}, list : 1 .. Len(lists), docs : SUBSET Name])
    BY <1>2, <2>1, RaisedEvents
  <2> QED  BY <2>2, SeqMonotonic DEF Event
<1> HIDE DEF e
<1>7. /\ <<e>> \in Seq(Event) /\ mainQ \in Seq(Event) /\ mainQ \o t \in Seq(Event)
      /\ mainQ \o <<e>> \in Seq(Event) /\ mainQ \o <<e>> = Append(mainQ, e)
      /\ mainQ \o t \o <<e>> = Append(mainQ \o t, e)
  BY <1>5, <1>6, ConcatProperties, AppendIsConcat DEF QueueType
<1>8. Calm(mainQ, mainQ \o <<e>>) /\ Calm(mainQ \o t, mainQ \o t \o <<e>>)
  BY <1>5, <1>7, AppendCalm
<1>9. Current'
  <2>1. \A c \in listeners : LatestFor(mainQ \o t, c, OwnedBy(docs', lists[c].owner))
    BY <1>2, <1>3, <1>6, <1>7, RaisedCurrent DEF Current
  <2>2. \A c \in listeners : LatestFor(mainQ \o t \o <<e>>, c, OwnedBy(docs', lists[c].owner))
    BY <1>8, <2>1 DEF Calm
  <2>3. \A c \in listeners : LatestFor(mainQ \o <<e>>, c, OwnedBy(docs, lists[c].owner))
    BY <1>8 DEF Calm, Current
  <2>4. \A c \in listeners : LatestFor(mainQ \o <<e>> \o t, c, OwnedBy(docs', lists[c].owner))
    BY <1>2, <1>3, <1>6, <1>7, <2>3, RaisedCurrent
  <2> QED  BY <1>1, <1>2, <2>2, <2>4 DEF Current
<1>10. ASSUME Fills(mainQ, lists) \/ Fills(t, lists) \/ Fills(<<e>>, lists)
       PROVE  Fills(mainQ', lists)
  <2>1. /\ \A ls : Fills(mainQ, ls) \/ Fills(t, ls) => Fills(mainQ \o t, ls)
        /\ \A ls : Fills(mainQ, ls) \/ Fills(<<e>>, ls) => Fills(mainQ \o <<e>>, ls)
    BY <1>6, <1>7, ConcatFills
  <2>2. /\ \A ls : Fills(mainQ \o t, ls) \/ Fills(<<e>>, ls) => Fills(mainQ \o t \o <<e>>, ls)
        /\ \A ls : Fills(mainQ \o <<e>>, ls) \/ Fills(t, ls) => Fills(mainQ \o <<e>> \o t, ls)
    BY <1>6, <1>7, ConcatFills
  <2>3. CASE mainQ' = mainQ \o t \o <<e>>
    BY <1>10, <2>1, <2>2, <2>3
  <2>4. CASE mainQ' = mainQ \o <<e>> \o t
    BY <1>10, <2>1, <2>2, <2>4
  <2> QED  BY <1>2, <2>3, <2>4
<1>11. ASSUME source \in listeners PROVE Fills(mainQ', lists) \/ Fits'
  <2>1. CASE owner # Nobody
    <3>1. Len(<<e>>) = 1 /\ <<e>>[1] = e
      OBVIOUS
    <3>2. Fills(<<e>>, lists)
      BY <1>5, <2>1, <3>1 DEF Fills, Filling
    <3> QED  BY <1>10, <3>2
  <2>2. CASE Fills(mainQ, lists)
    BY <1>10, <2>2
  <2>3. CASE Fits /\ \E n \in sent : author[n] # Nobody
    <3>1. PICK n \in sent : author[n] # Nobody
      BY <2>3
    <3>2. n \in Name /\ n \in DOMAIN rows
      BY <1>1, <3>1 DEF StoreType, RowsType
    <3>3. n \in DOMAIN docs /\ docs[n] = lists[source].owner
      BY <2>3, <3>1, <3>2 DEF Fits, OwnedBy
    <3>4. \E i \in 1 .. Len(t) : OfList(t[i], source)
      BY <1>2, <1>4, <1>11, <3>1, <3>3, RaisedBrings
    <3>5. Fills(t, lists)
      BY <3>4 DEF Fills, Filling, OfList
    <3> QED  BY <1>10, <3>5
  <2>4. CASE Fits /\ \A n \in sent : author[n] = Nobody
    <3>1. \A n \in Name : author[n] # Nobody =>
            (n \in OwnedBy(docs', lists[source].owner) <=> n \in OwnedBy(docs, lists[source].owner))
      BY <1>1, <2>4 DEF OwnedBy
    <3> QED  BY <1>1, <2>4, <3>1 DEF Fits, Name
  <2> QED  BY <1>11, <2>1, <2>2, <2>3, <2>4 DEF Filled, Coming
<1> QED  BY <1>1, <1>9, <1>11 DEF Filled, Coming

LEMMA NotifyFilled ==
  ASSUME TypeOK, Notify, Current, Filled
  PROVE  Current' /\ Filled'
<1> USE TypeParts
<1> DEFINE c == Head(mainQ).list
           S == OwnedBy(docs, lists[c].owner)
           e == [ev |-> "snapshot", list |-> c, docs |-> S]
           q == Tail(mainQ)
<1>1. /\ mainQ # << >> /\ Head(mainQ).ev = "notify" /\ syncing = NoList
      /\ UNCHANGED <<lists, rows, docs, author, source, syncing>>
      /\ IF lists[c].owner = Nobody THEN mainQ' = q /\ listeners' = listeners
         ELSE listeners' = listeners \cup {c} /\ mainQ' = Append(q, e)
  BY DEF Notify, screens, MainIsFree
<1>2. c \in 1 .. Len(lists) /\ q \in Seq(Event)
  BY <1>1, CallbackTypes DEF Event, AuthEvent
<1>3. /\ \A d, D : LatestFor(mainQ, d, D) => LatestFor(q, d, D)
      /\ Fills(mainQ, lists) /\ ~ Filling(Head(mainQ), lists) => Fills(q, lists)
  BY <1>1, TailFills DEF QueueType
<1>4. CASE lists[c].owner = Nobody
  <2>1. mainQ' = q /\ listeners' = listeners
    BY <1>1, <1>4
  <2>2. ~ Filling(Head(mainQ), lists)
    BY <1>1, <1>4 DEF Filling
  <2>3. Current'
    BY <1>1, <1>3, <2>1 DEF Current
  <2>4. Fits => Fits'
    BY <1>1 DEF Fits, Name
  <2>5. Coming => Coming'
    BY <1>1, <1>3, <2>1, <2>2 DEF Coming
  <2> QED  BY <1>1, <2>1, <2>3, <2>4, <2>5 DEF Filled
<1>5. CASE lists[c].owner # Nobody
  <2>1. listeners' = listeners \cup {c} /\ mainQ' = Append(q, e)
    BY <1>1, <1>5
  <2>2. e \in Event /\ e.ev = "snapshot" /\ e.list = c /\ e.docs = S
    <3>1. S \subseteq Name
      BY DEF OwnedBy, StoreType, DocsType
    <3> QED  BY <1>2, <3>1 DEF Event
  <2> HIDE DEF e, q
  <2>3. Append(q, e) = q \o <<e>> /\ <<e>> \in Seq(Event) /\ Len(<<e>>) = 1 /\ <<e>>[1] = e
    BY <1>2, <2>2, AppendIsConcat
  <2>4. ASSUME NEW d \in listeners \cup {c}
        PROVE  LatestFor(q \o <<e>>, d, OwnedBy(docs, lists[d].owner))
    <3> DEFINE D == OwnedBy(docs, lists[d].owner)
    <3>1. \A i \in 1 .. Len(<<e>>) : OfList(<<e>>[i], d) => <<e>>[i].docs = D
      BY <2>2, <2>3 DEF OfList
    <3>2. LatestFor(q, d, D) \/ \E i \in 1 .. Len(<<e>>) : OfList(<<e>>[i], d)
      BY <1>3, <2>2, <2>3, <2>4 DEF Current, OfList
    <3> HIDE DEF D
    <3>3. LatestFor(q \o <<e>>, d, D)
      BY <1>2, <2>3, <3>1, <3>2, ConcatLatest
    <3> QED  BY <3>3 DEF D
  <2>5. Current'
    BY <1>1, <2>1, <2>3, <2>4 DEF Current
  <2>6. Fills(mainQ', lists')
    <3>1. Fills(<<e>>, lists')
      BY <2>2, <2>3 DEF Fills, Filling
    <3>2. \A ls : Fills(q, ls) \/ Fills(<<e>>, ls) => Fills(q \o <<e>>, ls)
      BY <1>2, <2>3, ConcatFills
    <3> QED  BY <2>1, <2>3, <3>1, <3>2
  <2> QED  BY <2>5, <2>6 DEF Filled, Coming
<1> QED  BY <1>4, <1>5

\* A snapshot makes its list the source; if no other comes it was the last.
LEMMA SnapshotFilled ==
  ASSUME TypeOK, Snapshot, Current,
         \A d \in 1 .. Len(lists) : d \in 1 .. Len(lists') /\ lists'[d].owner = lists[d].owner
  PROVE  Current' /\ Filled'
<1> USE TypeParts
<1> DEFINE c == Head(mainQ).list
<1>1. /\ mainQ # << >> /\ OfList(Head(mainQ), c) /\ mainQ' = Tail(mainQ)
      /\ DOMAIN rows' = Head(mainQ).docs /\ source' = c
      /\ UNCHANGED <<docs, listeners, author>>
  BY DEF Snapshot, Callback, OfList, cloud
<1> HIDE DEF c
<1>2. /\ \A d, D : LatestFor(mainQ, d, D) => LatestFor(Tail(mainQ), d, D)
      /\ \A d, D : OfList(Head(mainQ), d) /\ LatestFor(mainQ, d, D) =>
           Fills(Tail(mainQ), lists') \/ Head(mainQ).docs = D
  BY <1>1, TailFills DEF QueueType
<1>3. Current'
  <2> SUFFICES ASSUME NEW d \in listeners'
               PROVE  LatestFor(mainQ', d, OwnedBy(docs', lists'[d].owner))
    BY DEF Current
  <2>1. d \in listeners /\ lists'[d].owner = lists[d].owner
    BY <1>1 DEF ListType
  <2>2. LatestFor(mainQ, d, OwnedBy(docs, lists[d].owner))
    BY <2>1 DEF Current
  <2> QED  BY <1>1, <1>2, <2>1, <2>2
<1>4. ASSUME c \in listeners PROVE Coming' \/ Fits'
  <2>1. lists'[c].owner = lists[c].owner
    BY <1>4 DEF ListType
  <2>2. Fills(mainQ', lists') \/ DOMAIN rows' = OwnedBy(docs, lists[c].owner)
    BY <1>1, <1>2, <1>4 DEF Current
  <2> QED  BY <1>1, <2>1, <2>2 DEF Coming, Fits
<1> QED  BY <1>1, <1>3, <1>4 DEF Filled

LEMMA RemoteFilled ==
  ASSUME TypeOK, NEW u \in User, Remote(u), Current, Filled
  PROVE  Current' /\ Filled'
<1> USE TypeParts
<1>1. UNCHANGED <<lists, syncing, rows, listeners, source>>
  BY DEF Remote, screens, store
<1>2. /\ \A n \in Name : author'[n] = author[n]
      /\ \A n \in Name' : n \in Name \/ (n \notin DOMAIN rows /\ n \notin DOMAIN docs)
      /\ \A w : w # u => OwnedBy(docs', w) = OwnedBy(docs, w)
      /\ Len(author) \in Nat /\ Len(author') \in Nat /\ Len(author) <= Len(author')
      /\ DOMAIN docs' \subseteq Name'
  <2>1. CASE /\ author' = Append(author, u)
             /\ docs' = [n \in DOMAIN docs \cup {Len(author')} |->
                           IF n \in DOMAIN docs THEN docs[n] ELSE u]
    <3>1. Len(author') = Len(author) + 1 /\ Len(author) \in Nat
      BY <2>1, AppendProperties, LenProperties DEF ListType, Owner
    <3>2. \A n \in Name' : n \in Name \/ (n \notin DOMAIN rows /\ n \notin DOMAIN docs)
      BY <3>1 DEF Name, StoreType, RowsType, DocsType
    <3>3. \A w : w # u => OwnedBy(docs', w) = OwnedBy(docs, w)
      BY <2>1 DEF OwnedBy
    <3>4. DOMAIN docs' \subseteq Name'
      BY <2>1, <3>1 DEF Name, StoreType, DocsType
    <3> QED  BY <3>1, <3>2, <3>3, <3>4, RemoteAuthors
  <2>2. CASE /\ author' = author
             /\ \E n \in OwnedBy(docs, u) : docs' = Restrict(docs, DOMAIN docs \ {n})
    <3>1. PICK n \in OwnedBy(docs, u) : docs' = Restrict(docs, DOMAIN docs \ {n})
      BY <2>2
    <3>2. \A w : w # u => OwnedBy(docs', w) = OwnedBy(docs, w)
      BY <3>1 DEF OwnedBy, Restrict
    <3>3. DOMAIN docs' \subseteq DOMAIN docs
      BY <3>1 DEF Restrict
    <3>4. Name' = Name /\ Len(author) \in Nat /\ Len(author') = Len(author)
      BY <2>2, LenProperties DEF Name, ListType
    <3>5. DOMAIN docs' \subseteq Name'
      BY <3>3, <3>4 DEF StoreType, DocsType
    <3>6. \A m \in Name : author'[m] = author[m]
      BY <2>2
    <3>7. Len(author) <= Len(author')
      BY <3>4
    <3>8. \A m \in Name' : m \in Name
      BY <3>4
    <3> QED  BY <3>2, <3>4, <3>5, <3>6, <3>7, <3>8
  <2> QED  BY <2>1, <2>2 DEF Remote
<1>3. PICK t \in Raised(docs', {u}) : mainQ' = mainQ \o t
  BY DEF Remote
<1> DEFINE T == Event \cup [ev : {"snapshot"}, list : 1 .. Len(lists), docs : SUBSET Name']
<1>4. mainQ \in Seq(T) /\ t \in Seq(T)
  <2>1. t \in Seq([ev : {"snapshot"}, list : 1 .. Len(lists), docs : SUBSET Name'])
    BY <1>2, <1>3, RaisedEvents
  <2> QED  BY <2>1, SeqMonotonic DEF QueueType
<1> HIDE DEF T
<1>5. Current'
  <2>1. \A c \in listeners : LatestFor(mainQ \o t, c, OwnedBy(docs', lists[c].owner))
    BY <1>2, <1>3, <1>4, RaisedCurrent DEF Current
  <2> QED  BY <1>1, <1>3, <2>1 DEF Current
<1>6. \A ls : Fills(mainQ, ls) \/ Fills(t, ls) => Fills(mainQ', ls)
  BY <1>3, <1>4, ConcatFills
<1>7. ASSUME source \in listeners PROVE Coming' \/ Fits'
  <2>1. CASE lists[source].owner = u
    <3>1. \E i \in 1 .. Len(t) : OfList(t[i], source)
      BY <1>3, <1>7, <2>1, RaisedBrings
    <3>2. Fills(t, lists')
      BY <3>1 DEF Fills, Filling, OfList
    <3> QED  BY <1>6, <3>2 DEF Coming
  <2>2. CASE Coming
    BY <1>1, <1>6, <2>2 DEF Coming
  <2>3. CASE Fits /\ lists[source].owner # u
    <3>1. OwnedBy(docs', lists[source].owner) = OwnedBy(docs, lists[source].owner)
      BY <1>2, <2>3
    <3>2. \A n \in Name' : n \notin Name => n \notin OwnedBy(docs, lists[source].owner)
      BY <1>2 DEF OwnedBy
    <3> QED  BY <1>1, <1>2, <2>3, <3>1, <3>2 DEF Fits
  <2> QED  BY <1>7, <2>1, <2>2, <2>3 DEF Filled
<1> QED  BY <1>1, <1>5, <1>7 DEF Filled

LEMMA NextFilled ==
  ASSUME TypeOK, Current, Filled, [Next]_vars
  PROVE  Current' /\ Filled'
<1>1. CASE Crash
  BY <1>1 DEF Crash, Current, Filled
<1>2. CASE ~ Crash
  <2>1. \A c \in 1 .. Len(lists) : c \in 1 .. Len(lists') /\ lists'[c].owner = lists[c].owner
    BY <1>2, OwnersStay
  <2>2. CASE Quiets
    BY <2>1, <2>2, QuietFilled
  <2>3. CASE Upload \/ Notify \/ Snapshot
    BY <2>1, <2>3, UploadFilled, NotifyFilled, SnapshotFilled
  <2>4. ASSUME NEW u \in User, Remote(u) PROVE Current' /\ Filled'
    BY <2>4, RemoteFilled
  <2> QED  BY <1>2, <2>2, <2>3, <2>4 DEF Next, Quiets
<1> QED  BY <1>1, <1>2

\* At rest the store holds the documents of the user whose list was filled last, as
\* long as its listener lives: rows of a former session, uploads of other lists and
\* changes on other devices leave none behind, whoever signed in and out between.
THEOREM StoreHoldsOneUser == Spec => []StoreIsOneUsers
<1>1. Init => TypeOK /\ Current /\ Filled
  BY InitTypes DEF Init, Current, Filled
<1>2. TypeOK /\ Current /\ Filled /\ [Next]_vars => TypeOK' /\ Current' /\ Filled'
  BY NextTypes, NextFilled
<1>3. TypeOK /\ Filled => StoreIsOneUsers
  <2> SUFFICES ASSUME TypeOK, Filled, MainIsFree, mainQ = << >>, source \in listeners
               PROVE  Fits
    BY DEF StoreIsOneUsers, Fits
  <2>1. Len(mainQ) = 0
    BY EmptySeq
  <2>2. ~ Coming
    BY <2>1 DEF Coming, Fills, MainIsFree
  <2> QED  BY <2>2 DEF Filled
<1> QED
  BY <1>1, <1>2, <1>3, PTL DEF Spec

-----------------------------------------------------------------------------
(* What a visible list that was filled by its own snapshot knows.            *)

\* Snapshots bring documents that were entered somewhere.
LEMMA BringsNames ==
  ASSUME QueueType, NEW c, NEW S \in Brings(mainQ, c)
  PROVE  S \subseteq Name /\ c \in 1 .. Len(lists)
<1>1. PICK i \in 1 .. Len(mainQ) : OfList(mainQ[i], c) /\ mainQ[i].docs = S
  BY DEF Brings
<1>2. mainQ[i] \in Event
  BY ElementOfSeq DEF QueueType
<1> QED  BY <1>1, <1>2 DEF OfList, Event, AuthEvent

\* The list on the screen stays; what it shows and awaits is among what it showed and
\* awaited, as far as documents go.
LEMMA MineStays ==
  ASSUME ListType, Unmoved, ~ overlapped, stack' = stack, docs' = docs, source' = source,
         \A c \in 1 .. Len(lists) : lists'[c].owner = lists[c].owner,
         DOMAIN rows' \cap DOMAIN docs \subseteq DOMAIN rows,
         \A c : Brings(mainQ', c) \subseteq Brings(mainQ, c)
  PROVE  Unmoved'
<1> SUFFICES ASSUME ListIsVisible' PROVE Unmoved'
  BY DEF Unmoved
<1>1. ListIsVisible /\ Top' = Top
  BY DEF ListIsVisible, Top
<1>2. lists'[Top'].owner = lists[Top].owner
  BY <1>1, VisibleListExists
<1>3. ASSUME source' = Top' PROVE Mine(DOMAIN rows)'
  BY <1>1, <1>2, <1>3 DEF Unmoved, Mine
<1>4. ASSUME NEW S \in Brings(mainQ', Top')
      PROVE  \A n \in S \cap DOMAIN docs' : docs'[n] = lists'[Top'].owner
  <2>1. S \in Brings(mainQ, Top)
    BY <1>1, <1>4
  <2>2. Mine(S)
    BY <1>1, <2>1 DEF Unmoved
  <2> QED  BY <1>2, <2>2 DEF Mine
<1> QED  BY <1>3, <1>4 DEF Unmoved, Mine

LEMMA QuietUnmoved ==
  ASSUME Inv, Unmoved, Quiets, Orderly', ~ overlapped',
         \A c \in 1 .. Len(lists) : c \in 1 .. Len(lists') /\ lists'[c].owner = lists[c].owner
  PROVE  Unmoved'
<1> USE TypeParts DEF Inv
<1>1. /\ Calm(mainQ, mainQ') /\ docs' = docs /\ source' = source
  BY QuietCalm
<1>2. \A c : Brings(mainQ', c) \subseteq Brings(mainQ, c)
  BY <1>1 DEF Calm
<1>3. ~ overlapped
  BY DEF Quiets, TrySignIn, TryRegister, Ask, Answer, Answered, TokenRefused, SignedIn, Refused,
         Registered,
         OpenRegistration, Back, LogOut, AddTask, EditTask, SaveAndSync, SnapshotError, Reject, vars
<1>4. CASE stack' = stack /\ DOMAIN rows' \cap DOMAIN docs \subseteq DOMAIN rows
  BY <1>1, <1>2, <1>3, <1>4, MineStays
<1>5. CASE ~ ListIsVisible'
  BY <1>5 DEF Unmoved
<1>6. CASE SignedIn
  <2>1. /\ lists' = Append(lists, [owner |-> user, shown |-> DOMAIN rows])
        /\ stack' = Append(stack, Len(lists'))
    BY <1>6 DEF SignedIn
  <2>2. [owner |-> user, shown |-> DOMAIN rows] \in [owner : Owner, shown : SUBSET Name]
    BY DEF AuthType, StoreType, RowsType
  <2>3. Len(lists') = Len(lists) + 1 /\ Len(lists) \in Nat
    BY <2>1, <2>2, AppendProperties, Lengths DEF ListType
  <2>4. Top' = Len(lists')
    <3>1. stack \in Seq(Nat) /\ Len(lists') \in Nat
      BY <2>3, SeqMonotonic DEF ListType, Registration
    <3>2. Len(stack') = Len(stack) + 1 /\ stack'[Len(stack) + 1] = Len(lists')
      BY <2>1, <3>1, AppendProperties
    <3> QED  BY <3>2 DEF Top
  <2>5. Top' \notin 1 .. Len(lists) /\ source' # Top'
    BY <1>1, <2>3, <2>4 DEF ListType, NoList
  <2>6. Brings(mainQ', Top') = {}
    BY <1>2, <2>5, BringsNames
  <2> QED  BY <2>5, <2>6 DEF Unmoved
<1>7. CASE OpenRegistration
  <2>1. stack' = <<Registration>> /\ Len(stack') = 1
    BY <1>7 DEF OpenRegistration
  <2> QED  BY <1>5, <2>1 DEF ListIsVisible, Top
<1>8. CASE Back \/ LogOut
  <2>1. Orderly /\ Popped(mainQ)
    BY <1>3, <1>8 DEF Back, LogOut
  <2>2. ~ ListIsVisible'
    BY <2>1, KeptSelf, PoppedOrderly DEF QueueType
  <2> QED  BY <1>5, <2>2
<1>9. CASE Registered
  <2>1. Orderly /\ mainQ # << >> /\ Head(mainQ).ev = "registered"
        /\ UNCHANGED <<lists, rows>>
    BY <1>3, <1>9 DEF Registered
  <2>2. Kept(mainQ, Tail(mainQ)) /\ Quiet(Tail(mainQ)) /\ Tail(mainQ) \in Seq(Event)
    BY <1>3, <2>1, AuthCallback, CallbackTypes DEF AuthEvent
  <2>3. CASE Head(mainQ).here
    <3>1. Popped(Tail(mainQ))
      BY <1>9, <2>3 DEF Registered
    <3>2. ~ ListIsVisible'
      BY <2>1, <2>2, <3>1, PoppedOrderly
    <3> QED  BY <1>5, <3>2
  <2>4. CASE ~ Head(mainQ).here
    BY <1>4, <1>9, <2>1, <2>4 DEF Registered
  <2> QED  BY <2>3, <2>4
<1>10. CASE AddTask
  <2>1. /\ lists[Top].owner \in Owner
        /\ author' = Append(author, lists[Top].owner) /\ stack' = stack
        /\ DOMAIN rows' = DOMAIN rows \cup {Len(author')}
    BY <1>10, VisibleListExists DEF AddTask, SaveAndSync
  <2>2. Len(author') = Len(author) + 1 /\ Len(author) \in Nat
    BY <2>1, AppendProperties, Lengths DEF ListType
  <2>3. Len(author') \notin DOMAIN docs
    BY <2>2 DEF StoreType, DocsType, Name
  <2> QED  BY <1>4, <2>1, <2>3
<1>11. CASE EditTask
  <2>1. stack' = stack /\ DOMAIN rows' = DOMAIN rows
    BY <1>11 DEF EditTask, SaveAndSync
  <2> QED  BY <1>4, <2>1
<1>12. CASE \/ TrySignIn \/ TryRegister \/ (\E i \in 1 .. Len(requests) : Answer(i))
            \/ TokenRefused \/ Refused \/ SnapshotError \/ (\E c \in listeners : Reject(c)) \/ UNCHANGED vars
  <2>1. UNCHANGED <<stack, rows>>
    BY <1>12 DEF TrySignIn, TryRegister, Ask, Answer, Answered, TokenRefused, Refused,
                 SnapshotError, Reject, vars, screens, store
  <2> QED  BY <1>4, <2>1
<1> QED  BY <1>6, <1>7, <1>8, <1>9, <1>10, <1>11, <1>12 DEF Quiets

\* An upload hands documents to the list in whose wait it is, the one on the screen.
LEMMA UploadUnmoved ==
  ASSUME Inv, Unmoved, Upload, ~ overlapped'
  PROVE  Unmoved'
<1> USE TypeParts DEF Inv
<1> DEFINE owner == lists[syncing].owner
           sent == {n \in DOMAIN rows : rows[n] = "updated" \/ (rows[n] = "created" /\ owner # Nobody)}
           affected == IF sent = {} THEN {}
                       ELSE {owner} \cup {docs[n] : n \in sent \cap DOMAIN docs}
           e == [ev |-> "notify", list |-> syncing]
<1>1. /\ docs' = [n \in DOMAIN docs \cup sent |-> IF n \in sent THEN owner ELSE docs[n]]
      /\ DOMAIN rows' = DOMAIN rows /\ sent \subseteq DOMAIN rows
      /\ UNCHANGED <<lists, stack, source>> /\ ~ overlapped /\ syncing # NoList
  BY DEF Upload, screens, MainIsFree
<1>2. PICK t \in Raised(docs', affected) :
        mainQ' \in {mainQ \o t \o <<e>>, mainQ \o <<e>> \o t}
  BY DEF Upload
<1> HIDE DEF sent, affected
<1>3. ListIsVisible /\ Top = syncing /\ Top' = Top /\ lists'[Top'].owner = owner
  BY <1>1 DEF Entered, Top
<1>4. syncing \in 1 .. Len(lists) /\ e \in Event /\ e.ev = "notify"
  BY <1>1 DEF ListType, Event
<1>5. t \in Seq(Event)
  <2>1. DOMAIN docs' \subseteq Name
    BY <1>1 DEF StoreType, RowsType, DocsType
  <2>2. t \in Seq([ev : {"snapshot"}, list : 1 .. Len(lists), docs : SUBSET Name])
    BY <1>2, <2>1, RaisedEvents
  <2> QED  BY <2>2, SeqMonotonic DEF Event
<1> HIDE DEF e
<1>6. ASSUME NEW S, \A n \in S \cap DOMAIN docs : docs[n] = owner
      PROVE  \A n \in S \cap DOMAIN docs' : docs'[n] = owner
  BY <1>1, <1>6
<1>7. ASSUME NEW S \in Brings(mainQ', Top) PROVE \A n \in S \cap DOMAIN docs' : docs'[n] = owner
  <2>1. /\ <<e>> \in Seq(Event) /\ mainQ \in Seq(Event) /\ mainQ \o t \in Seq(Event)
        /\ mainQ \o <<e>> \in Seq(Event) /\ Len(<<e>>) = 1 /\ <<e>>[1] = e
    BY <1>4, <1>5, ConcatProperties DEF QueueType
  <2>2. Brings(<<e>>, Top) = {}
    BY <1>4, <2>1 DEF Brings, OfList
  <2>3. /\ Brings(mainQ \o t \o <<e>>, Top) \subseteq Brings(mainQ \o t, Top) \cup Brings(<<e>>, Top)
        /\ Brings(mainQ \o <<e>> \o t, Top) \subseteq Brings(mainQ \o <<e>>, Top) \cup Brings(t, Top)
        /\ Brings(mainQ \o t, Top) \subseteq Brings(mainQ, Top) \cup Brings(t, Top)
        /\ Brings(mainQ \o <<e>>, Top) \subseteq Brings(mainQ, Top) \cup Brings(<<e>>, Top)
    BY <1>5, <2>1, ConcatFills
  <2>4. S \in Brings(mainQ, Top) \cup Brings(t, Top)
    BY <1>2, <1>7, <2>2, <2>3
  <2>5. CASE S \in Brings(mainQ, Top)
    <3>1. Mine(S)
      BY <1>1, <1>3, <2>5 DEF Unmoved
    <3> QED  BY <1>3, <1>6, <3>1 DEF Mine
  <2>6. CASE S \in Brings(t, Top)
    <3>1. S = OwnedBy(docs', lists[Top].owner)
      BY <1>2, <2>6, RaisedBrings DEF Brings
    <3> QED  BY <1>3, <3>1 DEF OwnedBy
  <2> QED  BY <2>4, <2>5, <2>6
<1>8. ASSUME source' = Top' PROVE \A n \in DOMAIN rows' \cap DOMAIN docs' : docs'[n] = owner
  <2>1. Mine(DOMAIN rows)
    BY <1>1, <1>3, <1>8 DEF Unmoved
  <2>2. \A n \in DOMAIN rows \cap DOMAIN docs : docs[n] = owner
    BY <1>3, <2>1 DEF Mine
  <2> QED  BY <1>1, <1>6, <2>2
<1> QED  BY <1>3, <1>7, <1>8 DEF Unmoved, Mine

\* What a listener is told first is the documents of its user.
LEMMA NotifyUnmoved ==
  ASSUME Inv, Unmoved, Notify, ~ overlapped'
  PROVE  Unmoved'
<1> USE TypeParts DEF Inv
<1> DEFINE c == Head(mainQ).list
           D == OwnedBy(docs, lists[c].owner)
           e == [ev |-> "snapshot", list |-> c, docs |-> D]
           q == Tail(mainQ)
<1>1. /\ mainQ # << >> /\ Head(mainQ).ev = "notify"
      /\ UNCHANGED <<lists, stack, rows, docs, source>> /\ ~ overlapped
      /\ mainQ' = q \/ mainQ' = Append(q, e)
  BY DEF Notify, screens
<1>2. c \in 1 .. Len(lists) /\ q \in Seq(Event)
  BY <1>1, CallbackTypes DEF Event, AuthEvent
<1>3. \A d : Brings(q, d) \subseteq Brings(mainQ, d)
  BY <1>1, TailFills DEF QueueType
<1>4. e \in Event /\ e.ev = "snapshot" /\ e.list = c /\ e.docs = D
  <2>1. D \subseteq Name
    BY DEF OwnedBy, StoreType, DocsType
  <2> QED  BY <1>2, <2>1 DEF Event
<1> HIDE DEF e, q
<1>5. ASSUME NEW d, NEW S \in Brings(mainQ', d)
      PROVE  S \in Brings(mainQ, d) \/ S = OwnedBy(docs, lists[d].owner)
  <2>1. CASE mainQ' = q
    BY <1>3, <1>5, <2>1
  <2>2. CASE mainQ' = Append(q, e)
    <3>1. Append(q, e) = q \o <<e>> /\ <<e>> \in Seq(Event) /\ Len(<<e>>) = 1 /\ <<e>>[1] = e
      BY <1>2, <1>4, AppendIsConcat
    <3>2. Brings(q \o <<e>>, d) \subseteq Brings(q, d) \cup Brings(<<e>>, d)
      BY <1>2, <3>1, ConcatFills
    <3>3. \A R \in Brings(<<e>>, d) : R = OwnedBy(docs, lists[d].owner)
      BY <1>4, <3>1 DEF Brings, OfList
    <3> QED  BY <1>3, <1>5, <2>2, <3>1, <3>2, <3>3
  <2> QED  BY <1>1, <2>1, <2>2
<1>6. ListIsVisible' => ListIsVisible /\ Top' = Top
  BY <1>1 DEF ListIsVisible, Top
<1>7. ASSUME ListIsVisible', NEW S \in Brings(mainQ', Top')
      PROVE  \A n \in S \cap DOMAIN docs : docs[n] = lists[Top].owner
  <2>1. S \in Brings(mainQ, Top) \/ S = OwnedBy(docs, lists[Top].owner)
    BY <1>5, <1>6, <1>7
  <2>2. \A R \in Brings(mainQ, Top) : Mine(R)
    BY <1>1, <1>6, <1>7 DEF Unmoved
  <2> QED  BY <2>1, <2>2 DEF Mine, OwnedBy
<1> QED  BY <1>1, <1>6, <1>7 DEF Unmoved, Mine

\* The snapshot of the list on the screen makes it the source.
LEMMA SnapshotUnmoved ==
  ASSUME Inv, Unmoved, Snapshot, ~ overlapped',
         \A c \in 1 .. Len(lists) : c \in 1 .. Len(lists') /\ lists'[c].owner = lists[c].owner
  PROVE  Unmoved'
<1> USE TypeParts DEF Inv
<1> DEFINE c == Head(mainQ).list
<1>1. /\ mainQ # << >> /\ OfList(Head(mainQ), c) /\ mainQ' = Tail(mainQ)
      /\ DOMAIN rows' = Head(mainQ).docs /\ source' = c
      /\ UNCHANGED <<docs, stack>> /\ ~ overlapped
  BY DEF Snapshot, Callback, OfList, cloud
<1> HIDE DEF c
<1>2. /\ \A d : Brings(Tail(mainQ), d) \subseteq Brings(mainQ, d)
      /\ \A d : OfList(Head(mainQ), d) => Head(mainQ).docs \in Brings(mainQ, d)
  BY <1>1, TailFills DEF QueueType
<1> SUFFICES ASSUME ListIsVisible' PROVE Unmoved'
  BY DEF Unmoved
<1>3. ListIsVisible /\ Top' = Top
  BY <1>1 DEF ListIsVisible, Top
<1>4. lists'[Top'].owner = lists[Top].owner
  BY <1>3, VisibleListExists
<1>5. ASSUME NEW S \in Brings(mainQ, Top)
      PROVE  \A n \in S \cap DOMAIN docs' : docs'[n] = lists'[Top'].owner
  BY <1>1, <1>3, <1>4, <1>5 DEF Unmoved, Mine
<1>6. source' = Top' => DOMAIN rows' \in Brings(mainQ, Top)
  BY <1>1, <1>2, <1>3
<1>7. \A S \in Brings(mainQ', Top') : S \in Brings(mainQ, Top)
  BY <1>1, <1>2, <1>3
<1> QED  BY <1>5, <1>6, <1>7 DEF Unmoved, Mine

\* Another device's new document is in no row and in no earlier snapshot.
LEMMA RemoteUnmoved ==
  ASSUME Inv, Unmoved, NEW u \in User, Remote(u), ~ overlapped'
  PROVE  Unmoved'
<1> USE TypeParts DEF Inv
<1>1. UNCHANGED <<lists, stack, rows, source>> /\ ~ overlapped
  BY DEF Remote, screens, store
<1>2. /\ \A n \in Name \cap DOMAIN docs' : n \in DOMAIN docs /\ docs'[n] = docs[n]
      /\ \E N : DOMAIN docs' \subseteq N /\ Name \subseteq N
  <2>1. CASE /\ author' = Append(author, u)
             /\ docs' = [n \in DOMAIN docs \cup {Len(author')} |->
                           IF n \in DOMAIN docs THEN docs[n] ELSE u]
    <3>1. Len(author') = Len(author) + 1 /\ Len(author) \in Nat
      BY <2>1, AppendProperties, Lengths DEF ListType, Owner
    <3>2. Len(author') \notin Name
      BY <3>1 DEF Name
    <3>3. DOMAIN docs' \subseteq Name \cup DOMAIN docs'
      OBVIOUS
    <3> QED  BY <2>1, <3>2, <3>3
  <2>2. CASE \E n \in OwnedBy(docs, u) : docs' = Restrict(docs, DOMAIN docs \ {n})
    BY <2>2 DEF Restrict, StoreType, DocsType
  <2> QED  BY <2>1, <2>2 DEF Remote
<1>3. PICK t \in Raised(docs', {u}) : mainQ' = mainQ \o t
  BY DEF Remote
<1>4. PICK N : DOMAIN docs' \subseteq N /\ Name \subseteq N
  BY <1>2
<1> DEFINE T == Event \cup [ev : {"snapshot"}, list : 1 .. Len(lists), docs : SUBSET N]
<1>5. mainQ \in Seq(T) /\ t \in Seq(T)
  <2>1. t \in Seq([ev : {"snapshot"}, list : 1 .. Len(lists), docs : SUBSET N])
    BY <1>3, <1>4, RaisedEvents
  <2> QED  BY <2>1, SeqMonotonic DEF QueueType
<1> HIDE DEF T
<1>6. \A d : Brings(mainQ', d) \subseteq Brings(mainQ, d) \cup Brings(t, d)
  BY <1>3, <1>5, ConcatFills
<1>7. ListIsVisible' => ListIsVisible /\ Top' = Top
  BY <1>1 DEF ListIsVisible, Top
<1>8. ASSUME ListIsVisible', source' = Top' PROVE Mine(DOMAIN rows)'
  <2>1. DOMAIN rows \subseteq Name
    BY DEF StoreType, RowsType
  <2>2. Mine(DOMAIN rows)
    BY <1>1, <1>7, <1>8 DEF Unmoved
  <2> QED  BY <1>1, <1>2, <1>7, <1>8, <2>1, <2>2 DEF Mine
<1>9. ASSUME ListIsVisible', NEW S \in Brings(mainQ', Top')
      PROVE  \A n \in S \cap DOMAIN docs' : docs'[n] = lists[Top].owner
  <2>1. CASE S \in Brings(mainQ, Top)
    <3>1. S \subseteq Name
      BY <2>1, BringsNames
    <3>2. Mine(S)
      BY <1>1, <1>7, <1>9, <2>1 DEF Unmoved
    <3> QED  BY <1>2, <3>1, <3>2 DEF Mine
  <2>2. CASE S \in Brings(t, Top)
    <3>1. S = OwnedBy(docs', lists[Top].owner)
      BY <1>3, <2>2, RaisedBrings DEF Brings
    <3> QED  BY <3>1 DEF OwnedBy
  <2> QED  BY <1>6, <1>7, <1>9, <2>1, <2>2
<1> QED  BY <1>1, <1>7, <1>8, <1>9 DEF Unmoved, Mine

\* After a relaunch no snapshot is on its way and none has filled the store.
LEMMA CrashUnmoved ==
  ASSUME Crash
  PROVE  Unmoved'
<1>1. mainQ' = << >> /\ source' = NoList /\ Len(mainQ') = 0
  BY EmptySeq DEF Crash
<1>2. Brings(mainQ', Top') = {}
  BY <1>1 DEF Brings
<1>3. ListIsVisible' => Top' # NoList
  BY DEF ListIsVisible, Registration, NoList
<1> QED  BY <1>1, <1>2, <1>3 DEF Unmoved

LEMMA NextUnmoved ==
  ASSUME Inv, Unmoved, [Next]_vars
  PROVE  Unmoved'
<1> SUFFICES ASSUME ~ overlapped' PROVE Unmoved'
  BY DEF Unmoved
<1>1. Orderly'
  BY NextInv DEF Inv
<1>2. CASE Crash
  BY <1>2, CrashUnmoved
<1>3. CASE ~ Crash
  <2>1. \A c \in 1 .. Len(lists) : c \in 1 .. Len(lists') /\ lists'[c].owner = lists[c].owner
    BY <1>3, OwnersStay DEF Inv
  <2>2. CASE Quiets
    BY <1>1, <2>1, <2>2, QuietUnmoved
  <2>3. CASE Upload \/ Notify \/ Snapshot
    BY <2>1, <2>3, UploadUnmoved, NotifyUnmoved, SnapshotUnmoved
  <2>4. ASSUME NEW u \in User, Remote(u) PROVE Unmoved'
    BY <2>4, RemoteUnmoved
  <2> QED  BY <1>3, <2>2, <2>3, <2>4 DEF Next, Quiets
<1> QED  BY <1>2, <1>3

LEMMA MoveStep ==
  ASSUME Inv, Unmoved, [Next]_vars,
         NEW n \in DOMAIN docs \cap DOMAIN docs', docs'[n] # docs[n]
  PROVE  overlapped \/ source # syncing
<1> USE TypeParts DEF Inv
<1> SUFFICES ASSUME ~ overlapped, source = syncing PROVE FALSE
  OBVIOUS
<1>1. CASE Upload
  <2>1. /\ n \in DOMAIN rows /\ docs'[n] = lists[syncing].owner /\ syncing # NoList
    BY <1>1 DEF Upload, MainIsFree
  <2>2. ListIsVisible /\ Top = syncing
    BY <2>1 DEF Entered
  <2>3. Mine(DOMAIN rows)
    BY <2>2 DEF Unmoved
  <2> QED  BY <2>1, <2>2, <2>3 DEF Mine
<1>2. ASSUME NEW u \in User, Remote(u) PROVE FALSE
  <2>1. CASE docs' = [m \in DOMAIN docs \cup {Len(author')} |->
                        IF m \in DOMAIN docs THEN docs[m] ELSE u]
    BY <2>1
  <2>2. CASE \E m \in OwnedBy(docs, u) : docs' = Restrict(docs, DOMAIN docs \ {m})
    BY <2>2 DEF Restrict
  <2> QED  BY <1>2, <2>1, <2>2 DEF Remote
<1>3. Upload \/ (\E u \in User : Remote(u)) \/ docs' = docs
  BY DEF Next, vars, cloud, TrySignIn, TryRegister, Ask, Answer, Answered, TokenRefused,
         SignedIn, Refused,
         Registered, OpenRegistration, Back, LogOut, AddTask, EditTask, SaveAndSync, Notify,
         Snapshot, SnapshotError, Reject, Crash
<1> QED  BY <1>1, <1>2, <1>3

\* No document changes hands through a list that shows what its own snapshot brought:
\* whatever the list uploads then, its user had it already.
THEOREM OnlyForeignRowsMove == Spec => OnlyUnfilledListsMoveDocuments
<1>1. Init => Inv /\ Unmoved
  BY InitInv DEF Init, Unmoved, ListIsVisible
<1>2. Inv /\ Unmoved /\ [Next]_vars => Inv' /\ Unmoved'
  BY NextInv, NextUnmoved
<1>3. Inv /\ Unmoved /\ [Next]_vars =>
        [\A n \in DOMAIN docs \cap DOMAIN docs' :
           docs'[n] # docs[n] => overlapped \/ source # syncing]_vars
  BY MoveStep
<1> QED
  BY <1>1, <1>2, <1>3, PTL DEF Spec, OnlyUnfilledListsMoveDocuments
=============================================================================
