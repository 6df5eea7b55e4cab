----------------------------- MODULE CommitsStore -----------------------------
(***************************************************************************)
(* The commit list of CommitsApp (CommitsApp/CommitsApp/ViewController.    *)
(* swift) and its Core Data store.                                         *)
(*                                                                         *)
(* At launch the stored commits are listed while a background thread asks  *)
(* GitHub for the latest ones; the answer is merged into the view context  *)
(* by one block on the main thread, where the user may have chosen a       *)
(* filter meanwhile.  Rows carry their sha, their author and a date.  An   *)
(* author is its place in the order of insertion, and authors maps it to   *)
(* a name.  The dates of GitHub are looked up under a misspelt key, so a   *)
(* row is dated by the launch that inserted it.  The order of the list,    *)
(* by date, is left out, and so is the detail screen, which only shows a   *)
(* message.                                                                *)
(***************************************************************************)
EXTENDS Naturals, Sequences

CONSTANTS Commit,       \* shas
          Committer,    \* the name GitHub gives for the committer of a commit
          Nameless,     \* the empty name
          Joe,          \* the name the fifth filter asks for
          Fixes, Pulls, \* commits whose messages the first two filters look for
          MaxLaunch     \* bound: launches of the application

ASSUME CommitsAssumption ==
  /\ Fixes \subseteq Commit /\ Pulls \subseteq Commit
  /\ DOMAIN Committer = Commit
  /\ MaxLaunch \in Nat \ {0}

VARIABLES disk,         \* the store: [rows, authors]
          mem,          \* the view context: [rows, authors]
          list,         \* commits, the rows in the table
          filter,       \* commitPredicate
          answer,       \* the commits in the block posted to the main thread
          phase,        \* where this launch's fetch is
          launch        \* number of this launch

vars == <<disk, mem, list, filter, answer, phase, launch>>

-----------------------------------------------------------------------------
Row == [sha : Commit, author : Nat, date : 1 .. MaxLaunch]
Phase == {"fetching", "posted", "saved", "unsaved", "failed"}
Filter == [kind : {"all", "fixes", "no pulls", "Durian"}, since : {0}]
            \cup [kind : {"recent"}, since : 1 .. MaxLaunch + 1]
All == [kind |-> "all", since |-> 0]

\* What GitHub may answer: some commits, each once.
Answers == {s \in UNION {[1 .. n -> Commit] : n \in 0 .. 2} :
              \A i, j \in DOMAIN s : s[i] = s[j] => i = j}

Fits(r, authors, f) ==
  CASE f.kind = "all" -> TRUE
    [] f.kind = "fixes" -> r.sha \in Fixes
    [] f.kind = "no pulls" -> r.sha \notin Pulls
    [] f.kind = "recent" -> r.date >= f.since
    [] f.kind = "Durian" -> authors[r.author] = Joe

\* loadSavedData: what the fetch returns under a predicate.
Loaded(m, f) == {r \in m.rows : Fits(r, m.authors, f)}

\* Faulty variant: the look-up has no predicate.
FoundAny(authors) == DOMAIN authors

\* The authors that the look-up finds: its key is misspelt, so it asks for the empty
\* name.
Found(authors) == {i \in DOMAIN authors : authors[i] = Nameless}

\* The authors after the first k answered commits got one of their own.
WithAuthors(authors, s, k) == authors \o [i \in 1 .. k |-> Committer[s[i]]]

\* How many of the answered commits get an author of their own: all, up to the
\* first one that leaves an author for the look-up to find.
Fresh(authors, s) ==
  CHOOSE n \in 0 .. Len(s) :
    /\ n < Len(s) => Found(WithAuthors(authors, s, n)) # {}
    /\ \A k \in 0 .. n - 1 : Found(WithAuthors(authors, s, k)) = {}

\* configure, once per answered commit: the context with the rows inserted.
Configured(m, s) ==
  LET n == Fresh(m.authors, s)
      authors == WithAuthors(m.authors, s, n)
      Author(i) == IF i <= n THEN Len(m.authors) + i
                   ELSE CHOOSE a \in Found(authors) : TRUE
  IN  [rows |-> m.rows \cup {[sha |-> s[i], author |-> Author(i), date |-> launch] :
                               i \in DOMAIN s},
       authors |-> authors]

\* Faulty variant: no merge policy is set, duplicates pass.
SavedTwice(m) == m

\* Faulty variant: the merge policy prefers the inserted row to the stored one.
ObjectTrump(m) ==
  [m EXCEPT !.rows = {r \in @ : \A q \in @ : q.sha = r.sha => q.date <= r.date}]

\* A successful save: sha is unique, and of two rows the stored one stays.
Saved(m) ==
  [m EXCEPT !.rows = disk.rows \cup
     {r \in @ : \A q \in disk.rows : q.sha # r.sha}]

Empty == [rows |-> {}, authors |-> <<>>]

Init ==
  /\ disk = Empty /\ mem = Empty /\ list = {}
  /\ filter = All /\ answer = <<>> /\ phase = "fetching" /\ launch = 1

-----------------------------------------------------------------------------
\* fetchCommits on its background thread: the answer, or nothing.
FetchCommits ==
  /\ phase = "fetching"
  /\ \/ /\ answer' \in Answers
        /\ phase' = "posted"
     \/ phase' = "failed" /\ UNCHANGED answer
  /\ UNCHANGED <<disk, mem, list, filter, launch>>

\* Faulty variant: the list is not fetched again.
MergeOnly ==
  /\ phase = "posted"
  /\ LET m == Configured(mem, answer)
     IN  disk' = Saved(m) /\ mem' = Saved(m) /\ phase' = "saved"
  /\ answer' = <<>>
  /\ UNCHANGED <<list, filter, launch>>

\* The block on the main thread: insert, save, fetch the list again.  A save that
\* fails leaves the inserted rows in the context.
MergeFetched ==
  /\ phase = "posted"
  /\ LET m == Configured(mem, answer)
     IN  \/ disk' = Saved(m) /\ mem' = Saved(m) /\ phase' = "saved"
         \/ disk' = disk /\ mem' = m /\ phase' = "unsaved"
  /\ answer' = <<>>
  /\ list' = Loaded(mem', filter)
  /\ UNCHANGED <<filter, launch>>

\* The filter "recent" is of twelve hours before its choice: a row inserted later
\* always fits.
ChangeFilter(f) ==
  /\ f.since <= IF phase \in {"saved", "unsaved"} THEN launch + 1 ELSE launch
  /\ filter' = f
  /\ list' = Loaded(mem, f)
  /\ UNCHANGED <<disk, mem, answer, phase, launch>>

\* The process ends, at any moment, and viewDidLoad runs again.
Relaunch ==
  /\ launch < MaxLaunch
  /\ launch' = launch + 1
  /\ mem' = disk /\ filter' = All /\ list' = Loaded(disk, All)
  /\ answer' = <<>> /\ phase' = "fetching"
  /\ UNCHANGED disk

Next ==
  \/ FetchCommits
  \/ MergeFetched
  \/ \E f \in Filter : ChangeFilter(f)
  \/ Relaunch

Spec == Init /\ [][Next]_vars

-----------------------------------------------------------------------------
Store == [rows : SUBSET Row, authors : Seq({Committer[c] : c \in Commit})]

\* Type invariant; every row's author, which cellForRowAt unwraps, exists in the
\* context.
TypeOK ==
  /\ disk \in Store /\ mem \in Store
  /\ \A m \in {disk, mem} : \A r \in m.rows : r.author \in DOMAIN m.authors
  /\ list \in SUBSET mem.rows
  /\ filter \in Filter
  /\ answer \in Answers
  /\ phase \in Phase
  /\ launch \in 1 .. MaxLaunch

\* The table shows the rows of the context that fit the filter, whatever filter was
\* chosen before, during or after the fetch.
ListFitsFilter == list = Loaded(mem, filter)

\* A commit is stored once however often it is fetched, and listed once unless this
\* launch's save failed.
OncePerCommit ==
  \A m \in {disk} \cup IF phase = "unsaved" THEN {} ELSE {mem} :
    \A r, q \in m.rows : r.sha = q.sha => r = q

\* As long as no author with an empty name was inserted, every row belongs to an
\* author with its committer's name: the look-up under a misspelt key finds nobody.
\* One nameless committer makes every later commit of the store theirs.
AuthorIsCommitter ==
  (\A i \in DOMAIN mem.authors : mem.authors[i] # Nameless) =>
    \A r \in mem.rows : mem.authors[r.author] = Committer[r.sha]

\* A stored row never changes and is never dropped: a commit keeps the author and
\* the date of its first fetch.
FirstFetchStays ==
  [][/\ disk.rows \subseteq disk'.rows
     /\ \A i \in DOMAIN disk.authors : i \in DOMAIN disk'.authors
          /\ disk'.authors[i] = disk.authors[i]]_vars
=============================================================================
