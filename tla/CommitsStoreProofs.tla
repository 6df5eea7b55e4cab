--------------------------- MODULE CommitsStoreProofs ---------------------------
(***************************************************************************)
(* Proofs about CommitsStore for any commits, committers and number of     *)
(* launches.                                                               *)
(***************************************************************************)
EXTENDS CommitsStore, SequenceTheorems, WellFoundedInduction, TLAPS

Name == {Committer[c] : c \in Commit}

LEMMA AnswerType ==
  ASSUME NEW s \in Answers
  PROVE  /\ s \in Seq(Commit) /\ DOMAIN s = 1 .. Len(s) /\ Len(s) \in Nat
         /\ \A i, j \in DOMAIN s : s[i] = s[j] => i = j
<1>1. PICK n \in 0 .. 2 : s \in [1 .. n -> Commit]
  BY DEF Answers
<1>2. s \in Seq(Commit)
  BY <1>1, n \in Nat
<1> QED  BY <1>2 DEF Answers

LEMMA WithAuthorsType ==
  ASSUME NEW authors \in Seq(Name), NEW s \in Seq(Commit), NEW k \in 0 .. Len(s)
  PROVE  /\ WithAuthors(authors, s, k) \in Seq(Name)
         /\ Len(WithAuthors(authors, s, k)) = Len(authors) + k
         /\ \A i \in 1 .. Len(authors) : WithAuthors(authors, s, k)[i] = authors[i]
         /\ \A i \in 1 .. k :
              WithAuthors(authors, s, k)[Len(authors) + i] = Committer[s[i]]
<1> DEFINE new == [i \in 1 .. k |-> Committer[s[i]]]
<1>1. k \in Nat /\ Len(s) \in Nat
  OBVIOUS
<1>2. \A i \in 1 .. k : s[i] \in Commit
  BY <1>1
<1>3. new \in Seq(Name) /\ Len(new) = k /\ \A i \in 1 .. k : new[i] = Committer[s[i]]
  BY <1>1, <1>2 DEF Name
<1> HIDE DEF new
<1>4. WithAuthors(authors, s, k) = authors \o new
  BY DEF WithAuthors, new
<1>5. /\ authors \o new \in Seq(Name) /\ Len(authors \o new) = Len(authors) + k
      /\ \A i \in 1 .. Len(authors) + k : (authors \o new)[i] =
           IF i <= Len(authors) THEN authors[i] ELSE new[i - Len(authors)]
  BY <1>3, ConcatProperties
<1>6. Len(authors) \in Nat
  OBVIOUS
<1>7. \A i \in 1 .. k : /\ Len(authors) + i \in 1 .. Len(authors) + k
                        /\ ~ (Len(authors) + i <= Len(authors))
                        /\ (Len(authors) + i) - Len(authors) = i
  BY <1>1, <1>6
<1>8. \A i \in 1 .. Len(authors) : i \in 1 .. Len(authors) + k /\ i <= Len(authors)
  BY <1>1, <1>6
<1>9. \A i \in 1 .. k : (authors \o new)[Len(authors) + i] = new[i]
  BY <1>5, <1>7
<1>10. \A i \in 1 .. Len(authors) : (authors \o new)[i] = authors[i]
  BY <1>5, <1>8
<1> QED  BY <1>3, <1>4, <1>5, <1>9, <1>10

\* The CHOOSE of Fresh has a witness: the least number that satisfies its first
\* condition.
LEMMA FreshIsLeast ==
  ASSUME NEW authors \in Seq(Name), NEW s \in Seq(Commit)
  PROVE  /\ Fresh(authors, s) \in 0 .. Len(s)
         /\ Fresh(authors, s) < Len(s)
              => Found(WithAuthors(authors, s, Fresh(authors, s))) # {}
<1> DEFINE Good(n) == n < Len(s) => Found(WithAuthors(authors, s, n)) # {}
           T == {n \in 0 .. Len(s) : Good(n)}
<1>1. Len(s) \in Nat
  OBVIOUS
<1>2. T \subseteq Nat /\ Len(s) \in T
  BY <1>1
<1>3. \E x \in T : \A y \in T : ~ (<<y, x>> \in OpToRel(<, Nat))
  BY <1>2, NatLessThanWellFounded, WFMin
<1>4. PICK x \in T : \A y \in T : ~ (y < x)
  BY <1>2, <1>3 DEF OpToRel
<1>5. \A k \in 0 .. x - 1 : k \in 0 .. Len(s) /\ k < x /\ k < Len(s)
  BY <1>1, <1>2, <1>4
<1>6. \A k \in 0 .. x - 1 : Found(WithAuthors(authors, s, k)) = {}
  BY <1>4, <1>5
<1>7. x \in 0 .. Len(s) /\ Good(x)
  BY <1>4
<1> QED  BY <1>6, <1>7 DEF Fresh

-----------------------------------------------------------------------------
\* What the proofs keep of the store and of the view context.
Context(m) == m \in Store /\ \A r \in m.rows : r.author \in DOMAIN m.authors
Once(m) == \A r, q \in m.rows : r.sha = q.sha => r = q
Named(m) ==
  (\A i \in DOMAIN m.authors : m.authors[i] # Nameless) =>
    \A r \in m.rows : m.authors[r.author] = Committer[r.sha]
Extends(c, m) ==
  /\ m.rows \subseteq c.rows
  /\ \A i \in DOMAIN m.authors : i \in DOMAIN c.authors /\ c.authors[i] = m.authors[i]

\* The block inserts one row for each answered commit, of an author that exists,
\* and its own committer's unless somebody is nameless.
LEMMA ConfiguredKeeps ==
  ASSUME NEW m, Context(m), Named(m), NEW s \in Answers, launch \in 1 .. MaxLaunch
  PROVE  /\ Context(Configured(m, s)) /\ Named(Configured(m, s))
         /\ Extends(Configured(m, s), m)
         /\ \A r, q \in Configured(m, s).rows \ m.rows : r.sha = q.sha => r = q
<1> DEFINE n == Fresh(m.authors, s)
           authors == WithAuthors(m.authors, s, n)
           Author(i) == IF i <= n THEN Len(m.authors) + i
                        ELSE CHOOSE a \in Found(authors) : TRUE
           New(i) == [sha |-> s[i], author |-> Author(i), date |-> launch]
           c == Configured(m, s)
<1>1. m.authors \in Seq(Name) /\ m.rows \subseteq Row
  BY DEF Context, Store, Name
<1>2. s \in Seq(Commit) /\ DOMAIN s = 1 .. Len(s) /\ Len(s) \in Nat
  BY AnswerType
<1>3. n \in 0 .. Len(s) /\ (n < Len(s) => Found(authors) # {})
  BY <1>1, <1>2, FreshIsLeast
<1>4. /\ authors \in Seq(Name) /\ Len(authors) = Len(m.authors) + n
      /\ \A i \in 1 .. Len(m.authors) : authors[i] = m.authors[i]
      /\ \A i \in 1 .. n : authors[Len(m.authors) + i] = Committer[s[i]]
  BY <1>1, <1>2, <1>3, WithAuthorsType
<1>5. c = [rows |-> m.rows \cup {New(i) : i \in DOMAIN s}, authors |-> authors]
  BY DEF Configured
<1> HIDE DEF n, authors, c
<1>6. DOMAIN authors = 1 .. Len(m.authors) + n /\ DOMAIN m.authors = 1 .. Len(m.authors)
      /\ Len(m.authors) \in Nat /\ n \in Nat
  BY <1>1, <1>2, <1>3, <1>4
<1>7. ASSUME NEW i \in DOMAIN s
      PROVE  Author(i) \in DOMAIN authors /\ Author(i) \in Nat
  <2>1. i \in 1 .. Len(s)
    BY <1>2
  <2>2. CASE i <= n
    BY <2>1, <2>2, <1>6
  <2>3. CASE ~ (i <= n)
    <3>1. n < Len(s)
      BY <2>1, <2>3, <1>2, <1>3
    <3>2. Author(i) \in Found(authors)
      BY <3>1, <2>3, <1>3
    <3> QED  BY <3>2, <1>6 DEF Found
  <2> QED  BY <2>2, <2>3
<1> HIDE DEF Author
<1>8. ASSUME NEW i \in DOMAIN s
      PROVE  New(i) \in Row /\ New(i).sha = s[i] /\ New(i).author = Author(i)
  <2>1. s[i] \in Commit
    BY <1>2
  <2> QED  BY <2>1, <1>7 DEF Row
<1> HIDE DEF New
<1>9. Context(c)
  <2>1. c.rows \subseteq Row /\ c.authors \in Seq(Name)
    BY <1>1, <1>4, <1>5, <1>8
  <2>2. c \in Store
    BY <2>1, <1>5 DEF Store, Name
  <2>3. \A r \in m.rows : r.author \in DOMAIN authors
    BY <1>6 DEF Context
  <2> QED  BY <2>2, <2>3, <1>5, <1>7, <1>8 DEF Context
<1>10. Extends(c, m)
  BY <1>4, <1>5, <1>6 DEF Extends
<1>11. \A r, q \in c.rows \ m.rows : r.sha = q.sha => r = q
  BY <1>5, <1>8, AnswerType
<1>12. Named(c)
  <2> SUFFICES ASSUME \A i \in DOMAIN authors : authors[i] # Nameless,
                      NEW r \in c.rows
               PROVE  authors[r.author] = Committer[r.sha]
    BY <1>5 DEF Named
  <2>1. CASE r \in m.rows
    <3>1. \A i \in DOMAIN m.authors : m.authors[i] # Nameless
      BY <1>4, <1>6
    <3>2. r.author \in DOMAIN m.authors /\ m.authors[r.author] = Committer[r.sha]
      BY <3>1, <2>1 DEF Context, Named
    <3> QED  BY <3>2, <1>4, <1>6
  <2>2. CASE \E i \in DOMAIN s : r = New(i)
    <3>1. PICK i \in DOMAIN s : r = New(i)
      BY <2>2
    <3>2. i \in 1 .. n
      BY <1>2, <1>3, <1>6 DEF Found
    <3>3. Author(i) = Len(m.authors) + i
      BY <3>2, <1>6 DEF Author
    <3> QED  BY <3>1, <3>2, <3>3, <1>4, <1>8
  <2> QED  BY <2>1, <2>2, <1>5
<1> QED  BY <1>9, <1>10, <1>11, <1>12 DEF c

\* The save keeps the stored rows and adds the new ones that are not stored yet.
LEMMA SavedKeeps ==
  ASSUME NEW c, Context(c), Named(c), Extends(c, disk), Once(disk),
         \A r, q \in c.rows \ disk.rows : r.sha = q.sha => r = q
  PROVE  /\ Context(Saved(c)) /\ Named(Saved(c)) /\ Once(Saved(c))
         /\ Extends(Saved(c), disk)
<1>1. /\ Saved(c) \in Store /\ Saved(c).authors = c.authors
      /\ Saved(c).rows = disk.rows \cup {r \in c.rows : \A q \in disk.rows : q.sha # r.sha}
  BY DEF Saved, Context, Store, Extends
<1>2. Saved(c).rows \subseteq c.rows
  BY <1>1 DEF Extends
<1>3. Once(Saved(c))
  BY <1>1 DEF Once
<1> QED  BY <1>1, <1>2, <1>3 DEF Context, Named, Extends

-----------------------------------------------------------------------------
\* While no save failed, the context and the store hold the same.
Clean == phase # "unsaved" => mem = disk

IInv ==
  /\ Context(disk) /\ Context(mem)
  /\ filter \in Filter /\ answer \in Answers /\ phase \in Phase
  /\ launch \in 1 .. MaxLaunch
  /\ ListFitsFilter /\ Clean
  /\ Once(disk) /\ Named(disk) /\ Named(mem)

LEMMA IInvSuffices == IInv => TypeOK /\ ListFitsFilter /\ OncePerCommit /\ AuthorIsCommitter
<1> SUFFICES ASSUME IInv PROVE TypeOK /\ OncePerCommit /\ AuthorIsCommitter
  BY DEF IInv
<1>1. TypeOK
  BY DEF IInv, TypeOK, Context, ListFitsFilter, Loaded
<1>2. OncePerCommit
  BY DEF IInv, OncePerCommit, Once, Clean
<1>3. AuthorIsCommitter
  BY DEF IInv, AuthorIsCommitter, Named
<1> QED  BY <1>1, <1>2, <1>3

LEMMA NoAnswer == <<>> \in Answers
<1>1. <<>> \in [1 .. 0 -> Commit]
  OBVIOUS
<1> QED  BY <1>1, 0 \in 0 .. 2 DEF Answers

LEMMA InitIInv == Init => IInv
<1> SUFFICES ASSUME Init PROVE IInv
  OBVIOUS
<1>1. Context(disk) /\ Context(mem) /\ Once(disk) /\ Named(disk) /\ Named(mem)
  BY DEF Init, Empty, Context, Store, Once, Named
<1>2. <<>> \in Answers
  BY NoAnswer
<1>3. ListFitsFilter /\ Clean
  BY DEF Init, Empty, ListFitsFilter, Loaded, Clean
<1> QED  BY <1>1, <1>2, <1>3, CommitsAssumption DEF Init, IInv, Phase, Filter, All

\* A fetched answer is merged when the context is as the store.
LEMMA MergeIInv ==
  ASSUME IInv, MergeFetched
  PROVE  IInv' /\ Extends(disk', disk)
<1> DEFINE c == Configured(mem, answer)
<1>1. mem = disk
  BY DEF IInv, Clean, MergeFetched
<1>2. /\ Context(c) /\ Named(c) /\ Extends(c, disk)
      /\ \A r, q \in c.rows \ disk.rows : r.sha = q.sha => r = q
  BY <1>1, ConfiguredKeeps DEF IInv
<1> HIDE DEF c
<1>4. filter' \in Filter /\ answer' \in Answers /\ phase' \in Phase
      /\ launch' \in 1 .. MaxLaunch /\ ListFitsFilter'
  BY NoAnswer DEF IInv, MergeFetched, ListFitsFilter, Phase
<1>5. CASE disk' = Saved(c) /\ mem' = Saved(c) /\ phase' = "saved"
  <2>1. Context(Saved(c)) /\ Named(Saved(c)) /\ Once(Saved(c)) /\ Extends(Saved(c), disk)
    BY <1>2, SavedKeeps DEF IInv
  <2>2. Clean'
    BY <1>5 DEF Clean
  <2> QED  BY <1>4, <1>5, <2>1, <2>2 DEF IInv, Context, Named, Once
<1>6. CASE disk' = disk /\ mem' = c /\ phase' = "unsaved"
  <2>1. Clean' /\ Extends(disk, disk)
    BY <1>6 DEF Clean, Extends
  <2> QED  BY <1>2, <1>4, <1>6, <2>1 DEF IInv, Context, Named, Once
<1> QED  BY <1>5, <1>6 DEF MergeFetched, c

LEMMA NextIInv ==
  ASSUME IInv, [Next]_vars
  PROVE  IInv' /\ Extends(disk', disk)
<1>1. Extends(disk, disk)
  BY DEF Extends
<1>2. CASE FetchCommits
  BY <1>1, <1>2 DEF IInv, FetchCommits, Context, Named, Once, ListFitsFilter, Clean, Phase
<1>3. CASE MergeFetched
  BY <1>3, MergeIInv
<1>4. ASSUME NEW f \in Filter, ChangeFilter(f) PROVE IInv' /\ Extends(disk', disk)
  BY <1>1, <1>4 DEF IInv, ChangeFilter, Context, Named, Once, ListFitsFilter, Clean
<1>5. CASE Relaunch
  <2>1. <<>> \in Answers
    BY NoAnswer
  <2>2. launch' \in 1 .. MaxLaunch
    BY <1>5, CommitsAssumption DEF IInv, Relaunch
  <2>3. filter' \in Filter /\ phase' \in Phase /\ ListFitsFilter' /\ Clean'
    BY <1>5 DEF Relaunch, Filter, All, Phase, ListFitsFilter, Clean
  <2> QED  BY <1>1, <1>5, <2>1, <2>2, <2>3 DEF IInv, Relaunch, Context, Named, Once
<1>6. CASE UNCHANGED vars
  BY <1>1, <1>6 DEF vars, IInv, Context, Named, Once, ListFitsFilter, Clean
<1> QED  BY <1>2, <1>3, <1>4, <1>5, <1>6 DEF Next

-----------------------------------------------------------------------------
\* In every run what is stored and what is shown fits together.
LEMMA CommitsAreRight ==
  Spec => [](TypeOK /\ ListFitsFilter /\ OncePerCommit /\ AuthorIsCommitter)
<1>1. IInv /\ [Next]_vars => IInv'
  BY NextIInv
<1> QED  BY <1>1, InitIInv, IInvSuffices, PTL DEF Spec

\* The stored rows and the rows of the table keep their types.
THEOREM TypeCorrect == Spec => []TypeOK
BY CommitsAreRight, PTL

\* The table shows what the filter in force selects from the stored commits
\* (loadSavedData after fetchCommits and after changeFilter).
THEOREM ListIsFiltered == Spec => []ListFitsFilter
BY CommitsAreRight, PTL

\* A fetch that brings a stored commit again stores it no second time, whatever
\* the launches and the fetches before (fetchCommits, the merge policy).
THEOREM StoredOnce == Spec => []OncePerCommit
BY CommitsAreRight, PTL

\* A commit is its committer's unless an author without a name was stored
\* (configure).
THEOREM AuthorsAreRight == Spec => []AuthorIsCommitter
BY CommitsAreRight, PTL

\* A stored commit never changes (the merge policy of viewDidLoad).
THEOREM FirstFetchIsKept == Spec => FirstFetchStays
<1> DEFINE A == /\ disk.rows \subseteq disk'.rows
                /\ \A i \in DOMAIN disk.authors : i \in DOMAIN disk'.authors
                     /\ disk'.authors[i] = disk.authors[i]
<1>1. IInv /\ [Next]_vars => IInv'
  BY NextIInv
<1>2. IInv /\ [Next]_vars => [A]_vars
  BY NextIInv DEF Extends
<1> QED  BY <1>1, <1>2, InitIInv, PTL DEF Spec, FirstFetchStays
=============================================================================
