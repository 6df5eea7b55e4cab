-------------------------- MODULE StocksScreenProofs --------------------------
(***************************************************************************)
(* TLAPS proofs about StocksScreen, for any list of stocks, any number of  *)
(* user actions and any number of requests under way: what the screen      *)
(* shows when it has come to rest.                                         *)
(***************************************************************************)
EXTENDS StocksScreen, TLAPS

-----------------------------------------------------------------------------
(* Queues: nothing of a kind in them, the last of a kind, what is followed. *)

None(q, S) == \A i \in 1 .. Len(q) : q[i] \notin S

\* The last element of q that is in S is in B.
Ends(q, S, B) ==
    \E i \in 1 .. Len(q) : /\ q[i] \in B
                           /\ \A j \in 1 .. Len(q) : j > i => q[j] \notin S

\* After every element of S comes one of T.
Followed(q, S, T) ==
    \A i \in 1 .. Len(q) : q[i] \in S => \E j \in 1 .. Len(q) : j > i /\ q[j] \in T

LEMMA AppendParts ==
    ASSUME NEW T, NEW q \in Seq(T), NEW x \in T
    PROVE  /\ Append(q, x) \in Seq(T)
           /\ Len(Append(q, x)) = Len(q) + 1 /\ Len(q) \in Nat
           /\ Append(q, x)[Len(q) + 1] = x
           /\ \A i \in 1 .. Len(q) : Append(q, x)[i] = q[i]
  OBVIOUS

LEMMA TailParts ==
    ASSUME NEW T, NEW q \in Seq(T), q # << >>
    PROVE  /\ Tail(q) \in Seq(T) /\ Head(q) \in T /\ Head(q) = q[1]
           /\ Len(q) \in Nat /\ Len(q) >= 1 /\ Len(Tail(q)) = Len(q) - 1
           /\ \A i \in 1 .. Len(Tail(q)) : Tail(q)[i] = q[i + 1]
  OBVIOUS

LEMMA RemoveParts ==
    ASSUME NEW T, NEW q \in Seq(T), NEW i \in 1 .. Len(q)
    PROVE  /\ Remove(q, i) \in Seq(T) /\ q[i] \in T /\ Len(q) \in Nat
           /\ Len(Remove(q, i)) = Len(q) - 1
           /\ \A j \in 1 .. Len(q) - 1 : Remove(q, i)[j] = IF j < i THEN q[j] ELSE q[j + 1]
  <1> DEFINE a == SubSeq(q, 1, i - 1)
             b == SubSeq(q, i + 1, Len(q))
  <1>1. /\ a \in Seq(T) /\ Len(a) = i - 1 /\ \A j \in 1 .. i - 1 : a[j] = q[j]
    OBVIOUS
  <1>2. /\ b \in Seq(T) /\ Len(b) = Len(q) - i
        /\ \A j \in 1 .. Len(q) - i : b[j] = q[i + j]
    OBVIOUS
  <1>3. Remove(q, i) = a \o b
    BY DEF Remove
  <1> HIDE DEF a, b
  <1>4. /\ a \o b \in Seq(T) /\ Len(a \o b) = Len(a) + Len(b)
        /\ \A j \in 1 .. Len(a) + Len(b) :
             (a \o b)[j] = IF j <= Len(a) THEN a[j] ELSE b[j - Len(a)]
    <2>1. a \in Seq(T) /\ b \in Seq(T)
      BY <1>1, <1>2
    <2> QED BY <2>1
  <1>5. Len(q) \in Nat /\ q[i] \in T
    OBVIOUS
  <1>6. ASSUME NEW j \in 1 .. Len(q) - 1
        PROVE  Remove(q, i)[j] = IF j < i THEN q[j] ELSE q[j + 1]
    <2>1. CASE j < i
      <3>1. j \in 1 .. i - 1 /\ j <= Len(a) /\ j \in 1 .. Len(a) + Len(b)
        BY <1>1, <1>2, <1>5, <2>1
      <3> QED BY <1>1, <1>3, <1>4, <2>1, <3>1
    <2>2. CASE ~(j < i)
      <3>1. j - Len(a) \in 1 .. Len(q) - i /\ ~(j <= Len(a)) /\ j \in 1 .. Len(a) + Len(b)
        BY <1>1, <1>2, <1>5, <2>2
      <3>2. Remove(q, i)[j] = b[j - Len(a)]
        BY <1>3, <1>4, <3>1
      <3>3. b[j - Len(a)] = q[i + (j - Len(a))] /\ i + (j - Len(a)) = j + 1
        BY <1>1, <1>2, <1>5, <3>1
      <3> QED BY <2>2, <3>2, <3>3
    <2> QED BY <2>1, <2>2
  <1> QED BY <1>1, <1>2, <1>3, <1>4, <1>5, <1>6

\* What an appended element does.
LEMMA AppendNone ==
    ASSUME NEW T, NEW q \in Seq(T), NEW x \in T, NEW S
    PROVE  None(Append(q, x), S) <=> None(q, S) /\ x \notin S
  <1> DEFINE r == Append(q, x)
  <1>1. /\ Len(r) = Len(q) + 1 /\ Len(q) \in Nat /\ r[Len(q) + 1] = x
        /\ \A i \in 1 .. Len(q) : r[i] = q[i]
    BY AppendParts
  <1> HIDE DEF r
  <1>2. None(r, S) => None(q, S) /\ x \notin S
    BY <1>1 DEF None
  <1>3. None(q, S) /\ x \notin S => None(r, S)
    BY <1>1 DEF None
  <1> QED BY <1>2, <1>3 DEF r

LEMMA AppendEnds ==
    ASSUME NEW T, NEW q \in Seq(T), NEW x \in T, NEW S, NEW B
    PROVE  /\ x \notin S /\ Ends(q, S, B) => Ends(Append(q, x), S, B)
           /\ x \in B => Ends(Append(q, x), S, B)
  <1> DEFINE r == Append(q, x)
  <1>1. /\ Len(r) = Len(q) + 1 /\ Len(q) \in Nat /\ r[Len(q) + 1] = x
        /\ \A i \in 1 .. Len(q) : r[i] = q[i]
    BY AppendParts
  <1> HIDE DEF r
  <1>2. ASSUME x \notin S, Ends(q, S, B) PROVE Ends(r, S, B)
    <2>1. PICK i \in 1 .. Len(q) : /\ q[i] \in B
                                   /\ \A j \in 1 .. Len(q) : j > i => q[j] \notin S
      BY <1>2 DEF Ends
    <2>2. i \in 1 .. Len(r) /\ r[i] \in B
      BY <1>1, <2>1
    <2>3. ASSUME NEW j \in 1 .. Len(r), j > i PROVE r[j] \notin S
      <3>1. CASE j = Len(q) + 1
        BY <1>1, <1>2, <3>1
      <3>2. CASE j # Len(q) + 1
        <4>1. j \in 1 .. Len(q)
          BY <1>1, <3>2
        <4> QED BY <1>1, <2>1, <2>3, <4>1
      <3> QED BY <3>1, <3>2
    <2> QED BY <2>2, <2>3 DEF Ends
  <1>3. ASSUME x \in B PROVE Ends(r, S, B)
    <2>1. Len(q) + 1 \in 1 .. Len(r) /\ r[Len(q) + 1] \in B
      BY <1>1, <1>3
    <2>2. \A j \in 1 .. Len(r) : ~(j > Len(q) + 1)
      BY <1>1
    <2> QED BY <2>1, <2>2 DEF Ends
  <1> QED BY <1>2, <1>3 DEF r

LEMMA AppendFollowed ==
    ASSUME NEW Q, NEW q \in Seq(Q), NEW x \in Q, NEW S, NEW T, x \notin S
    PROVE  /\ Followed(q, S, T) => Followed(Append(q, x), S, T)
           /\ x \in T => Followed(Append(q, x), S, T)
  <1> DEFINE r == Append(q, x)
  <1>1. /\ Len(r) = Len(q) + 1 /\ Len(q) \in Nat /\ r[Len(q) + 1] = x
        /\ \A i \in 1 .. Len(q) : r[i] = q[i]
    BY AppendParts
  <1> HIDE DEF r
  <1>2. ASSUME Followed(q, S, T), NEW i \in 1 .. Len(r), r[i] \in S
        PROVE  \E j \in 1 .. Len(r) : j > i /\ r[j] \in T
    <2>1. i \in 1 .. Len(q) /\ q[i] \in S
      BY <1>1, <1>2
    <2>2. PICK j \in 1 .. Len(q) : j > i /\ q[j] \in T
      BY <1>2, <2>1 DEF Followed
    <2>3. j \in 1 .. Len(r) /\ r[j] \in T
      BY <1>1, <2>2
    <2> QED BY <2>2, <2>3
  <1>3. ASSUME x \in T, NEW i \in 1 .. Len(r), r[i] \in S
        PROVE  \E j \in 1 .. Len(r) : j > i /\ r[j] \in T
    <2>1. i \in 1 .. Len(q)
      BY <1>1, <1>3
    <2>2. Len(q) + 1 \in 1 .. Len(r) /\ Len(q) + 1 > i /\ r[Len(q) + 1] \in T
      BY <1>1, <1>3, <2>1
    <2> QED BY <2>2
  <1>4. Followed(q, S, T) => Followed(r, S, T)
    BY <1>2 DEF Followed
  <1>5. x \in T => Followed(r, S, T)
    BY <1>3 DEF Followed
  <1> QED BY <1>4, <1>5 DEF r

\* What the loss of the first element does.
LEMMA TailNone ==
    ASSUME NEW T, NEW q \in Seq(T), q # << >>, NEW S
    PROVE  None(q, S) <=> Head(q) \notin S /\ None(Tail(q), S)
  <1> DEFINE r == Tail(q)
  <1>1. /\ Head(q) = q[1] /\ Len(q) \in Nat /\ Len(q) >= 1 /\ Len(r) = Len(q) - 1
        /\ \A i \in 1 .. Len(r) : r[i] = q[i + 1]
    BY TailParts
  <1> HIDE DEF r
  <1>2. ASSUME None(q, S) PROVE Head(q) \notin S /\ None(r, S)
    BY <1>1, <1>2 DEF None
  <1>3. ASSUME Head(q) \notin S, None(r, S), NEW i \in 1 .. Len(q) PROVE q[i] \notin S
    <2>1. CASE i = 1
      BY <1>1, <1>3, <2>1
    <2>2. CASE i # 1
      <3>1. i - 1 \in 1 .. Len(r) /\ r[i - 1] = q[(i - 1) + 1] /\ (i - 1) + 1 = i
        BY <1>1, <2>2
      <3> QED BY <1>3, <3>1 DEF None
    <2> QED BY <2>1, <2>2
  <1>4. Head(q) \notin S /\ None(r, S) => None(q, S)
    BY <1>3 DEF None
  <1> QED BY <1>2, <1>4 DEF r

LEMMA TailEnds ==
    ASSUME NEW T, NEW q \in Seq(T), q # << >>, NEW S, NEW B, Ends(q, S, B)
    PROVE  Ends(Tail(q), S, B) \/ (Head(q) \in B /\ None(Tail(q), S))
  <1> DEFINE r == Tail(q)
  <1>1. /\ Head(q) = q[1] /\ Len(q) \in Nat /\ Len(q) >= 1 /\ Len(r) = Len(q) - 1
        /\ \A i \in 1 .. Len(r) : r[i] = q[i + 1]
    BY TailParts
  <1> HIDE DEF r
  <1>2. PICK i \in 1 .. Len(q) : /\ q[i] \in B
                                 /\ \A j \in 1 .. Len(q) : j > i => q[j] \notin S
    BY DEF Ends
  <1>3. \A j \in 1 .. Len(r) : j + 1 > i => r[j] \notin S
    <2> SUFFICES ASSUME NEW j \in 1 .. Len(r), j + 1 > i PROVE r[j] \notin S
      OBVIOUS
    <2>1. j + 1 \in 1 .. Len(q)
      BY <1>1
    <2> QED BY <1>1, <1>2, <2>1
  <1>4. CASE i = 1
    <2>1. \A j \in 1 .. Len(r) : r[j] \notin S
      BY <1>1, <1>3, <1>4
    <2> QED BY <1>1, <1>2, <1>4, <2>1 DEF None, r
  <1>5. CASE i # 1
    <2>1. i - 1 \in 1 .. Len(r) /\ r[i - 1] = q[(i - 1) + 1] /\ (i - 1) + 1 = i
      BY <1>1, <1>5
    <2>2. \A j \in 1 .. Len(r) : j > i - 1 => r[j] \notin S
      BY <1>1, <1>3
    <2> QED BY <1>2, <2>1, <2>2 DEF Ends, r
  <1> QED BY <1>4, <1>5

LEMMA TailFollowed ==
    ASSUME NEW Q, NEW q \in Seq(Q), q # << >>, NEW S, NEW T, Followed(q, S, T)
    PROVE  /\ Followed(Tail(q), S, T)
           /\ Head(q) \in S => ~None(Tail(q), T)
  <1> DEFINE r == Tail(q)
  <1>1. /\ Head(q) = q[1] /\ Len(q) \in Nat /\ Len(q) >= 1 /\ Len(r) = Len(q) - 1
        /\ \A i \in 1 .. Len(r) : r[i] = q[i + 1]
    BY TailParts
  <1> HIDE DEF r
  <1>2. ASSUME NEW i \in 1 .. Len(r), r[i] \in S
        PROVE  \E j \in 1 .. Len(r) : j > i /\ r[j] \in T
    <2>1. i + 1 \in 1 .. Len(q) /\ q[i + 1] \in S
      BY <1>1, <1>2
    <2>2. PICK j \in 1 .. Len(q) : j > i + 1 /\ q[j] \in T
      BY <2>1 DEF Followed
    <2>3. j - 1 \in 1 .. Len(r) /\ j - 1 > i /\ r[j - 1] = q[(j - 1) + 1] /\ (j - 1) + 1 = j
      BY <1>1, <2>2
    <2> QED BY <2>2, <2>3
  <1>3. ASSUME Head(q) \in S PROVE ~None(r, T)
    <2>1. 1 \in 1 .. Len(q) /\ q[1] \in S
      BY <1>1, <1>3
    <2>2. PICK j \in 1 .. Len(q) : j > 1 /\ q[j] \in T
      BY <2>1 DEF Followed
    <2>3. j - 1 \in 1 .. Len(r) /\ r[j - 1] = q[(j - 1) + 1] /\ (j - 1) + 1 = j
      BY <1>1, <2>2
    <2> QED BY <2>2, <2>3 DEF None
  <1>4. Followed(r, S, T)
    BY <1>2 DEF Followed
  <1> QED BY <1>3, <1>4 DEF r

\* What the removal of an element does.
LEMMA RemoveNone ==
    ASSUME NEW T, NEW q \in Seq(T), NEW i \in 1 .. Len(q), NEW S
    PROVE  None(q, S) <=> q[i] \notin S /\ None(Remove(q, i), S)
  <1> DEFINE r == Remove(q, i)
  <1>1. /\ Len(q) \in Nat /\ Len(r) = Len(q) - 1
        /\ \A j \in 1 .. Len(q) - 1 : r[j] = IF j < i THEN q[j] ELSE q[j + 1]
    BY RemoveParts
  <1> HIDE DEF r
  <1>2. ASSUME None(q, S), NEW j \in 1 .. Len(r) PROVE r[j] \notin S
    <2>1. j \in 1 .. Len(q) /\ j + 1 \in 1 .. Len(q)
      BY <1>1
    <2> QED BY <1>1, <1>2, <2>1 DEF None
  <1>3. ASSUME q[i] \notin S, None(r, S), NEW j \in 1 .. Len(q) PROVE q[j] \notin S
    <2>1. CASE j < i
      <3>1. j \in 1 .. Len(r) /\ r[j] = q[j]
        BY <1>1, <2>1
      <3> QED BY <1>3, <3>1 DEF None
    <2>2. CASE j > i
      <3>1. j - 1 \in 1 .. Len(r) /\ r[j - 1] = q[(j - 1) + 1] /\ (j - 1) + 1 = j
        BY <1>1, <2>2
      <3> QED BY <1>3, <3>1 DEF None
    <2>3. CASE j = i
      BY <1>3, <2>3
    <2> QED BY <2>1, <2>2, <2>3
  <1>4. None(q, S) => q[i] \notin S /\ None(r, S)
    BY <1>2 DEF None
  <1>5. q[i] \notin S /\ None(r, S) => None(q, S)
    BY <1>3 DEF None
  <1> QED BY <1>4, <1>5 DEF r

LEMMA RemoveEnds ==
    ASSUME NEW T, NEW q \in Seq(T), NEW i \in 1 .. Len(q), NEW S, NEW B, Ends(q, S, B),
           \A k \in 1 .. i - 1 : q[i] \in S => q[k] \notin S, B \subseteq S
    PROVE  Ends(Remove(q, i), S, B) \/ (q[i] \in B /\ None(Remove(q, i), S))
  <1> DEFINE r == Remove(q, i)
  <1>1. /\ Len(q) \in Nat /\ Len(r) = Len(q) - 1
        /\ \A j \in 1 .. Len(q) - 1 : r[j] = IF j < i THEN q[j] ELSE q[j + 1]
    BY RemoveParts
  <1> HIDE DEF r
  <1>2. PICK m \in 1 .. Len(q) : /\ q[m] \in B
                                 /\ \A j \in 1 .. Len(q) : j > m => q[j] \notin S
    BY DEF Ends
  <1>3. CASE m = i
    <2>1. ASSUME NEW j \in 1 .. Len(r) PROVE r[j] \notin S
      <3>1. CASE j < i
        <4>1. r[j] = q[j] /\ j \in 1 .. i - 1
          BY <1>1, <3>1
        <4> QED BY <1>2, <1>3, <4>1
      <3>2. CASE ~(j < i)
        <4>1. r[j] = q[j + 1] /\ j + 1 \in 1 .. Len(q) /\ j + 1 > m
          BY <1>1, <1>3, <3>2
        <4> QED BY <1>2, <4>1
      <3> QED BY <3>1, <3>2
    <2> QED BY <1>2, <1>3, <2>1 DEF None, r
  <1>4. CASE m < i
    <2>1. m \in 1 .. Len(r) /\ r[m] = q[m]
      BY <1>1, <1>4
    <2>2. ASSUME NEW j \in 1 .. Len(r), j > m PROVE r[j] \notin S
      <3>1. j \in 1 .. Len(q) /\ j + 1 \in 1 .. Len(q) /\ j + 1 > m
        BY <1>1, <2>2
      <3> QED BY <1>1, <1>2, <2>2, <3>1
    <2> QED BY <1>2, <2>1, <2>2 DEF Ends, r
  <1>5. CASE m > i
    <2>1. m - 1 \in 1 .. Len(r) /\ r[m - 1] = q[(m - 1) + 1] /\ (m - 1) + 1 = m
      BY <1>1, <1>5
    <2>2. ASSUME NEW j \in 1 .. Len(r), j > m - 1 PROVE r[j] \notin S
      <3>1. r[j] = q[j + 1] /\ j + 1 \in 1 .. Len(q) /\ j + 1 > m
        BY <1>1, <1>5, <2>2
      <3> QED BY <1>2, <3>1
    <2> QED BY <1>2, <2>1, <2>2 DEF Ends, r
  <1> QED BY <1>3, <1>4, <1>5

\* What a changed element does: it stays in the same sets.
LEMMA PutParts ==
    ASSUME NEW T, NEW q \in Seq(T), NEW i \in 1 .. Len(q), NEW x \in T, NEW S, NEW B,
           q[i] \in S <=> x \in S, q[i] \in B <=> x \in B
    PROVE  LET r == [q EXCEPT ![i] = x]
           IN  /\ r \in Seq(T)
               /\ None(r, S) <=> None(q, S)
               /\ Ends(q, S, B) => Ends(r, S, B)
  <1> DEFINE r == [q EXCEPT ![i] = x]
  <1>1. /\ r \in Seq(T) /\ Len(r) = Len(q)
        /\ \A j \in 1 .. Len(q) : r[j] = IF j = i THEN x ELSE q[j]
    OBVIOUS
  <1> HIDE DEF r
  <1>2. \A j \in 1 .. Len(q) : (r[j] \in S <=> q[j] \in S) /\ (r[j] \in B <=> q[j] \in B)
    BY <1>1
  <1>3. None(r, S) <=> None(q, S)
    BY <1>1, <1>2 DEF None
  <1>4. ASSUME Ends(q, S, B) PROVE Ends(r, S, B)
    <2>1. PICK m \in 1 .. Len(q) : /\ q[m] \in B
                                   /\ \A j \in 1 .. Len(q) : j > m => q[j] \notin S
      BY <1>4 DEF Ends
    <2>2. m \in 1 .. Len(r) /\ r[m] \in B
      BY <1>1, <1>2, <2>1
    <2>3. \A j \in 1 .. Len(r) : j > m => r[j] \notin S
      BY <1>1, <1>2, <2>1
    <2> QED BY <2>2, <2>3 DEF Ends
  <1> QED BY <1>1, <1>3, <1>4 DEF r

-----------------------------------------------------------------------------
(* The inductive invariant. *)

Blocks == [do : {"start", "stop", "reload", "request", "alert"}]
          \cup [do : {"labels"}, stock : OrNil(Symbols)]
          \cup [do : {"picture"}, of : Symbols]
Requests == [kind : {"list"}, of : {Nil}]
            \cup [kind : {"stock", "logo", "image"}, of : Symbols]

Doing(K) == {b \in Blocks : b.do \in K}
Asking(K) == {r \in Requests : r.kind \in K}
AskingFor(K, s) == {r \in Requests : r.kind \in K /\ r.of = s}

\* The blocks that change the picture.
Pictures == {b \in Blocks : b.do = "picture" \/ b = Labels(Nil)}

MainType == [step : {"idle", "read"}]
            \cup [step : {"update"}, stock : OrNil(Symbols)]
            \cup [step : {"assign"}, stocks : StockLists]
BackgroundType == [step : {"idle", "suitable", "read", "stop"}]
                  \cup [step : {"update"}, stock : OrNil(Symbols)]

\* The types, and that nothing is known of a stock before one was asked for.
Typed ==
    /\ allStocks \in StockLists /\ suitableStocks \in StockLists
    /\ selectedStock \in OrNil(Symbols) /\ symbol \in OrNil(Symbols)
    /\ labels \in OrNil(Symbols) /\ picture \in OrNil(Symbols)
    /\ picker \in [rows : Nat, row : Nat \cup {-1}]
    /\ spinning \in BOOLEAN /\ alert \in BOOLEAN /\ alive \in BOOLEAN
    /\ history \in [overtaken : BOOLEAN, noPicture : BOOLEAN] /\ acted \in Nat
    /\ main \in MainType /\ background \in BackgroundType
    /\ mainQ \in Seq(Blocks) /\ pending \in Seq(Requests)
    /\ symbol = Nil =>
         /\ None(pending, Asking({"stock"})) /\ selectedStock = Nil
         /\ main.step = "update" => main.stock = Nil
         /\ background.step = "update" => background.stock = Nil

Rows == IF suitableStocks = Nil THEN 0 ELSE Len(suitableStocks)

\* The picker shows suitableStocks, unless it is to be loaded again.
Listing ==
    /\ None(mainQ, Doing({"reload"})) => picker.rows = Rows
    /\ picker.row < picker.rows \/ (picker.rows = 0 /\ picker.row <= 0)

\* What the activity indicator waits for is on its way.
Busy ==
    \/ ~alive \/ suitableStocks = << >>
    \/ ~None(mainQ, Doing({"reload"}))
    \/ main.step \in {"read", "update"}
    \/ ~None(pending, Asking({"list", "stock"}))
    \/ background.step # "idle"

\* The indicator, and every block that starts it, is followed by a stop or by a
\* request, whose answer brings one.
Stopping ==
    \/ Busy
    \/ /\ spinning => ~None(mainQ, Doing({"stop", "request"}))
       /\ Followed(mainQ, Doing({"start"}), Doing({"stop", "request"}))

\* The selected row is still to be asked for.
Unasked ==
    \/ ~alive \/ suitableStocks = << >>
    \/ ~None(mainQ, Doing({"reload", "request"}))
    \/ main.step \in {"read", "update"}
    \/ ~None(pending, Asking({"list"}))
    \/ background.step = "suitable"

Row == suitableStocks[picker.row + 1]

\* The last request under way is for the selected row's stock.
Waiting == Ends(pending, Asking({"stock"}), AskingFor({"stock"}, Row))

PictureRequests == Asking({"logo", "image"})

\* What the labels show in the end, with q in the main queue, is s.
Labelled(q, now, s) ==
    \/ Ends(q, Doing({"labels"}), {Labels(s)})
    \/ None(q, Doing({"labels"})) /\ now = s

\* The picture in the end, with p under way and q in the main queue, is that of s.
Pictured(p, q, now, s) ==
    \/ Ends(p, PictureRequests, AskingFor({"logo", "image"}, s))
    \/ /\ None(p, PictureRequests)
       /\ Ends(q, Pictures, {Picture(s)}) \/ (None(q, Pictures) /\ now = s)

\* selectedStock is on screen, or will be.
Shows ==
    \/ background.step = "read"
    \/ background.step = "update" /\ background.stock = selectedStock
    \/ /\ background.step \in {"idle", "stop"}
       /\ Labelled(mainQ, labels, selectedStock)
       /\ \/ history.noPicture \/ selectedStock = Nil
          \/ Pictured(pending, mainQ, picture, selectedStock)

\* The answer for the selected row has come.
Told == None(pending, Asking({"stock"})) /\ selectedStock \in {Nil, Row} /\ Shows

Fitting == Unasked \/ (symbol = Row /\ (history.overtaken \/ Waiting \/ Told))

IInv == Typed /\ Listing /\ Stopping /\ Fitting

-----------------------------------------------------------------------------
(* Values. *)

LEMMA BlockValues ==
    /\ Start \in Blocks /\ Start.do = "start" /\ Stop \in Blocks /\ Stop.do = "stop"
    /\ Reload \in Blocks /\ Reload.do = "reload"
    /\ Request \in Blocks /\ Request.do = "request"
    /\ Alert \in Blocks /\ Alert.do = "alert"
    /\ \A s \in OrNil(Symbols) : /\ Labels(s) \in Blocks /\ Labels(s).do = "labels"
                                 /\ Labels(s).stock = s
    /\ \A s \in Symbols : /\ Picture(s) \in Blocks /\ Picture(s).do = "picture"
                          /\ Picture(s).of = s
  BY DEF Blocks, Start, Stop, Reload, Request, Alert, Labels, Picture

LEMMA BlockForms ==
    ASSUME NEW b \in Blocks
    PROVE  /\ b.do \in {"start", "stop", "reload", "request", "alert", "labels", "picture"}
           /\ b.do = "labels" => b.stock \in OrNil(Symbols) /\ b = Labels(b.stock)
           /\ b.do = "picture" => b.of \in Symbols /\ b = Picture(b.of)
  BY DEF Blocks, Labels, Picture

LEMMA RequestForms ==
    /\ \A r \in Requests : /\ r.kind \in {"list", "stock", "logo", "image"}
                           /\ r.kind # "list" => r.of \in Symbols
    /\ \A k \in {"stock", "logo", "image"} : \A s \in Symbols :
         LET r == [kind |-> k, of |-> s]
         IN  r \in Requests /\ r.kind = k /\ r.of = s
    /\ [kind |-> "list", of |-> Nil] \in Requests
  BY DEF Requests

LEMMA SymbolFacts ==
    /\ Nil \notin Symbols /\ Symbols \subseteq OrNil(Symbols) /\ Nil \in OrNil(Symbols)
    /\ Listed \in Seq(Symbols) /\ Listed \in StockLists /\ Nil \in StockLists
    /\ \A s \in OrNil(Symbols) : s # Nil => s \in Symbols
    /\ \A l \in StockLists : l # Nil => l \in Seq(Symbols)
    /\ \A l \in Seq(Symbols) : l \in StockLists
  BY ListedAssumption DEF Symbols, OrNil, StockLists

LEMMA MainValues ==
    /\ Idle \in MainType /\ Idle.step = "idle"
    /\ [step |-> "read"] \in MainType
    /\ \A s \in OrNil(Symbols) : [step |-> "update", stock |-> s] \in MainType
    /\ \A l \in StockLists : [step |-> "assign", stocks |-> l] \in MainType
    /\ \A m \in MainType : /\ m.step \in {"idle", "read", "update", "assign"}
                           /\ m.step = "update" => m.stock \in OrNil(Symbols)
                           /\ m.step = "assign" => m.stocks \in StockLists
  <1>1. /\ Idle \in MainType /\ Idle.step = "idle" /\ [step |-> "read"] \in MainType
        /\ \A s \in OrNil(Symbols) : [step |-> "update", stock |-> s] \in MainType
        /\ \A l \in StockLists : [step |-> "assign", stocks |-> l] \in MainType
    BY DEF MainType, Idle
  <1>2. ASSUME NEW m \in MainType
        PROVE  /\ m.step \in {"idle", "read", "update", "assign"}
               /\ m.step = "update" => m.stock \in OrNil(Symbols)
               /\ m.step = "assign" => m.stocks \in StockLists
    BY DEF MainType
  <1> QED BY <1>1, <1>2

LEMMA BackgroundValues ==
    /\ Idle \in BackgroundType /\ Idle.step = "idle"
    /\ [step |-> "suitable"] \in BackgroundType
    /\ [step |-> "read"] \in BackgroundType /\ [step |-> "stop"] \in BackgroundType
    /\ \A s \in OrNil(Symbols) : [step |-> "update", stock |-> s] \in BackgroundType
    /\ \A b \in BackgroundType : /\ b.step \in {"idle", "suitable", "read", "update", "stop"}
                                 /\ b.step = "update" => b.stock \in OrNil(Symbols)
  BY DEF BackgroundType, Idle

-----------------------------------------------------------------------------
(* What the actions have in common. *)

\* The first block of the main queue.
LEMMA BlockTaken ==
    ASSUME Typed, NEW do, Block(do)
    PROVE  /\ mainQ \in Seq(Blocks) /\ mainQ # << >> /\ Head(mainQ) \in Blocks
           /\ Head(mainQ).do = do /\ Tail(mainQ) \in Seq(Blocks)
           /\ alive /\ main = Idle /\ main.step = "idle"
  <1>1. mainQ \in Seq(Blocks) /\ mainQ # << >> /\ Head(mainQ).do = do
    BY DEF Typed, Block
  <1>2. Head(mainQ) \in Blocks /\ Tail(mainQ) \in Seq(Blocks)
    BY <1>1, TailParts
  <1> QED BY <1>1, <1>2, MainValues DEF Block, MainIdle

\* What updateStockInfo posts and asks for.
LEMMA UpdatePosts ==
    ASSUME Typed, NEW stock \in OrNil(Symbols), stock # Nil => symbol # Nil, NEW after,
           UpdateStockInfo(stock, after)
    PROVE  LET shows == Append(mainQ, Labels(stock))
               logo == [kind |-> "logo", of |-> symbol]
           IN  /\ Labels(stock) \in Blocks /\ shows \in Seq(Blocks)
               /\ after = << >> => mainQ' = shows
               /\ after = <<Request>> =>
                    mainQ' = Append(shows, Request) /\ mainQ' \in Seq(Blocks)
               /\ stock = Nil => pending' = pending
               /\ stock # Nil => logo \in Requests /\ pending' = Append(pending, logo)
               /\ pending' \in Seq(Requests)
  <1> DEFINE shows == Append(mainQ, Labels(stock))
             logo == [kind |-> "logo", of |-> symbol]
  <1>1. Labels(stock) \in Blocks /\ Request \in Blocks
    BY BlockValues
  <1>2. shows \in Seq(Blocks)
    BY <1>1, AppendParts DEF Typed
  <1>3. mainQ' = shows \o after
    BY DEF UpdateStockInfo
  <1>4. ASSUME stock # Nil PROVE logo \in Requests /\ pending' = Append(pending, logo)
    BY <1>4, SymbolFacts, RequestForms DEF UpdateStockInfo, Typed
  <1>5. stock = Nil => pending' = pending
    BY DEF UpdateStockInfo
  <1>6. pending' \in Seq(Requests)
    <2>1. pending \in Seq(Requests)
      BY DEF Typed
    <2> HIDE DEF logo
    <2> QED BY <1>4, <1>5, <2>1, AppendParts
  <1> HIDE DEF shows, logo
  <1>7. after = << >> => mainQ' = shows
    BY <1>2, <1>3
  <1>8. after = <<Request>> => mainQ' = Append(shows, Request) /\ mainQ' \in Seq(Blocks)
    BY <1>1, <1>2, <1>3
  <1> QED BY <1>1, <1>2, <1>4, <1>5, <1>6, <1>7, <1>8 DEF shows, logo

\* A request that is answered.
LEMMA Answered ==
    ASSUME Typed, NEW i \in DOMAIN pending
    PROVE  /\ i \in 1 .. Len(pending) /\ pending \in Seq(Requests) /\ pending[i] \in Requests
           /\ Remove(pending, i) \in Seq(Requests)
  <1>1. i \in 1 .. Len(pending) /\ pending \in Seq(Requests)
    BY DEF Typed
  <1> QED BY <1>1, RemoveParts

\* The address of a logo becomes its image.
LEMMA LogoPut ==
    ASSUME Typed, NEW i \in DOMAIN pending, LogoArrives(i)
    PROVE  LET x == [kind |-> "image", of |-> pending[i].of]
           IN  /\ x \in Requests /\ pending' = [pending EXCEPT ![i] = x]
               /\ pending[i].kind = "logo"
  <1>1. i \in 1 .. Len(pending) /\ pending[i] \in Requests /\ pending[i].kind = "logo"
    BY Answered DEF LogoArrives, Arrives
  <1>2. pending[i].of \in Symbols
    BY <1>1, RequestForms
  <1>3. [pending[i] EXCEPT !.kind = "image"] = [kind |-> "image", of |-> pending[i].of]
    BY <1>1, <1>2 DEF Requests
  <1>4. pending' = [pending EXCEPT ![i] = [pending[i] EXCEPT !.kind = "image"]]
    BY DEF LogoArrives
  <1> QED BY <1>1, <1>2, <1>3, <1>4, RequestForms

-----------------------------------------------------------------------------
(* The types. *)

\* Some stocks, in order, are a list of stocks.
LEMMA Filtered ==
    ASSUME NEW l \in Seq(Symbols), NEW r \in Filters(Len(l))
    PROVE  [k \in DOMAIN r |-> l[r[k]]] \in Seq(Symbols)
  <1>1. PICK k \in 0 .. Len(l) : r \in [1 .. k -> 1 .. Len(l)]
    BY DEF Filters
  <1>2. \A j \in 1 .. k : l[r[j]] \in Symbols
    BY <1>1
  <1> QED BY <1>1, <1>2

LEMMA InitTyped == ASSUME Init PROVE Typed
  <1>1. mainQ \in Seq(Blocks) /\ pending \in Seq(Requests)
    BY BlockValues, RequestForms DEF Init
  <1>2. None(pending, Asking({"stock"}))
    BY DEF Init, None, Asking
  <1> QED BY <1>1, <1>2, SymbolFacts, MainValues, BackgroundValues DEF Init, Typed

\* The user's actions keep the types.
LEMMA UserTyped ==
    ASSUME Typed, User
    PROVE  Typed'
  <1>1. ASSUME NEW r \in 0 .. picker.rows - 1, SelectRow(r) PROVE Typed'
    <2>1. picker' \in [rows : Nat, row : Nat \cup {-1}]
      BY <1>1 DEF Typed, SelectRow
    <2>2. mainQ' \in Seq(Blocks)
      BY <1>1, BlockValues, AppendParts DEF Typed, SelectRow, BeginLoadSelected
    <2>3. main' \in MainType /\ main'.step = "read"
      BY <1>1, MainValues DEF SelectRow, BeginLoadSelected
    <2> QED BY <1>1, <2>1, <2>2, <2>3, SymbolFacts
            DEF Typed, SelectRow, Act, BeginLoadSelected, shown
  <1>2. CASE SearchDidEnd
    <2>1. allStocks \in Seq(Symbols)
      BY <1>2, SymbolFacts DEF Typed, SearchDidEnd
    <2>2. suitableStocks' \in StockLists
      BY <1>2, <2>1, Filtered, SymbolFacts DEF SearchDidEnd
    <2>3. mainQ' \in Seq(Blocks)
      BY <1>2, BlockValues, AppendParts DEF Typed, SearchDidEnd
    <2> QED BY <1>2, <2>2, <2>3 DEF Typed, SearchDidEnd, Act, shown, threads
  <1>3. CASE TextCleared
    <2>1. main' \in MainType /\ main'.step = "assign"
      BY <1>3, MainValues DEF Typed, TextCleared
    <2> QED BY <1>3, <2>1 DEF Typed, TextCleared, Act, model, shown
  <1>4. CASE DismissAlert
    BY <1>4 DEF Typed, DismissAlert, model, threads
  <1> QED BY <1>1, <1>2, <1>3, <1>4 DEF User

\* The main thread's actions keep the types.
LEMMA MainTyped ==
    ASSUME Typed, Main
    PROVE  Typed'
  <1>1. CASE ReadSelected
    <2>1. main' \in MainType /\ main'.stock = selectedStock
      BY <1>1, MainValues DEF Typed, ReadSelected
    <2> QED BY <1>1, <2>1 DEF Typed, ReadSelected, model, shown
  <1>2. CASE EndLoadSelected
    <2>1. main.stock \in OrNil(Symbols) /\ main.step = "update"
      BY <1>2, MainValues DEF Typed, EndLoadSelected
    <2>2. main.stock # Nil => symbol # Nil
      BY <2>1 DEF Typed
    <2>3. UpdateStockInfo(main.stock, <<Request>>) /\ main' = Idle
      BY <1>2 DEF EndLoadSelected
    <2>4. mainQ' \in Seq(Blocks) /\ pending' \in Seq(Requests)
      BY <2>1, <2>2, <2>3, UpdatePosts
    <2>5. symbol = Nil => pending' = pending
      BY <2>1, <2>2, <2>3, UpdatePosts
    <2>6. main' \in MainType /\ main'.step = "idle"
      BY <2>3, MainValues
    <2> QED BY <1>2, <2>4, <2>5, <2>6 DEF Typed, EndLoadSelected, model, shown
  <1>3. CASE AssignSuitable
    <2>1. suitableStocks' \in StockLists
      BY <1>3, MainValues DEF Typed, AssignSuitable
    <2>2. mainQ' \in Seq(Blocks)
      BY <1>3, BlockValues, AppendParts DEF Typed, AssignSuitable
    <2>3. main' \in MainType /\ main'.step = "idle"
      BY <1>3, MainValues DEF AssignSuitable
    <2> QED BY <1>3, <2>1, <2>2, <2>3 DEF Typed, AssignSuitable, shown
  <1>4. ASSUME NEW do, NEW on \in BOOLEAN, Spin(do, on) PROVE Typed'
    <2>1. mainQ' \in Seq(Blocks)
      BY <1>4, BlockTaken DEF Spin
    <2> QED BY <1>4, <2>1 DEF Typed, Spin, model, threads
  <1>5. CASE ReloadPicker
    <2>1. mainQ' \in Seq(Blocks)
      <3>1. Tail(mainQ) \in Seq(Blocks)
        BY <1>5, BlockTaken DEF ReloadPicker
      <3> QED BY <1>5, <3>1, BlockValues, AppendParts DEF ReloadPicker, BeginLoadSelected
    <2>2. main' \in MainType /\ main'.step = "read" /\ selectedStock' = Nil
      BY <1>5, MainValues DEF ReloadPicker, BeginLoadSelected
    <2>3. Rows \in Nat /\ picker.row \in Nat \cup {-1}
      BY SymbolFacts DEF Typed, Rows
    <2>4. PICK row \in IF Rows = 0 THEN {-1, 0}
                       ELSE IF picker.row < 0 THEN {0}
                       ELSE IF picker.row < Rows THEN {picker.row} ELSE {Rows - 1} :
               picker' = [rows |-> Rows, row |-> row]
      BY <1>5 DEF ReloadPicker, Rows
    <2>5. picker' \in [rows : Nat, row : Nat \cup {-1}]
      BY <2>3, <2>4
    <2> QED BY <1>5, <2>1, <2>2, <2>5, SymbolFacts DEF Typed, ReloadPicker, shown
  <1>6. CASE SendRequest
    <2>1. mainQ' \in Seq(Blocks)
      BY <1>6, BlockTaken DEF SendRequest
    <2>2. symbol' \in Symbols
      <3>1. suitableStocks \in Seq(Symbols)
        BY <1>6, SymbolFacts DEF Typed, SendRequest, Found
      <3>2. picker.row + 1 \in 1 .. Len(suitableStocks)
        BY <1>6, <3>1 DEF SendRequest, InRange
      <3> QED BY <1>6, <3>1, <3>2 DEF SendRequest
    <2>3. pending' \in Seq(Requests)
      BY <1>6, <2>2, RequestForms, AppendParts DEF Typed, SendRequest
    <2> QED BY <1>6, <2>1, <2>2, <2>3, SymbolFacts DEF Typed, SendRequest, model, shown, threads
  <1>7. CASE NothingToRequest
    <2>1. mainQ' \in Seq(Blocks)
      BY <1>7, BlockTaken DEF NothingToRequest
    <2> QED BY <1>7, <2>1 DEF Typed, NothingToRequest, model, shown, threads
  <1>8. CASE Trap
    BY <1>8 DEF Typed, Trap, model, shown, threads
  <1>9. CASE ShowLabels
    <2>1. mainQ' \in Seq(Blocks) /\ labels' \in OrNil(Symbols)
      BY <1>9, BlockTaken, BlockForms DEF ShowLabels
    <2>2. picture' \in OrNil(Symbols)
      BY <1>9, SymbolFacts DEF Typed, ShowLabels
    <2> QED BY <1>9, <2>1, <2>2 DEF Typed, ShowLabels, model, threads
  <1>10. CASE ShowPicture
    <2>1. mainQ' \in Seq(Blocks) /\ picture' \in OrNil(Symbols)
      BY <1>10, BlockTaken, BlockForms, SymbolFacts DEF ShowPicture
    <2> QED BY <1>10, <2>1 DEF Typed, ShowPicture, model, threads
  <1>11. CASE ShowAlert
    <2>1. mainQ' \in Seq(Blocks)
      BY <1>11, BlockTaken DEF ShowAlert
    <2> QED BY <1>11, <2>1 DEF Typed, ShowAlert, model, threads
  <1> QED BY <1>1, <1>2, <1>3, <1>4, <1>5, <1>6, <1>7, <1>8, <1>9, <1>10, <1>11 DEF Main

\* The delegate queue's actions keep the types.
LEMMA DelegateTyped ==
    ASSUME Typed, Delegate
    PROVE  Typed'
  <1>1. CASE SetSuitable
    <2>1. mainQ' \in Seq(Blocks)
      BY <1>1, BlockValues, AppendParts DEF Typed, SetSuitable
    <2>2. background' \in BackgroundType /\ background'.step = "stop"
      BY <1>1, BackgroundValues DEF SetSuitable
    <2> QED BY <1>1, <2>1, <2>2, SymbolFacts DEF Typed, SetSuitable, shown
  <1>2. CASE ReadArrived
    <2>1. background' \in BackgroundType /\ background'.stock = selectedStock
      BY <1>2, BackgroundValues DEF Typed, ReadArrived
    <2> QED BY <1>2, <2>1 DEF Typed, ReadArrived, model, shown
  <1>3. CASE UpdateArrived
    <2>1. background.stock \in OrNil(Symbols) /\ background.step = "update"
      BY <1>3, BackgroundValues DEF Typed, UpdateArrived
    <2>2. background.stock # Nil => symbol # Nil
      BY <2>1 DEF Typed
    <2>3. UpdateStockInfo(background.stock, << >>) /\ background' = [step |-> "stop"]
      BY <1>3 DEF UpdateArrived
    <2>4. mainQ' \in Seq(Blocks) /\ pending' \in Seq(Requests)
      BY <2>1, <2>2, <2>3, UpdatePosts
    <2>5. symbol = Nil => pending' = pending
      BY <2>1, <2>2, <2>3, UpdatePosts
    <2>6. background' \in BackgroundType /\ background'.step = "stop"
      BY <2>3, BackgroundValues
    <2> QED BY <1>3, <2>4, <2>5, <2>6 DEF Typed, UpdateArrived, model, shown
  <1>4. CASE StopSpinning
    <2>1. mainQ' \in Seq(Blocks)
      BY <1>4, BlockValues, AppendParts DEF Typed, StopSpinning
    <2>2. background' \in BackgroundType /\ background'.step = "idle"
      BY <1>4, BackgroundValues DEF StopSpinning
    <2> QED BY <1>4, <2>1, <2>2 DEF Typed, StopSpinning, model, shown
  <1>5. ASSUME NEW i \in DOMAIN pending, ListArrives(i) PROVE Typed'
    <2>1. pending' \in Seq(Requests)
      BY <1>5, Answered DEF ListArrives
    <2>2. None(pending, Asking({"stock"})) => None(pending', Asking({"stock"}))
      BY <1>5, Answered, RemoveNone DEF ListArrives
    <2>3. background' \in BackgroundType /\ background'.step = "suitable"
      BY <1>5, BackgroundValues DEF ListArrives
    <2>4. history' \in [overtaken : BOOLEAN, noPicture : BOOLEAN]
      BY <1>5 DEF Typed, ListArrives, Arrives
    <2> QED BY <1>5, <2>1, <2>2, <2>3, <2>4, SymbolFacts DEF Typed, ListArrives, shown
  <1>6. ASSUME NEW i \in DOMAIN pending, StockArrives(i) PROVE Typed'
    <2>1. pending' \in Seq(Requests) /\ pending[i] \in Requests /\ pending[i].kind = "stock"
      BY <1>6, Answered DEF StockArrives, Arrives
    <2>2. symbol # Nil
      BY <2>1, Answered DEF Typed, None, Asking
    <2>3. background' \in BackgroundType /\ background'.step = "read"
      BY <1>6, BackgroundValues DEF StockArrives
    <2>4. history' \in [overtaken : BOOLEAN, noPicture : BOOLEAN]
      BY <1>6 DEF Typed, StockArrives, Arrives
    <2>5. selectedStock' \in OrNil(Symbols)
      BY <1>6, <2>1, RequestForms, SymbolFacts DEF StockArrives
    <2>6. mainQ' \in Seq(Blocks)
      <3>1. mainQ \in Seq(Blocks) /\ Append(mainQ, Alert) \in Seq(Blocks)
        BY BlockValues, AppendParts DEF Typed
      <3> QED BY <1>6, <3>1 DEF StockArrives
    <2> QED BY <1>6, <2>1, <2>2, <2>3, <2>4, <2>5, <2>6 DEF Typed, StockArrives, shown
  <1>7. ASSUME NEW i \in DOMAIN pending, LogoArrives(i) PROVE Typed'
    <2> DEFINE x == [kind |-> "image", of |-> pending[i].of]
    <2>1. x \in Requests /\ pending' = [pending EXCEPT ![i] = x] /\ pending[i].kind = "logo"
      BY <1>7, LogoPut
    <2>2. x \notin Asking({"stock"}) /\ pending[i] \notin Asking({"stock"})
      BY <2>1 DEF Asking
    <2> HIDE DEF x
    <2>3. /\ pending' \in Seq(Requests)
          /\ None(pending', Asking({"stock"})) <=> None(pending, Asking({"stock"}))
      BY <2>1, <2>2, Answered, PutParts
    <2>4. history' \in [overtaken : BOOLEAN, noPicture : BOOLEAN]
      BY <1>7 DEF Typed, LogoArrives, Arrives
    <2> QED BY <1>7, <2>3, <2>4 DEF Typed, LogoArrives, model, shown, threads
  <1>8. ASSUME NEW i \in DOMAIN pending, ImageArrives(i) PROVE Typed'
    <2>1. pending' \in Seq(Requests) /\ pending[i] \in Requests /\ pending[i].kind = "image"
      BY <1>8, Answered DEF ImageArrives, Arrives
    <2>2. None(pending, Asking({"stock"})) => None(pending', Asking({"stock"}))
      BY <1>8, Answered, RemoveNone DEF ImageArrives
    <2>3. mainQ' \in Seq(Blocks)
      BY <1>8, <2>1, RequestForms, BlockValues, AppendParts DEF Typed, ImageArrives
    <2>4. history' \in [overtaken : BOOLEAN, noPicture : BOOLEAN]
      BY <1>8 DEF Typed, ImageArrives, Arrives
    <2> QED BY <1>8, <2>1, <2>2, <2>3, <2>4 DEF Typed, ImageArrives, model, shown, threads
  <1>9. ASSUME NEW i \in DOMAIN pending, NoPicture(i) PROVE Typed'
    <2>1. pending' \in Seq(Requests)
      BY <1>9, Answered DEF NoPicture
    <2>2. None(pending, Asking({"stock"})) => None(pending', Asking({"stock"}))
      BY <1>9, Answered, RemoveNone DEF NoPicture
    <2>3. mainQ' \in Seq(Blocks)
      BY <1>9, BlockValues, AppendParts DEF Typed, NoPicture
    <2>4. history' \in [overtaken : BOOLEAN, noPicture : BOOLEAN]
      BY <1>9 DEF Typed, NoPicture
    <2> QED BY <1>9, <2>1, <2>2, <2>3, <2>4 DEF Typed, NoPicture, model, shown, threads
  <1> QED BY <1>1, <1>2, <1>3, <1>4, <1>5, <1>6, <1>7, <1>8, <1>9 DEF Delegate

LEMMA StepTyped == ASSUME Typed, [Next]_vars PROVE Typed'
  <1>1. CASE UNCHANGED vars
    BY <1>1 DEF Typed, vars, model, shown, threads
  <1> QED BY <1>1, UserTyped, MainTyped, DelegateTyped DEF Next

-----------------------------------------------------------------------------
(* What a step leaves in the queues. *)

LEMMA PostNone ==
    ASSUME NEW q \in Seq(Blocks), NEW b \in Blocks, NEW K
    PROVE  None(Append(q, b), Doing(K)) <=> None(q, Doing(K)) /\ b.do \notin K
  <1>1. b \in Doing(K) <=> b.do \in K
    BY DEF Doing
  <1> QED BY <1>1, AppendNone

LEMMA TakeNone ==
    ASSUME Typed, NEW do, Block(do), NEW K
    PROVE  None(mainQ, Doing(K)) <=> do \notin K /\ None(Tail(mainQ), Doing(K))
  <1>1. /\ mainQ \in Seq(Blocks) /\ mainQ # << >> /\ Head(mainQ) \in Blocks
        /\ Head(mainQ).do = do
    BY BlockTaken
  <1>2. Head(mainQ) \in Doing(K) <=> do \in K
    BY <1>1 DEF Doing
  <1> QED BY <1>1, <1>2, TailNone

LEMMA AskNone ==
    ASSUME Typed, NEW r \in Requests, NEW K
    PROVE  None(Append(pending, r), Asking(K)) <=> None(pending, Asking(K)) /\ r.kind \notin K
  <1>1. r \in Asking(K) <=> r.kind \in K
    BY DEF Asking
  <1>2. pending \in Seq(Requests)
    BY DEF Typed
  <1> QED BY <1>1, <1>2, AppendNone

LEMMA AnswerNone ==
    ASSUME Typed, NEW i \in DOMAIN pending, NEW K
    PROVE  None(pending, Asking(K)) <=>
               pending[i].kind \notin K /\ None(Remove(pending, i), Asking(K))
  <1>1. i \in 1 .. Len(pending) /\ pending \in Seq(Requests) /\ pending[i] \in Requests
    BY Answered
  <1>2. pending[i] \in Asking(K) <=> pending[i].kind \in K
    BY <1>1 DEF Asking
  <1> QED BY <1>1, <1>2, RemoveNone

LEMMA LogoNone ==
    ASSUME Typed, NEW i \in DOMAIN pending, LogoArrives(i), NEW K, "logo" \in K <=> "image" \in K
    PROVE  None(pending', Asking(K)) <=> None(pending, Asking(K))
  <1> DEFINE x == [kind |-> "image", of |-> pending[i].of]
  <1>1. /\ x \in Requests /\ pending' = [pending EXCEPT ![i] = x]
        /\ pending[i].kind = "logo" /\ x.kind = "image"
    BY LogoPut
  <1>2. i \in 1 .. Len(pending) /\ pending \in Seq(Requests) /\ pending[i] \in Requests
    BY Answered
  <1> HIDE DEF x
  <1>3. x \in Asking(K) <=> pending[i] \in Asking(K)
    BY <1>1, <1>2 DEF Asking
  <1> QED BY <1>1, <1>2, <1>3, PutParts

\* Nothing happens in a process that is dead.
LEMMA StaysDead == ASSUME [Next]_vars, ~alive PROVE ~alive'
  <1>1. CASE User
    BY <1>1 DEF User, SelectRow, SearchDidEnd, TextCleared, DismissAlert, Act, MainIdle
  <1>2. CASE Main
    BY <1>2 DEF Main, ReadSelected, EndLoadSelected, AssignSuitable, Spin, ReloadPicker,
                SendRequest, NothingToRequest, Trap, ShowLabels, ShowPicture, ShowAlert,
                Block, MainIdle
  <1>3. CASE Delegate
    BY <1>3 DEF Delegate, SetSuitable, ReadArrived, UpdateArrived, StopSpinning, ListArrives,
                StockArrives, LogoArrives, ImageArrives, NoPicture, Arrives
  <1>4. CASE UNCHANGED vars
    BY <1>4 DEF vars
  <1> QED BY <1>1, <1>2, <1>3, <1>4 DEF Next

\* suitableStocks changes only together with a reload of the picker.
LEMMA SuitableReloads ==
    ASSUME Typed, [Next]_vars, suitableStocks' # suitableStocks
    PROVE  ~None(mainQ', Doing({"reload"}))
  <1>1. mainQ' = Append(mainQ, Reload)
    <2>1. CASE User
      BY <2>1 DEF User, SelectRow, SearchDidEnd, TextCleared, DismissAlert, model
    <2>2. CASE Main
      BY <2>2 DEF Main, ReadSelected, EndLoadSelected, AssignSuitable, Spin, ReloadPicker,
                  SendRequest, NothingToRequest, Trap, ShowLabels, ShowPicture, ShowAlert, model
    <2>3. CASE Delegate
      BY <2>3 DEF Delegate, SetSuitable, ReadArrived, UpdateArrived, StopSpinning, ListArrives,
                  StockArrives, LogoArrives, ImageArrives, NoPicture, model
    <2>4. CASE UNCHANGED vars
      BY <2>4 DEF vars, model
    <2> QED BY <2>1, <2>2, <2>3, <2>4 DEF Next
  <1> QED BY <1>1, BlockValues, PostNone DEF Typed

\* Only the user and the picker's reload select a row.
LEMMA PickerStays ==
    ASSUME [Next]_vars, ~ReloadPicker, \A r \in 0 .. picker.rows - 1 : ~SelectRow(r)
    PROVE  picker' = picker
  <1>1. CASE User
    BY <1>1 DEF User, SearchDidEnd, TextCleared, DismissAlert
  <1>2. CASE Main
    BY <1>2 DEF Main, ReadSelected, EndLoadSelected, AssignSuitable, Spin,
                SendRequest, NothingToRequest, Trap, ShowLabels, ShowPicture, ShowAlert
  <1>3. CASE Delegate
    BY <1>3 DEF Delegate, SetSuitable, ReadArrived, UpdateArrived, StopSpinning, ListArrives,
                StockArrives, LogoArrives, ImageArrives, NoPicture
  <1>4. CASE UNCHANGED vars
    BY <1>4 DEF vars
  <1> QED BY <1>1, <1>2, <1>3, <1>4 DEF Next

\* A reload or a request that was posted is there until it is taken.
LEMMA BlocksStay ==
    ASSUME Typed, [Next]_vars, NEW K, K \subseteq {"reload", "request"},
           ~None(mainQ, Doing(K))
    PROVE  \/ ~None(mainQ', Doing(K))
           \/ "reload" \in K /\ ReloadPicker
           \/ "request" \in K /\ (SendRequest \/ NothingToRequest)
  <1>0. mainQ \in Seq(Blocks)
    BY DEF Typed
  <1>1. ASSUME NEW b \in Blocks, mainQ' = Append(mainQ, b) PROVE ~None(mainQ', Doing(K))
    BY <1>0, <1>1, PostNone
  <1>2. ASSUME NEW do, Block(do), mainQ' = Tail(mainQ), do \notin {"reload", "request"}
        PROVE  ~None(mainQ', Doing(K))
    BY <1>2, TakeNone
  <1>3. CASE User
    BY <1>1, <1>3, BlockValues
       DEF User, SelectRow, SearchDidEnd, TextCleared, DismissAlert, BeginLoadSelected
  <1>4. CASE EndLoadSelected
    <2>1. main.stock \in OrNil(Symbols) /\ (main.stock # Nil => symbol # Nil)
      BY <1>4, MainValues DEF Typed, EndLoadSelected
    <2> DEFINE shows == Append(mainQ, Labels(main.stock))
    <2>2. mainQ' = Append(shows, Request) /\ shows \in Seq(Blocks) /\ Labels(main.stock) \in Blocks
      BY <1>4, <2>1, UpdatePosts DEF EndLoadSelected
    <2>3. ~None(shows, Doing(K))
      BY <1>0, <2>2, PostNone
    <2> HIDE DEF shows
    <2> QED BY <2>2, <2>3, BlockValues, PostNone
  <1>5. CASE ReloadPicker
    <2> DEFINE rest == Tail(mainQ)
    <2>1. Block("reload") /\ mainQ' = Append(rest, Start)
      BY <1>5 DEF ReloadPicker, BeginLoadSelected
    <2>2. "reload" \in K \/ ~None(rest, Doing(K))
      BY <2>1, TakeNone
    <2>3. rest \in Seq(Blocks)
      BY <2>1, BlockTaken
    <2> HIDE DEF rest
    <2> QED BY <1>5, <2>1, <2>2, <2>3, BlockValues, PostNone
  <1>6. CASE SendRequest \/ NothingToRequest
    <2>1. Block("request") /\ mainQ' = Tail(mainQ)
      BY <1>6 DEF SendRequest, NothingToRequest
    <2> QED BY <1>6, <2>1, TakeNone
  <1>7. CASE \/ Spin("start", TRUE) \/ Spin("stop", FALSE)
             \/ ShowLabels \/ ShowPicture \/ ShowAlert
    BY <1>2, <1>7 DEF Spin, ShowLabels, ShowPicture, ShowAlert
  <1>8. CASE ReadSelected \/ AssignSuitable \/ Trap
    BY <1>1, <1>8, BlockValues DEF ReadSelected, AssignSuitable, Trap
  <1>9. CASE SetSuitable \/ ReadArrived \/ StopSpinning
    BY <1>1, <1>9, BlockValues DEF SetSuitable, ReadArrived, StopSpinning
  <1>10. CASE UpdateArrived
    <2>1. background.stock \in OrNil(Symbols) /\ (background.stock # Nil => symbol # Nil)
      BY <1>10, BackgroundValues DEF Typed, UpdateArrived
    <2>2. mainQ' = Append(mainQ, Labels(background.stock)) /\ Labels(background.stock) \in Blocks
      BY <1>10, <2>1, UpdatePosts DEF UpdateArrived
    <2> QED BY <1>1, <2>2
  <1>11. ASSUME NEW i \in DOMAIN pending,
                \/ ListArrives(i) \/ StockArrives(i) \/ LogoArrives(i)
                \/ ImageArrives(i) \/ NoPicture(i)
         PROVE  ~None(mainQ', Doing(K))
    <2>1. ImageArrives(i) => Picture(pending[i].of) \in Blocks
      BY Answered, RequestForms, BlockValues DEF ImageArrives, Arrives
    <2> QED BY <1>1, <1>11, <2>1, BlockValues
            DEF ListArrives, StockArrives, LogoArrives, ImageArrives, NoPicture
  <1>12. CASE UNCHANGED vars
    BY <1>12 DEF vars
  <1> QED BY <1>3, <1>4, <1>5, <1>6, <1>7, <1>8, <1>9, <1>10, <1>11, <1>12
          DEF Next, Main, Delegate

\* The main thread goes on with a selection until it posts the request.
LEMMA MainStays ==
    ASSUME [Next]_vars, main.step \in {"read", "update"}, ~EndLoadSelected
    PROVE  main'.step \in {"read", "update"}
  <1>1. main # Idle /\ main.step # "assign"
    BY DEF Idle
  <1>2. ~MainIdle /\ \A do : ~Block(do)
    BY <1>1 DEF MainIdle, Block
  <1>3. CASE User
    BY <1>2, <1>3 DEF User, SelectRow, SearchDidEnd, TextCleared, DismissAlert, Act
  <1>4. CASE Main
    BY <1>1, <1>2, <1>4
       DEF Main, ReadSelected, AssignSuitable, Spin, ReloadPicker, SendRequest,
           NothingToRequest, Trap, ShowLabels, ShowPicture, ShowAlert
  <1>5. CASE Delegate
    BY <1>5 DEF Delegate, SetSuitable, ReadArrived, UpdateArrived, StopSpinning, ListArrives,
                StockArrives, LogoArrives, ImageArrives, NoPicture, threads
  <1>6. CASE UNCHANGED vars
    BY <1>6 DEF vars, threads
  <1> QED BY <1>3, <1>4, <1>5, <1>6 DEF Next

\* A request for the list or for a stock is under way until it is answered.
LEMMA RequestsStay ==
    ASSUME Typed, [Next]_vars, NEW K, K \subseteq {"list", "stock"}, ~None(pending, Asking(K))
    PROVE  \/ ~None(pending', Asking(K))
           \/ \E i \in DOMAIN pending : \/ "list" \in K /\ ListArrives(i)
                                        \/ "stock" \in K /\ StockArrives(i)
  <1>1. ASSUME NEW r \in Requests, pending' = Append(pending, r)
        PROVE  ~None(pending', Asking(K))
    BY <1>1, AskNone
  <1>2. CASE User
    BY <1>2 DEF User, SelectRow, SearchDidEnd, TextCleared, DismissAlert
  <1>3. CASE EndLoadSelected
    <2>1. main.stock \in OrNil(Symbols) /\ (main.stock # Nil => symbol # Nil)
      BY <1>3, MainValues DEF Typed, EndLoadSelected
    <2> DEFINE logo == [kind |-> "logo", of |-> symbol]
    <2>2. pending' = pending \/ (logo \in Requests /\ pending' = Append(pending, logo))
      BY <1>3, <2>1, UpdatePosts DEF EndLoadSelected
    <2> HIDE DEF logo
    <2> QED BY <1>1, <2>2
  <1>4. CASE UpdateArrived
    <2>1. background.stock \in OrNil(Symbols) /\ (background.stock # Nil => symbol # Nil)
      BY <1>4, BackgroundValues DEF Typed, UpdateArrived
    <2> DEFINE logo == [kind |-> "logo", of |-> symbol]
    <2>2. pending' = pending \/ (logo \in Requests /\ pending' = Append(pending, logo))
      BY <1>4, <2>1, UpdatePosts DEF UpdateArrived
    <2> HIDE DEF logo
    <2> QED BY <1>1, <2>2
  <1>5. CASE SendRequest
    <2> DEFINE r == [kind |-> "stock", of |-> symbol']
    <2>1. suitableStocks \in Seq(Symbols)
      BY <1>5, SymbolFacts DEF Typed, SendRequest, Found
    <2>2. picker.row + 1 \in 1 .. Len(suitableStocks)
      BY <1>5, <2>1 DEF SendRequest, InRange
    <2>3. symbol' \in Symbols
      BY <1>5, <2>1, <2>2 DEF SendRequest
    <2>4. r \in Requests /\ pending' = Append(pending, r)
      BY <1>5, <2>3, RequestForms DEF SendRequest
    <2> HIDE DEF r
    <2> QED BY <1>1, <2>4
  <1>6. CASE Main /\ ~EndLoadSelected /\ ~SendRequest
    BY <1>6 DEF Main, ReadSelected, AssignSuitable, Spin, ReloadPicker,
                NothingToRequest, Trap, ShowLabels, ShowPicture, ShowAlert
  <1>7. CASE SetSuitable \/ ReadArrived \/ StopSpinning
    BY <1>7 DEF SetSuitable, ReadArrived, StopSpinning
  <1>8. ASSUME NEW i \in DOMAIN pending, ListArrives(i) \/ StockArrives(i)
        PROVE  \/ ~None(pending', Asking(K))
               \/ "list" \in K /\ ListArrives(i)
               \/ "stock" \in K /\ StockArrives(i)
    BY <1>8, AnswerNone DEF ListArrives, StockArrives, Arrives
  <1>9. ASSUME NEW i \in DOMAIN pending, LogoArrives(i) PROVE ~None(pending', Asking(K))
    BY <1>9, LogoNone
  <1>10. ASSUME NEW i \in DOMAIN pending, ImageArrives(i) \/ NoPicture(i)
         PROVE  ~None(pending', Asking(K))
    <2>1. pending' = Remove(pending, i) /\ pending[i].kind \in {"logo", "image"}
      BY <1>10 DEF ImageArrives, NoPicture, Arrives, Picturing
    <2> QED BY <2>1, AnswerNone
  <1>11. CASE UNCHANGED vars
    BY <1>11 DEF vars
  <1> QED BY <1>2, <1>3, <1>4, <1>5, <1>6, <1>7, <1>8, <1>9, <1>10, <1>11 DEF Next, Delegate

\* A completion handler goes on to its end.
LEMMA BackgroundStays ==
    ASSUME [Next]_vars, background.step \in {"suitable", "read", "update", "stop"}
    PROVE  \/ background'.step \in {"suitable", "read", "update", "stop"}
              /\ (background.step = "suitable" => background'.step = "suitable" \/ SetSuitable)
           \/ StopSpinning
  <1>1. background # Idle
    BY DEF Idle
  <1>2. CASE User
    BY <1>2 DEF User, SelectRow, SearchDidEnd, TextCleared, DismissAlert, threads
  <1>3. CASE Main
    BY <1>3
       DEF Main, ReadSelected, EndLoadSelected, AssignSuitable, Spin, ReloadPicker, SendRequest,
           NothingToRequest, Trap, ShowLabels, ShowPicture, ShowAlert, threads
  <1>4. CASE Delegate
    BY <1>1, <1>4 DEF Delegate, SetSuitable, ReadArrived, UpdateArrived, StopSpinning,
                      ListArrives, StockArrives, LogoArrives, ImageArrives, NoPicture, Arrives
  <1>5. CASE UNCHANGED vars
    BY <1>5 DEF vars, threads
  <1> QED BY <1>2, <1>3, <1>4, <1>5 DEF Next

-----------------------------------------------------------------------------
(* The picker. *)

LEMMA StepListing == ASSUME Typed, Listing, [Next]_vars PROVE Listing'
  <1>0. /\ Rows \in Nat /\ picker.row \in Nat \cup {-1} /\ picker.rows \in Nat
    BY SymbolFacts DEF Typed, Rows
  <1>1. ASSUME None(mainQ', Doing({"reload"})) PROVE Rows' = Rows
    BY <1>1, SuitableReloads DEF Rows
  <1>2. CASE ReloadPicker
    <2>1. PICK row \in IF Rows = 0 THEN {-1, 0}
                       ELSE IF picker.row < 0 THEN {0}
                       ELSE IF picker.row < Rows THEN {picker.row} ELSE {Rows - 1} :
               picker' = [rows |-> Rows, row |-> row]
      BY <1>2 DEF ReloadPicker, Rows
    <2>2. picker'.rows = Rows /\ picker'.row = row
      BY <2>1
    <2>3. row < Rows \/ (Rows = 0 /\ row <= 0)
      BY <1>0, <2>1
    <2>4. Rows' = Rows
      BY <1>2 DEF ReloadPicker, Rows
    <2> QED BY <2>2, <2>3, <2>4 DEF Listing
  <1>3. CASE ~ReloadPicker
    <2>1. None(mainQ', Doing({"reload"})) => None(mainQ, Doing({"reload"}))
      BY <1>3, BlocksStay
    <2>2. picker'.rows = picker.rows /\ (picker'.row = picker.row \/ picker'.row < picker.rows)
      <3>1. ASSUME NEW r \in 0 .. picker.rows - 1, SelectRow(r)
            PROVE  picker'.rows = picker.rows /\ picker'.row < picker.rows
        BY <1>0, <3>1 DEF Typed, SelectRow
      <3>2. ASSUME \A r \in 0 .. picker.rows - 1 : ~SelectRow(r) PROVE picker' = picker
        BY <1>3, <3>2, PickerStays
      <3> QED BY <3>1, <3>2
    <2> QED BY <1>1, <2>1, <2>2 DEF Listing
  <1> QED BY <1>2, <1>3

\* A request that asks for nothing finds no stocks, or a picker to be reloaded.
LEMMA NothingListed ==
    ASSUME Typed, Listing, NothingToRequest
    PROVE  suitableStocks = << >> \/ ~None(mainQ, Doing({"reload"}))
  <1> SUFFICES ASSUME suitableStocks # << >>, None(mainQ, Doing({"reload"}))
               PROVE  FALSE
    OBVIOUS
  <1>1. suitableStocks # Nil /\ ~(picker.row <= Len(suitableStocks))
    BY DEF NothingToRequest, Found
  <1>2. suitableStocks \in Seq(Symbols)
    BY <1>1, SymbolFacts DEF Typed
  <1>3. picker.rows = Len(suitableStocks) /\ Len(suitableStocks) \in Nat
    BY <1>1, <1>2 DEF Listing, Rows
  <1> QED BY <1>1, <1>3 DEF Listing, Typed

-----------------------------------------------------------------------------
(* The activity indicator. *)

\* The indicator is waited for until the answer's or the selection's last step.
LEMMA BusyStays ==
    ASSUME Typed, Listing, [Next]_vars, Busy, ~Busy'
    PROVE  EndLoadSelected \/ StopSpinning
  <1> SUFFICES ASSUME ~EndLoadSelected, ~StopSpinning PROVE FALSE
    OBVIOUS
  <1>1. alive /\ alive'
    BY StaysDead DEF Busy
  <1>2. suitableStocks' = suitableStocks /\ suitableStocks # << >>
    BY SuitableReloads DEF Busy
  <1>3. main.step \notin {"read", "update"}
    BY MainStays DEF Busy
  <1>4. None(mainQ, Doing({"reload"}))
    <2> SUFFICES ASSUME ~None(mainQ, Doing({"reload"})) PROVE FALSE
      OBVIOUS
    <2>1. ReloadPicker
      BY BlocksStay DEF Busy
    <2> QED BY <2>1 DEF ReloadPicker, BeginLoadSelected, Busy
  <1>5. background \in BackgroundType /\ background' \in BackgroundType
    BY StepTyped DEF Typed
  <1>6. background.step = "idle"
    BY <1>5, BackgroundStays, BackgroundValues DEF Busy
  <1>7. None(pending, Asking({"list", "stock"}))
    <2> SUFFICES ASSUME ~None(pending, Asking({"list", "stock"})) PROVE FALSE
      OBVIOUS
    <2>1. PICK i \in DOMAIN pending : ListArrives(i) \/ StockArrives(i)
      BY RequestsStay DEF Busy
    <2> QED BY <2>1 DEF ListArrives, StockArrives, Busy
  <1> QED BY <1>1, <1>2, <1>3, <1>4, <1>6, <1>7 DEF Busy

Halts == Doing({"stop", "request"})
Starts == Doing({"start"})

\* A posted stop or request halts all that was started before.
LEMMA PostHalt ==
    ASSUME NEW q \in Seq(Blocks), NEW b \in Blocks, b.do \in {"stop", "request"}
    PROVE  ~None(Append(q, b), Halts) /\ Followed(Append(q, b), Starts, Halts)
  <1>1. b \notin Starts /\ b \in Halts
    BY DEF Starts, Halts, Doing
  <1> QED BY <1>1, AppendNone, AppendFollowed

\* Any other block than a start leaves it halted.
LEMMA PostOther ==
    ASSUME NEW q \in Seq(Blocks), NEW b \in Blocks, b.do # "start"
    PROVE  /\ ~None(q, Halts) => ~None(Append(q, b), Halts)
           /\ Followed(q, Starts, Halts) => Followed(Append(q, b), Starts, Halts)
  <1>1. b \notin Starts
    BY DEF Starts, Doing
  <1> QED BY <1>1, AppendNone, AppendFollowed

LEMMA StepStopping == ASSUME Typed, Listing, Stopping, [Next]_vars PROVE Stopping'
  <1> SUFFICES ASSUME ~Busy'
               PROVE  /\ spinning' => ~None(mainQ', Halts)
                      /\ Followed(mainQ', Starts, Halts)
    BY DEF Stopping, Halts, Starts
  <1>0. mainQ \in Seq(Blocks)
    BY DEF Typed
  <1>1. CASE StopSpinning
    BY <1>0, <1>1, BlockValues, PostHalt DEF StopSpinning
  <1>2. CASE EndLoadSelected
    <2>1. main.stock \in OrNil(Symbols) /\ (main.stock # Nil => symbol # Nil)
      BY <1>2, MainValues DEF Typed, EndLoadSelected
    <2> DEFINE shows == Append(mainQ, Labels(main.stock))
    <2>2. mainQ' = Append(shows, Request) /\ shows \in Seq(Blocks)
      BY <1>2, <2>1, UpdatePosts DEF EndLoadSelected
    <2> HIDE DEF shows
    <2> QED BY <2>2, BlockValues, PostHalt
  <1>3. CASE ~StopSpinning /\ ~EndLoadSelected
    <2>1. ~Busy
      BY <1>3, BusyStays
    <2>2. (spinning => ~None(mainQ, Halts)) /\ Followed(mainQ, Starts, Halts)
      BY <2>1 DEF Stopping, Halts, Starts
    <2>3. ASSUME NEW b \in Blocks, b.do # "start", mainQ' = Append(mainQ, b), spinning' = spinning
          PROVE  (spinning' => ~None(mainQ', Halts)) /\ Followed(mainQ', Starts, Halts)
      BY <1>0, <2>2, <2>3, PostOther
    <2>4. ASSUME NEW do, Block(do), mainQ' = Tail(mainQ), do \notin {"start", "stop", "request"},
                 spinning' = spinning
          PROVE  (spinning' => ~None(mainQ', Halts)) /\ Followed(mainQ', Starts, Halts)
      <3>1. mainQ # << >>
        BY <2>4, BlockTaken
      <3>2. None(mainQ, Halts) <=> None(Tail(mainQ), Halts)
        BY <2>4, TakeNone DEF Halts
      <3>3. Followed(Tail(mainQ), Starts, Halts)
        BY <1>0, <2>2, <3>1, TailFollowed
      <3> QED BY <2>2, <2>4, <3>2, <3>3
    <2>5. ASSUME mainQ' = mainQ, spinning' = spinning
          PROVE  (spinning' => ~None(mainQ', Halts)) /\ Followed(mainQ', Starts, Halts)
      BY <2>2, <2>5
    <2>6. CASE User
      <3>1. ASSUME NEW r \in 0 .. picker.rows - 1, SelectRow(r) PROVE FALSE
        BY <3>1 DEF SelectRow, BeginLoadSelected, Busy
      <3>2. CASE SearchDidEnd
        BY <2>3, <3>2, BlockValues DEF SearchDidEnd, shown
      <3>3. CASE TextCleared \/ DismissAlert
        BY <2>5, <3>3 DEF TextCleared, DismissAlert, shown
      <3> QED BY <2>6, <3>1, <3>2, <3>3 DEF User
    <2>7. CASE ReadSelected \/ ReloadPicker
      BY <2>7 DEF ReadSelected, ReloadPicker, BeginLoadSelected, Busy
    <2>8. CASE AssignSuitable
      BY <2>3, <2>8, BlockValues DEF AssignSuitable, shown
    <2>9. CASE Spin("start", TRUE) \/ Spin("stop", FALSE)
      <3>1. PICK do \in {"start", "stop"} : /\ Block(do) /\ mainQ' = Tail(mainQ)
                                            /\ spinning' <=> do = "start"
        BY <2>9 DEF Spin
      <3>2. /\ mainQ # << >> /\ Head(mainQ) \in Blocks /\ Head(mainQ).do = do
        BY <3>1, BlockTaken
      <3>3. do = "start" => Head(mainQ) \in Starts
        BY <3>2 DEF Starts, Doing
      <3> QED BY <1>0, <2>2, <3>1, <3>2, <3>3, TailFollowed
    <2>10. CASE SendRequest
      <3> DEFINE r == [kind |-> "stock", of |-> symbol']
      <3>1. suitableStocks \in Seq(Symbols)
        BY <2>10, SymbolFacts DEF Typed, SendRequest, Found
      <3>2. picker.row + 1 \in 1 .. Len(suitableStocks)
        BY <2>10, <3>1 DEF SendRequest, InRange
      <3>3. symbol' \in Symbols
        BY <2>10, <3>1, <3>2 DEF SendRequest
      <3>4. r \in Requests /\ pending' = Append(pending, r) /\ r.kind = "stock"
        BY <2>10, <3>3, RequestForms DEF SendRequest
      <3> HIDE DEF r
      <3>5. ~None(pending', Asking({"list", "stock"}))
        BY <3>4, AskNone
      <3> QED BY <3>5 DEF Busy
    <2>11. CASE NothingToRequest
      BY <2>1, <2>11, NothingListed DEF Busy
    <2>12. CASE Trap
      BY <2>12 DEF Trap, Busy
    <2>13. CASE ShowLabels \/ ShowPicture \/ ShowAlert
      BY <2>4, <2>13 DEF ShowLabels, ShowPicture, ShowAlert
    <2>14. CASE SetSuitable \/ ReadArrived \/ UpdateArrived
      BY <2>1, <2>14 DEF SetSuitable, ReadArrived, UpdateArrived, Busy
    <2>15. ASSUME NEW i \in DOMAIN pending, ListArrives(i) \/ StockArrives(i) PROVE FALSE
      BY <2>15 DEF ListArrives, StockArrives, Busy
    <2>16. ASSUME NEW i \in DOMAIN pending, LogoArrives(i) \/ ImageArrives(i) \/ NoPicture(i)
           PROVE  (spinning' => ~None(mainQ', Halts)) /\ Followed(mainQ', Starts, Halts)
      <3>1. ImageArrives(i) => /\ Picture(pending[i].of) \in Blocks
                               /\ Picture(pending[i].of).do = "picture"
        BY Answered, RequestForms, BlockValues DEF ImageArrives, Arrives
      <3> QED BY <2>3, <2>5, <2>16, <3>1, BlockValues
              DEF LogoArrives, ImageArrives, NoPicture, shown
    <2>17. CASE UNCHANGED vars
      BY <2>5, <2>17 DEF vars, shown
    <2> QED BY <1>3, <2>6, <2>7, <2>8, <2>9, <2>10, <2>11, <2>12, <2>13, <2>14, <2>15, <2>16, <2>17
            DEF Next, Main, Delegate
  <1> QED BY <1>1, <1>2, <1>3

-----------------------------------------------------------------------------
(* Labels and picture. *)

\* The next block is run.
LEMMA LabelledTail ==
    ASSUME Typed, NEW do, Block(do), NEW s, Labelled(mainQ, labels, s)
    PROVE  /\ do = "labels" => Labelled(Tail(mainQ), Head(mainQ).stock, s)
           /\ do # "labels" => Labelled(Tail(mainQ), labels, s)
  <1>1. /\ mainQ \in Seq(Blocks) /\ mainQ # << >> /\ Head(mainQ) \in Blocks
        /\ Head(mainQ).do = do
    BY BlockTaken
  <1>2. Head(mainQ) \in Doing({"labels"}) <=> do = "labels"
    BY <1>1 DEF Doing
  <1>3. CASE Ends(mainQ, Doing({"labels"}), {Labels(s)})
    <2>1. CASE Ends(Tail(mainQ), Doing({"labels"}), {Labels(s)})
      BY <2>1 DEF Labelled
    <2>2. CASE Head(mainQ) = Labels(s) /\ None(Tail(mainQ), Doing({"labels"}))
      BY <1>1, <2>2 DEF Labelled, Labels
    <2> QED BY <1>1, <1>3, <2>1, <2>2, TailEnds
  <1>4. CASE None(mainQ, Doing({"labels"})) /\ labels = s
    BY <1>1, <1>2, <1>4, TailNone DEF Labelled
  <1> QED BY <1>3, <1>4 DEF Labelled

LEMMA PicturedTail ==
    ASSUME Typed, NEW do, Block(do), NEW s, Pictured(pending, mainQ, picture, s)
    PROVE  /\ do = "picture" => Pictured(pending, Tail(mainQ), Head(mainQ).of, s)
           /\ do = "labels" =>
                Pictured(pending, Tail(mainQ),
                         IF Head(mainQ).stock = Nil THEN Nil ELSE picture, s)
           /\ do \notin {"labels", "picture"} => Pictured(pending, Tail(mainQ), picture, s)
  <1>1. /\ mainQ \in Seq(Blocks) /\ mainQ # << >> /\ Head(mainQ) \in Blocks
        /\ Head(mainQ).do = do
    BY BlockTaken
  <1>2. CASE Ends(pending, PictureRequests, AskingFor({"logo", "image"}, s))
    BY <1>2 DEF Pictured
  <1>3. CASE None(pending, PictureRequests) /\ Ends(mainQ, Pictures, {Picture(s)})
    <2>1. CASE Ends(Tail(mainQ), Pictures, {Picture(s)})
      BY <1>3, <2>1 DEF Pictured
    <2>2. CASE Head(mainQ) = Picture(s) /\ None(Tail(mainQ), Pictures)
      <3>1. do = "picture" /\ Head(mainQ).of = s
        BY <1>1, <2>2 DEF Picture
      <3> QED BY <1>3, <2>2, <3>1 DEF Pictured
    <2> QED BY <1>1, <1>3, <2>1, <2>2, TailEnds
  <1>4. CASE None(pending, PictureRequests) /\ None(mainQ, Pictures) /\ picture = s
    <2>1. Head(mainQ) \notin Pictures /\ None(Tail(mainQ), Pictures)
      BY <1>1, <1>4, TailNone
    <2>2. do # "picture" /\ (do = "labels" => Head(mainQ).stock # Nil)
      <3>1. do # "picture" /\ Head(mainQ) # Labels(Nil)
        BY <1>1, <2>1 DEF Pictures
      <3>2. do = "labels" => Head(mainQ) = Labels(Head(mainQ).stock)
        BY <1>1, BlockForms
      <3> QED BY <3>1, <3>2
    <2> QED BY <1>4, <2>1, <2>2 DEF Pictured
  <1> QED BY <1>2, <1>3, <1>4 DEF Pictured

\* A block that shows nothing is posted.
LEMMA PostShown ==
    ASSUME Typed, NEW b \in Blocks, b.do \notin {"labels", "picture"}, NEW s
    PROVE  /\ Labelled(mainQ, labels, s) => Labelled(Append(mainQ, b), labels, s)
           /\ Pictured(pending, mainQ, picture, s) =>
                Pictured(pending, Append(mainQ, b), picture, s)
  <1>1. mainQ \in Seq(Blocks)
    BY DEF Typed
  <1>2. b \notin Doing({"labels"}) /\ b \notin Pictures
    BY DEF Doing, Pictures, Labels
  <1>3. Labelled(mainQ, labels, s) => Labelled(Append(mainQ, b), labels, s)
    BY <1>1, <1>2, AppendEnds, AppendNone DEF Labelled
  <1>4. Pictured(pending, mainQ, picture, s) => Pictured(pending, Append(mainQ, b), picture, s)
    BY <1>1, <1>2, AppendEnds, AppendNone DEF Pictured
  <1> QED BY <1>3, <1>4

\* The handler of an answer posts what it read and asks for its picture.
LEMMA UpdateShown ==
    ASSUME Typed, UpdateArrived
    PROVE  /\ Labelled(mainQ', labels', background.stock)
           /\ background.stock \notin {Nil, symbol} \/ background.stock = Nil
              \/ Pictured(pending', mainQ', picture', background.stock)
  <1> DEFINE s == background.stock
             logo == [kind |-> "logo", of |-> symbol]
  <1>0. /\ mainQ \in Seq(Blocks) /\ pending \in Seq(Requests)
        /\ s \in OrNil(Symbols) /\ (s # Nil => symbol # Nil)
    BY BackgroundValues DEF Typed, UpdateArrived
  <1>1. /\ Labels(s) \in Blocks /\ mainQ' = Append(mainQ, Labels(s))
        /\ s # Nil => logo \in Requests /\ pending' = Append(pending, logo)
    BY <1>0, UpdatePosts DEF UpdateArrived
  <1>2. Labelled(mainQ', labels', s)
    BY <1>0, <1>1, AppendEnds DEF Labelled
  <1>3. ASSUME s # Nil, s = symbol PROVE Pictured(pending', mainQ', picture', s)
    <2>1. logo \in Requests /\ logo \in AskingFor({"logo", "image"}, s)
      BY <1>1, <1>3 DEF AskingFor
    <2> HIDE DEF logo
    <2>2. Ends(pending', PictureRequests, AskingFor({"logo", "image"}, s))
      BY <1>0, <1>1, <1>3, <2>1, AppendEnds
    <2> QED BY <2>2 DEF Pictured
  <1> QED BY <1>2, <1>3

\* A logo's address arrives.
LEMMA LogoShown ==
    ASSUME Typed, NEW i \in DOMAIN pending, LogoArrives(i), NEW s
    PROVE  /\ Waiting => Ends(pending', Asking({"stock"}), AskingFor({"stock"}, Row))
           /\ Pictured(pending, mainQ, picture, s) => Pictured(pending', mainQ, picture, s)
  <1> DEFINE x == [kind |-> "image", of |-> pending[i].of]
  <1>1. /\ x \in Requests /\ pending' = [pending EXCEPT ![i] = x]
        /\ pending[i].kind = "logo" /\ x.kind = "image" /\ x.of = pending[i].of
    BY LogoPut
  <1>2. i \in 1 .. Len(pending) /\ pending \in Seq(Requests) /\ pending[i] \in Requests
    BY Answered
  <1> HIDE DEF x
  <1>3. /\ x \notin Asking({"stock"}) /\ pending[i] \notin Asking({"stock"})
        /\ x \notin AskingFor({"stock"}, Row) /\ pending[i] \notin AskingFor({"stock"}, Row)
    BY <1>1 DEF Asking, AskingFor
  <1>4. /\ x \in PictureRequests /\ pending[i] \in PictureRequests
        /\ x \in AskingFor({"logo", "image"}, s) <=> pending[i] \in AskingFor({"logo", "image"}, s)
    BY <1>1, <1>2 DEF Asking, AskingFor, PictureRequests
  <1>5. Waiting => Ends(pending', Asking({"stock"}), AskingFor({"stock"}, Row))
    BY <1>1, <1>2, <1>3, PutParts DEF Waiting
  <1>6. /\ None(pending', PictureRequests) <=> None(pending, PictureRequests)
        /\ Ends(pending, PictureRequests, AskingFor({"logo", "image"}, s))
             => Ends(pending', PictureRequests, AskingFor({"logo", "image"}, s))
    <2>1. x \in PictureRequests <=> pending[i] \in PictureRequests
      BY <1>4
    <2>2. x \in AskingFor({"logo", "image"}, s) <=> pending[i] \in AskingFor({"logo", "image"}, s)
      BY <1>4
    <2> DEFINE B == AskingFor({"logo", "image"}, s)
    <2> HIDE DEF B
    <2>3. (x \in B) <=> (pending[i] \in B)
      BY <2>2 DEF B
    <2>4. /\ None(pending', PictureRequests) <=> None(pending, PictureRequests)
          /\ Ends(pending, PictureRequests, B) => Ends(pending', PictureRequests, B)
      BY <1>1, <1>2, <2>1, <2>3, PutParts
    <2> QED BY <2>4 DEF B
  <1>7. Pictured(pending, mainQ, picture, s) => Pictured(pending', mainQ, picture, s)
    BY <1>6 DEF Pictured
  <1> QED BY <1>5, <1>7

\* An image arrives that overtook no other.
LEMMA ImageShown ==
    ASSUME Typed, NEW i \in DOMAIN pending, ImageArrives(i), ~history'.overtaken, NEW s,
           Pictured(pending, mainQ, picture, s)
    PROVE  Pictured(pending', mainQ', picture, s)
  <1>1. /\ i \in 1 .. Len(pending) /\ pending \in Seq(Requests) /\ pending[i] \in Requests
        /\ pending[i].kind = "image" /\ mainQ \in Seq(Blocks) /\ pending' = Remove(pending, i)
    BY Answered DEF Typed, ImageArrives, Arrives
  <1>2. pending[i] \in PictureRequests
    BY <1>1 DEF PictureRequests, Asking
  <1>3. \A k \in 1 .. i - 1 : pending[k] \notin PictureRequests
    BY <1>1 DEF Typed, ImageArrives, Arrives, Picturing, PictureRequests, Asking
  <1>4. ~None(pending, PictureRequests)
    BY <1>1, <1>2 DEF None
  <1>5. Ends(pending, PictureRequests, AskingFor({"logo", "image"}, s))
    BY <1>4 DEF Pictured
  <1>6. AskingFor({"logo", "image"}, s) \subseteq PictureRequests
    BY DEF AskingFor, PictureRequests, Asking
  <1>7. CASE Ends(Remove(pending, i), PictureRequests, AskingFor({"logo", "image"}, s))
    BY <1>1, <1>7 DEF Pictured
  <1>8. CASE /\ pending[i] \in AskingFor({"logo", "image"}, s)
             /\ None(Remove(pending, i), PictureRequests)
    <2>1. pending[i].of = s /\ s \in Symbols
      BY <1>1, <1>8, RequestForms DEF AskingFor
    <2>2. mainQ' = Append(mainQ, Picture(s)) /\ Picture(s) \in Blocks
      BY <2>1, BlockValues DEF ImageArrives
    <2>3. Ends(mainQ', Pictures, {Picture(s)})
      BY <1>1, <2>2, AppendEnds
    <2> QED BY <1>1, <1>8, <2>3 DEF Pictured
  <1> QED BY <1>1, <1>3, <1>5, <1>6, <1>7, <1>8, RemoveEnds

-----------------------------------------------------------------------------
(* The selected row. *)

\* Only the request for the selected row settles what is to be shown.
LEMMA Asks ==
    ASSUME Typed, Listing, [Next]_vars, Unasked, ~Unasked'
    PROVE  SendRequest
  <1> SUFFICES ASSUME ~SendRequest PROVE FALSE
    OBVIOUS
  <1>1. alive /\ alive'
    BY StaysDead DEF Unasked
  <1>2. None(mainQ', Doing({"reload", "request"})) /\ None(mainQ', Doing({"reload"}))
    BY DEF Unasked, None, Doing
  <1>3. suitableStocks' = suitableStocks /\ suitableStocks # << >>
    BY <1>2, SuitableReloads DEF Unasked
  <1>4. ~ReloadPicker /\ main'.step \notin {"read", "update"}
    BY DEF ReloadPicker, BeginLoadSelected, Unasked
  <1>5. None(mainQ, Doing({"reload"}))
    BY <1>2, <1>4, BlocksStay
  <1>6. ~NothingToRequest
    BY <1>3, <1>5, NothingListed
  <1>7. None(mainQ, Doing({"reload", "request"}))
    BY <1>2, <1>4, <1>6, BlocksStay
  <1>8. main.step \notin {"read", "update"}
    <2> SUFFICES ASSUME main.step \in {"read", "update"} PROVE FALSE
      OBVIOUS
    <2>1. EndLoadSelected
      BY <1>4, MainStays
    <2>2. main.stock \in OrNil(Symbols) /\ (main.stock # Nil => symbol # Nil)
      BY <2>1, MainValues DEF Typed, EndLoadSelected
    <2> DEFINE shows == Append(mainQ, Labels(main.stock))
    <2>3. mainQ' = Append(shows, Request) /\ shows \in Seq(Blocks)
      BY <2>1, <2>2, UpdatePosts DEF EndLoadSelected
    <2> HIDE DEF shows
    <2> QED BY <1>2, <2>3, BlockValues, PostNone
  <1>9. background.step # "suitable"
    <2> SUFFICES ASSUME background.step = "suitable" PROVE FALSE
      OBVIOUS
    <2>1. SetSuitable
      BY BackgroundStays DEF Unasked, StopSpinning
    <2>2. mainQ' = Append(mainQ, Reload) /\ mainQ \in Seq(Blocks)
      BY <2>1 DEF Typed, SetSuitable
    <2> QED BY <1>2, <2>2, BlockValues, PostNone
  <1>10. None(pending, Asking({"list"}))
    <2> SUFFICES ASSUME ~None(pending, Asking({"list"})) PROVE FALSE
      OBVIOUS
    <2>1. PICK i \in DOMAIN pending : ListArrives(i)
      BY RequestsStay DEF Unasked
    <2> QED BY <2>1 DEF ListArrives, Unasked
  <1> QED BY <1>1, <1>3, <1>7, <1>8, <1>9, <1>10 DEF Unasked

\* What the labels and the picture come to stays the same.
LEMMA StaysFitting ==
    ASSUME Waiting \/ Told, Row' = Row, pending' = pending, background' = background,
           selectedStock' = selectedStock, history'.noPicture = history.noPicture,
           Labelled(mainQ, labels, selectedStock) => Labelled(mainQ', labels', selectedStock),
           Pictured(pending, mainQ, picture, selectedStock)
             => Pictured(pending, mainQ', picture', selectedStock)
    PROVE  Waiting' \/ Told'
  <1>1. CASE Waiting
    BY <1>1 DEF Waiting
  <1>2. CASE Told
    BY <1>2 DEF Told, Shows
  <1> QED BY <1>1, <1>2

LEMMA StepFitting == ASSUME Typed, Listing, Fitting, [Next]_vars PROVE Fitting'
  <1> SUFFICES ASSUME ~Unasked'
               PROVE  symbol' = Row' /\ (history'.overtaken \/ Waiting' \/ Told')
    BY DEF Fitting
  <1>1. CASE SendRequest
    <2> DEFINE r == [kind |-> "stock", of |-> symbol']
    <2>1. symbol' = Row /\ Row' = Row /\ pending' = Append(pending, r) /\ pending \in Seq(Requests)
      BY <1>1 DEF Typed, SendRequest, Row, model
    <2>2. symbol' \in Symbols
      <3>1. suitableStocks \in Seq(Symbols)
        BY <1>1, SymbolFacts DEF Typed, SendRequest, Found
      <3>2. picker.row + 1 \in 1 .. Len(suitableStocks)
        BY <1>1, <3>1 DEF SendRequest, InRange
      <3> QED BY <1>1, <3>1, <3>2 DEF SendRequest
    <2>3. r \in Requests /\ r \in AskingFor({"stock"}, Row)
      BY <2>1, <2>2, RequestForms DEF AskingFor
    <2> HIDE DEF r
    <2>4. Ends(pending', Asking({"stock"}), AskingFor({"stock"}, Row))
      BY <2>1, <2>3, AppendEnds
    <2>5. Waiting'
      BY <2>1, <2>4 DEF Waiting
    <2> QED BY <2>1, <2>5
  <1>2. CASE ~SendRequest
    <2>1. ~Unasked
      BY <1>2, Asks
    <2>2. symbol = Row /\ (history.overtaken \/ Waiting \/ Told)
      BY <2>1 DEF Fitting
    <2>3. /\ None(mainQ', Doing({"reload"})) /\ main'.step \notin {"read", "update"} /\ alive'
          /\ background'.step # "suitable"
      BY DEF Unasked, None, Doing
    <2>4. ~ReloadPicker /\ \A r \in 0 .. picker.rows - 1 : ~SelectRow(r)
      <3>1. ~ReloadPicker
        <4> SUFFICES ASSUME ReloadPicker PROVE FALSE
          OBVIOUS
        <4>1. main' = [step |-> "read"]
          BY DEF ReloadPicker, BeginLoadSelected
        <4>2. main'.step = "read"
          BY <4>1
        <4> QED BY <2>3, <4>2
      <3>2. ASSUME NEW r \in 0 .. picker.rows - 1, SelectRow(r) PROVE FALSE
        BY <2>3, <3>2 DEF SelectRow, BeginLoadSelected
      <3> QED BY <3>1, <3>2
    <2>5. suitableStocks' = suitableStocks /\ picker' = picker
      BY <2>3, <2>4, SuitableReloads, PickerStays
    <2>6. Row' = Row
      BY <2>5 DEF Row
    <2>7. CASE User
      <3>1. ~SearchDidEnd
        <4> SUFFICES ASSUME SearchDidEnd PROVE FALSE
          OBVIOUS
        <4>1. mainQ' = Append(mainQ, Reload) /\ mainQ \in Seq(Blocks)
          BY DEF Typed, SearchDidEnd
        <4> QED BY <2>3, <4>1, BlockValues, PostNone
      <3>2. TextCleared \/ DismissAlert
        BY <2>4, <2>7, <3>1 DEF User
      <3>3. /\ symbol' = symbol /\ history' = history /\ pending' = pending
            /\ background' = background /\ selectedStock' = selectedStock
            /\ mainQ' = mainQ /\ labels' = labels /\ picture' = picture
        BY <3>2 DEF TextCleared, DismissAlert, model, shown, threads
      <3> QED BY <2>2, <2>6, <3>3, StaysFitting
    <2>8. CASE ReadSelected \/ EndLoadSelected \/ AssignSuitable \/ NothingToRequest \/ Trap
      <3>1. ~ReadSelected /\ ~EndLoadSelected /\ ~Trap
        BY <2>1, <2>3 DEF ReadSelected, EndLoadSelected, Trap, Unasked
      <3>2. ~AssignSuitable
        <4> SUFFICES ASSUME AssignSuitable PROVE FALSE
          OBVIOUS
        <4>1. mainQ' = Append(mainQ, Reload) /\ mainQ \in Seq(Blocks)
          BY DEF Typed, AssignSuitable
        <4> QED BY <2>3, <4>1, BlockValues, PostNone
      <3>3. ~NothingToRequest
        <4> SUFFICES ASSUME NothingToRequest PROVE FALSE
          OBVIOUS
        <4>1. ~None(mainQ, Doing({"reload", "request"}))
          BY TakeNone DEF NothingToRequest
        <4> QED BY <2>1, <4>1 DEF Unasked
      <3> QED BY <2>8, <3>1, <3>2, <3>3
    <2>9. ASSUME NEW do, NEW on, Spin(do, on), do \in {"start", "stop"}
          PROVE  symbol' = Row' /\ (history'.overtaken \/ Waiting' \/ Told')
      <3>1. /\ symbol' = symbol /\ history' = history /\ pending' = pending
            /\ background' = background /\ selectedStock' = selectedStock
            /\ mainQ' = Tail(mainQ) /\ labels' = labels /\ picture' = picture /\ Block(do)
        BY <2>9 DEF Spin, model, threads
      <3>2. Labelled(mainQ, labels, selectedStock) => Labelled(mainQ', labels', selectedStock)
        BY <2>9, <3>1, LabelledTail
      <3>3. Pictured(pending, mainQ, picture, selectedStock)
              => Pictured(pending, mainQ', picture', selectedStock)
        BY <2>9, <3>1, PicturedTail
      <3> QED BY <2>2, <2>6, <3>1, <3>2, <3>3, StaysFitting
    <2>10. CASE ShowLabels
      <3>1. /\ symbol' = symbol /\ history' = history /\ pending' = pending
            /\ background' = background /\ selectedStock' = selectedStock
            /\ mainQ' = Tail(mainQ) /\ labels' = Head(mainQ).stock
            /\ picture' = IF Head(mainQ).stock = Nil THEN Nil ELSE picture
            /\ Block("labels")
        BY <2>10 DEF ShowLabels, model, threads
      <3>2. Labelled(mainQ, labels, selectedStock) => Labelled(mainQ', labels', selectedStock)
        BY <3>1, LabelledTail
      <3>3. Pictured(pending, mainQ, picture, selectedStock)
              => Pictured(pending, mainQ', picture', selectedStock)
        BY <3>1, PicturedTail
      <3> QED BY <2>2, <2>6, <3>1, <3>2, <3>3, StaysFitting
    <2>11. CASE ShowPicture \/ ShowAlert
      <3>1. PICK do \in {"picture", "alert"} :
                /\ symbol' = symbol /\ history' = history /\ pending' = pending
                /\ background' = background /\ selectedStock' = selectedStock
                /\ mainQ' = Tail(mainQ) /\ labels' = labels /\ Block(do)
                /\ picture' = IF do = "picture" THEN Head(mainQ).of ELSE picture
        BY <2>11 DEF ShowPicture, ShowAlert, model, threads
      <3>2. Labelled(mainQ, labels, selectedStock) => Labelled(mainQ', labels', selectedStock)
        BY <3>1, LabelledTail
      <3>3. Pictured(pending, mainQ, picture, selectedStock)
              => Pictured(pending, mainQ', picture', selectedStock)
        BY <3>1, PicturedTail
      <3> QED BY <2>2, <2>6, <3>1, <3>2, <3>3, StaysFitting
    <2>12. CASE SetSuitable
      BY <2>1, <2>12 DEF SetSuitable, Unasked
    <2>13. CASE ReadArrived
      <3>1. /\ symbol' = symbol /\ history' = history /\ pending' = pending
            /\ background'.step = "update" /\ background'.stock = selectedStock
            /\ selectedStock' = selectedStock
        BY <2>13 DEF ReadArrived, model
      <3>2. Waiting => Waiting'
        BY <2>6, <3>1 DEF Waiting
      <3>3. Told => Told'
        BY <2>6, <3>1 DEF Told, Shows
      <3> QED BY <2>2, <2>6, <3>1, <3>2, <3>3
    <2>14. CASE UpdateArrived
      <3> DEFINE s == background.stock
                 logo == [kind |-> "logo", of |-> symbol]
      <3>1. /\ symbol' = symbol /\ history' = history /\ selectedStock' = selectedStock
            /\ background.step = "update" /\ background'.step = "stop"
        BY <2>14 DEF UpdateArrived, model
      <3>2. s \in OrNil(Symbols) /\ (s # Nil => symbol # Nil) /\ pending \in Seq(Requests)
        BY <3>1, BackgroundValues DEF Typed
      <3>3. s # Nil => logo \in Requests /\ pending' = Append(pending, logo)
        BY <2>14, <3>2, UpdatePosts DEF UpdateArrived
      <3>4. s = Nil => pending' = pending
        BY <2>14, <3>2, UpdatePosts DEF UpdateArrived
      <3>5. logo \notin Asking({"stock"})
        BY DEF Asking
      <3> HIDE DEF logo
      <3>6. Waiting => Waiting'
        BY <2>6, <3>2, <3>3, <3>4, <3>5, AppendEnds DEF Waiting
      <3>7. ASSUME Told PROVE Told'
        <4>1. None(pending', Asking({"stock"}))
          <5>1. None(pending, Asking({"stock"}))
            BY <3>7 DEF Told
          <5>2. CASE s = Nil
            BY <3>4, <5>1, <5>2
          <5>3. CASE s # Nil
            <6>1. logo \in Requests /\ pending' = Append(pending, logo)
              BY <3>3, <5>3
            <6> QED BY <3>2, <3>5, <5>1, <6>1, AppendNone
          <5> QED BY <5>2, <5>3
        <4>2. s = selectedStock /\ selectedStock \in {Nil, Row}
          BY <3>1, <3>7 DEF Told, Shows
        <4>3. /\ Labelled(mainQ', labels', selectedStock)
              /\ selectedStock = Nil \/ Pictured(pending', mainQ', picture', selectedStock)
          BY <2>2, <2>14, <4>2, UpdateShown
        <4> QED BY <2>6, <3>1, <4>1, <4>2, <4>3 DEF Told, Shows
      <3> QED BY <2>2, <2>6, <3>1, <3>6, <3>7
    <2>15. CASE StopSpinning
      <3>1. /\ symbol' = symbol /\ history' = history /\ pending' = pending
            /\ background.step = "stop" /\ background'.step = "idle"
            /\ selectedStock' = selectedStock /\ mainQ' = Append(mainQ, Stop)
            /\ labels' = labels /\ picture' = picture
        BY <2>15, BackgroundValues DEF StopSpinning, model, shown
      <3>2. Stop \in Blocks /\ Stop.do \notin {"labels", "picture"}
        BY BlockValues
      <3>3. Labelled(mainQ, labels, selectedStock) => Labelled(mainQ', labels', selectedStock)
        BY <3>1, <3>2, PostShown
      <3>4. Pictured(pending, mainQ, picture, selectedStock)
              => Pictured(pending, mainQ', picture', selectedStock)
        BY <3>1, <3>2, PostShown
      <3>5. Waiting => Waiting'
        BY <2>6, <3>1 DEF Waiting
      <3>6. Told => Told'
        BY <2>6, <3>1, <3>3, <3>4 DEF Told, Shows
      <3> QED BY <2>2, <2>6, <3>1, <3>5, <3>6
    <2>16. ASSUME NEW i \in DOMAIN pending, ListArrives(i) PROVE FALSE
      BY <2>3, <2>16 DEF ListArrives
    <2>17. ASSUME NEW i \in DOMAIN pending, StockArrives(i)
           PROVE  symbol' = Row' /\ (history'.overtaken \/ Waiting' \/ Told')
      <3>0. symbol' = Row'
        BY <2>2, <2>6, <2>17 DEF StockArrives
      <3> SUFFICES ASSUME ~history'.overtaken PROVE Waiting' \/ Told'
        BY <3>0
      <3>1. /\ i \in 1 .. Len(pending) /\ pending \in Seq(Requests) /\ pending[i] \in Requests
            /\ pending' = Remove(pending, i) /\ pending[i].kind = "stock"
            /\ background'.step = "read"
            /\ selectedStock' \in {Nil, pending[i].of}
        BY <2>17, Answered DEF StockArrives, Arrives
      <3>2. /\ ~history.overtaken
            /\ \A k \in 1 .. i - 1 : pending[k].kind # "stock"
        BY <2>17 DEF Typed, StockArrives, Arrives
      <3>3. pending[i] \in Asking({"stock"}) /\ \A k \in 1 .. i - 1 : pending[k] \notin Asking({"stock"})
        BY <3>1, <3>2 DEF Asking
      <3>4. Ends(pending, Asking({"stock"}), AskingFor({"stock"}, Row))
        BY <2>2, <3>1, <3>2, <3>3 DEF Waiting, Told, None
      <3>5. AskingFor({"stock"}, Row) \subseteq Asking({"stock"})
        BY DEF AskingFor, Asking
      <3>6. CASE Ends(Remove(pending, i), Asking({"stock"}), AskingFor({"stock"}, Row))
        BY <2>2, <2>6, <3>1, <3>6 DEF Waiting
      <3>7. CASE pending[i] \in AskingFor({"stock"}, Row) /\ None(Remove(pending, i), Asking({"stock"}))
        <4>1. selectedStock' \in {Nil, Row}
          BY <3>1, <3>7 DEF AskingFor
        <4> QED BY <2>2, <2>6, <3>1, <3>7, <4>1 DEF Told, Shows
      <3> QED BY <3>1, <3>3, <3>4, <3>5, <3>6, <3>7, RemoveEnds
    <2>18. ASSUME NEW i \in DOMAIN pending, LogoArrives(i)
           PROVE  symbol' = Row' /\ (history'.overtaken \/ Waiting' \/ Told')
      <3>1. /\ symbol' = symbol /\ background' = background /\ selectedStock' = selectedStock
            /\ mainQ' = mainQ /\ labels' = labels /\ picture' = picture
            /\ history'.noPicture = history.noPicture
            /\ history.overtaken => history'.overtaken
        BY <2>18 DEF Typed, LogoArrives, Arrives, model, shown, threads
      <3>2. None(pending', Asking({"stock"})) <=> None(pending, Asking({"stock"}))
        BY <2>18, LogoNone
      <3>3. Waiting => Waiting'
        BY <2>6, <2>18, LogoShown DEF Waiting
      <3>4. Told => Told'
        BY <2>6, <2>18, <3>1, <3>2, LogoShown DEF Told, Shows
      <3> QED BY <2>2, <2>6, <3>1, <3>3, <3>4
    <2>19. ASSUME NEW i \in DOMAIN pending, ImageArrives(i) \/ NoPicture(i)
           PROVE  symbol' = Row' /\ (history'.overtaken \/ Waiting' \/ Told')
      <3>0. symbol' = Row'
        BY <2>2, <2>6, <2>19 DEF ImageArrives, NoPicture
      <3> SUFFICES ASSUME ~history'.overtaken PROVE Waiting' \/ Told'
        BY <3>0
      <3>1. /\ background' = background /\ selectedStock' = selectedStock
            /\ labels' = labels /\ picture' = picture /\ pending' = Remove(pending, i)
            /\ pending[i].kind \in {"logo", "image"}
            /\ history.overtaken => history'.overtaken
            /\ history.noPicture => history'.noPicture
        BY <2>19 DEF Typed, ImageArrives, NoPicture, Arrives, Picturing, model, shown, threads
      <3>2. i \in 1 .. Len(pending) /\ pending \in Seq(Requests) /\ pending[i] \in Requests
        BY Answered
      <3>3. pending[i] \notin Asking({"stock"}) /\ AskingFor({"stock"}, Row) \subseteq Asking({"stock"})
        BY <3>1 DEF Asking, AskingFor
      <3>4. Waiting => Waiting'
        <4>1. Waiting => Ends(Remove(pending, i), Asking({"stock"}), AskingFor({"stock"}, Row))
          BY <3>2, <3>3, RemoveEnds DEF Waiting
        <4> QED BY <2>6, <3>1, <4>1 DEF Waiting
      <3>5. ASSUME Told PROVE Told'
        <4>1. None(pending', Asking({"stock"}))
          BY <3>1, <3>2, <3>3, <3>5, RemoveNone DEF Told
        <4>2. PICK b \in Blocks : mainQ' = Append(mainQ, b) /\ b.do \in {"picture", "alert"}
          <5>1. ImageArrives(i) => /\ Picture(pending[i].of) \in Blocks
                                   /\ Picture(pending[i].of).do = "picture"
            BY <3>1, <3>2, RequestForms, BlockValues
          <5> QED BY <2>19, <5>1, BlockValues DEF ImageArrives, NoPicture
        <4>3. Labelled(mainQ, labels, selectedStock) => Labelled(mainQ', labels', selectedStock)
          <5>1. b \notin Doing({"labels"}) /\ mainQ \in Seq(Blocks)
            BY <4>2 DEF Doing, Typed
          <5> QED BY <3>1, <4>2, <5>1, AppendEnds, AppendNone DEF Labelled
        <4>4. Pictured(pending, mainQ, picture, selectedStock)
                => history'.noPicture \/ Pictured(pending', mainQ', picture', selectedStock)
          <5>1. CASE ImageArrives(i)
            BY <3>1, <5>1, ImageShown
          <5>2. CASE NoPicture(i)
            BY <5>2 DEF Typed, NoPicture
          <5> QED BY <2>19, <5>1, <5>2
        <4> QED BY <2>6, <3>1, <3>5, <4>1, <4>3, <4>4 DEF Told, Shows
      <3> QED BY <2>2, <2>6, <3>1, <3>4, <3>5
    <2>20. CASE UNCHANGED vars
      <3>1. /\ symbol' = symbol /\ history' = history /\ pending' = pending
            /\ background' = background /\ selectedStock' = selectedStock
            /\ mainQ' = mainQ /\ labels' = labels /\ picture' = picture
        BY <2>20 DEF vars, model, shown, threads
      <3> QED BY <2>2, <2>6, <3>1, StaysFitting
    <2> QED BY <1>2, <2>4, <2>7, <2>8, <2>9, <2>10, <2>11, <2>12, <2>13, <2>14, <2>15, <2>16,
               <2>17, <2>18, <2>19, <2>20 DEF Next, Main, Delegate
  <1> QED BY <1>1, <1>2

-----------------------------------------------------------------------------
(* The theorems. *)

\* The invariant holds at first.
LEMMA InitHolds == ASSUME Init PROVE IInv
  <1>1. Typed
    BY InitTyped
  <1>2. Rows = 0 /\ picker.rows = 0 /\ picker.row = 0
    BY DEF Init, Rows
  <1>3. [kind |-> "list", of |-> Nil] \in Asking({"list"})
        /\ [kind |-> "list", of |-> Nil] \in Asking({"list", "stock"})
    BY RequestForms DEF Asking
  <1>4. ~None(pending, Asking({"list"})) /\ ~None(pending, Asking({"list", "stock"}))
    BY <1>3 DEF Init, None
  <1> QED BY <1>1, <1>2, <1>4 DEF IInv, Listing, Stopping, Busy, Fitting, Unasked

\* The invariant holds in every behaviour.
THEOREM Invariant == Spec => []IInv
  <1>1. Init => IInv
    BY InitHolds
  <1>2. IInv /\ [Next]_vars => IInv'
    BY StepTyped, StepListing, StepStopping, StepFitting DEF IInv
  <1> QED BY <1>1, <1>2, PTL DEF Spec

\* Lists, symbols and queues have the shape the handlers expect, however often
\* the user searches and selects; no logo is asked for before a stock was.
THEOREM TypeCorrect == Spec => []TypeOK
  <1>1. ASSUME Typed PROVE TypeOK
    <2>1. \A i \in DOMAIN mainQ : BlockOK(mainQ[i])
      <3>1. ASSUME NEW b \in Blocks PROVE BlockOK(b)
        BY DEF Blocks, BlockOK, Start, Stop, Reload, Request, Alert
      <3> QED BY <1>1, <3>1 DEF Typed
    <2>2. \A i \in DOMAIN pending :
            \/ pending[i] = [kind |-> "list", of |-> Nil]
            \/ pending[i] \in [kind : {"stock", "logo", "image"}, of : Symbols]
      <3>1. ASSUME NEW r \in Requests
            PROVE  \/ r = [kind |-> "list", of |-> Nil]
                   \/ r \in [kind : {"stock", "logo", "image"}, of : Symbols]
        BY DEF Requests
      <3> QED BY <1>1, <3>1 DEF Typed
    <2>3. \/ main \in [step : {"idle", "read"}]
          \/ main \in [step : {"update"}, stock : OrNil(Symbols)]
          \/ main.step = "assign" /\ main.stocks \in StockLists
      BY <1>1 DEF Typed, MainType
    <2>4. \/ background \in [step : {"idle", "suitable", "read", "stop"}]
          \/ background \in [step : {"update"}, stock : OrNil(Symbols)]
      BY <1>1 DEF Typed, BackgroundType
    <2> QED BY <1>1, <2>1, <2>2, <2>3, <2>4 DEF Typed, TypeOK
  <1> QED BY <1>1, Invariant, PTL DEF IInv

\* Nothing comes last in an empty queue.
LEMMA Empty ==
    /\ \A S : None(<< >>, S)
    /\ \A S, B : ~Ends(<< >>, S, B)
  BY DEF None, Ends

\* At rest the activity indicator runs only if the search found no stock, for
\* any number of selections and searches made while requests are under way.
THEOREM IndicatorSettles == Spec => []SpinnerSettles
  <1>1. ASSUME IInv PROVE SpinnerSettles
    <2> SUFFICES ASSUME Quiet, spinning, suitableStocks # << >> PROVE FALSE
      BY DEF SpinnerSettles
    <2>1. /\ None(mainQ, Doing({"reload"})) /\ None(mainQ, Doing({"stop", "request"}))
          /\ None(pending, Asking({"list", "stock"}))
          /\ main.step = "idle" /\ background.step = "idle" /\ alive
      BY Empty, MainValues DEF Quiet
    <2> QED BY <1>1, <2>1 DEF IInv, Stopping, Busy
  <1> QED BY <1>1, Invariant, PTL

\* At rest what the invariant says of the selected row has come true.
LEMMA AtRest ==
    ASSUME IInv, Quiet, ~history.overtaken, suitableStocks # << >>
    PROVE  /\ labels = selectedStock /\ selectedStock \in {Nil, Row}
           /\ \/ history.noPicture \/ selectedStock = Nil
              \/ picture = selectedStock
  <1>1. /\ mainQ = << >> /\ pending = << >>
        /\ main.step = "idle" /\ background.step = "idle" /\ alive
    BY MainValues DEF Quiet
  <1>2. ~Unasked
    BY <1>1, Empty DEF Unasked
  <1>3. ~Waiting
    BY <1>1, Empty DEF Waiting
  <1>4. Told
    BY <1>2, <1>3 DEF IInv, Fitting
  <1> QED BY <1>1, <1>4, Empty DEF Told, Shows, Labelled, Pictured

\* At rest, unless an answer overtook an earlier one, the labels show the stock
\* of the selected row or nothing, whatever the two threads did to selectedStock
\* between its assignment and its observer, for any number of requests under way.
THEOREM LabelsAreRight == Spec => []LabelsFitRow
  <1>1. IInv => LabelsFitRow
    BY AtRest DEF LabelsFitRow, Row
  <1> QED BY <1>1, Invariant, PTL

\* The logo is that of the stock on the labels, if none failed to load, although
\* its address is built from the symbol last asked for.
THEOREM PictureIsRight == Spec => []PictureFitsLabels
  <1>1. IInv => PictureFitsLabels
    BY AtRest DEF PictureFitsLabels
  <1> QED BY <1>1, Invariant, PTL
=============================================================================
