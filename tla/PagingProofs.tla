---------------------------- MODULE PagingProofs ----------------------------
(***************************************************************************)
(* Keyset paging gives no ticker twice and skips none, for any number of   *)
(* tickers, clients, requests and refreshes: the properties of Paging.     *)
(***************************************************************************)
EXTENDS Paging, TLAPS, FiniteSetTheorems, SequenceTheorems

-----------------------------------------------------------------------------
(* What the operators of a page return *)

\* How many tickers of S come before t.
Rank(S, t) == Cardinality({u \in S : u < t})

LEMMA ProperSubsetIsSmaller ==
  ASSUME NEW S, IsFiniteSet(S), NEW T \in SUBSET S, T # S
  PROVE  Cardinality(T) \in Nat /\ Cardinality(T) < Cardinality(S)
<1>1. IsFiniteSet(T) /\ Cardinality(T) <= Cardinality(S) /\ Cardinality(S) # Cardinality(T)
  BY FS_Subset
<1> QED BY <1>1, FS_CardinalityType

\* A ticker that comes later has more tickers before it.
LEMMA RankGrows ==
  ASSUME NEW S \in SUBSET Nat, IsFiniteSet(S), NEW t \in S
  PROVE  /\ Rank(S, t) \in Nat /\ Rank(S, t) < Cardinality(S)
         /\ \A u \in S : t < u => Rank(S, t) < Rank(S, u)
<1> DEFINE B(x) == {u \in S : u < x}
<1>1. Cardinality(B(t)) \in Nat /\ Cardinality(B(t)) < Cardinality(S)
  <2>1. B(t) \in SUBSET S /\ B(t) # S
    OBVIOUS
  <2> QED BY <2>1, ProperSubsetIsSmaller
<1>2. ASSUME NEW u \in S, t < u
      PROVE  Cardinality(B(t)) < Cardinality(B(u))
  <2>1. B(u) \in SUBSET S /\ B(t) \in SUBSET B(u) /\ t \in B(u) /\ t \notin B(t)
    <3>1. t \in Nat /\ u \in Nat /\ \A x \in S : x \in Nat
      OBVIOUS
    <3>2. \A x \in S : x < t => x < u
      BY <1>2, <3>1
    <3>3. ~ (t < t)
      BY <3>1
    <3> QED BY <1>2, <3>2, <3>3
  <2> HIDE DEF B
  <2>2. IsFiniteSet(B(u))
    BY <2>1, FS_Subset
  <2> QED BY <2>1, <2>2, ProperSubsetIsSmaller
<1> QED BY <1>1, <1>2 DEF Rank

LEMMA RankUnique ==
  ASSUME NEW S \in SUBSET Nat, IsFiniteSet(S), NEW t \in S, NEW u \in S
  PROVE  /\ Rank(S, t) = Rank(S, u) => t = u
         /\ Rank(S, t) < Rank(S, u) => t < u
<1>1. t < u \/ t = u \/ u < t
  OBVIOUS
<1>2. Rank(S, t) \in Nat /\ Rank(S, u) \in Nat
  BY RankGrows
<1>3. t < u => Rank(S, t) < Rank(S, u)
  BY RankGrows
<1>4. u < t => Rank(S, u) < Rank(S, t)
  BY RankGrows
<1> QED BY <1>1, <1>2, <1>3, <1>4

\* Every place of the order is taken.
LEMMA RankTaken ==
  ASSUME NEW S \in SUBSET Nat, IsFiniteSet(S), NEW k \in 1 .. Cardinality(S)
  PROVE  \E t \in S : Rank(S, t) = k - 1
<1> DEFINE n == Cardinality(S)
           f == [t \in S |-> Rank(S, t) + 1]
<1>1. n \in Nat /\ IsFiniteSet(1 .. n) /\ Cardinality(1 .. n) = n
  BY FS_CardinalityType, FS_Interval
<1>2. f \in [S -> 1 .. n]
  BY <1>1, RankGrows
<1>3. \A t, u \in S : f[t] = f[u] => t = u
  BY RankGrows, RankUnique
<1>4. f \in Injection(S, 1 .. n)
  BY <1>2, <1>3 DEF Injection, IsInjective
<1>5. f \in Surjection(S, 1 .. n)
  BY <1>1, <1>4, FS_Injection
<1>6. PICK t \in S : f[t] = k
  BY <1>5 DEF Surjection
<1> QED BY <1>6, RankGrows

Ascending(s) == \A j, k \in DOMAIN s : j < k => s[j] < s[k]

\* A page is listed in ascending order, every ticker of it once.
LEMMA ListedInOrder ==
  ASSUME NEW S \in SUBSET Nat, IsFiniteSet(S)
  PROVE  /\ Listed(S) \in Seq(S)
         /\ Ascending(Listed(S)) /\ Range(Listed(S)) = S
<1> DEFINE n == Cardinality(S)
           L == Listed(S)
<1>1. n \in Nat
  BY FS_CardinalityType
<1>2. L = [k \in 1 .. n |-> CHOOSE t \in S : Rank(S, t) = k - 1]
  BY DEF Listed, Rank
<1>3. \A k \in 1 .. n : L[k] \in S /\ Rank(S, L[k]) = k - 1
  BY <1>2, RankTaken
<1>4. L \in Seq(S) /\ DOMAIN L = 1 .. n
  BY <1>1, <1>2, <1>3
<1>5. ASSUME NEW j \in 1 .. n, NEW k \in 1 .. n, j < k
      PROVE  L[j] < L[k]
  <2>1. Rank(S, L[j]) < Rank(S, L[k])
    BY <1>1, <1>3, <1>5
  <2> QED BY <1>3, <2>1, RankUnique
<1>6. ASSUME NEW t \in S
      PROVE  \E k \in 1 .. n : L[k] = t
  <2>1. Rank(S, t) + 1 \in 1 .. n
    BY <1>1, RankGrows
  <2> DEFINE k == Rank(S, t) + 1
  <2>2. Rank(S, L[k]) = Rank(S, t) /\ L[k] \in S
    BY <1>3, <2>1, RankGrows
  <2> QED BY <2>1, <2>2, RankUnique
<1> QED BY <1>3, <1>4, <1>5, <1>6 DEF Ascending, Range

\* A finite set of tickers that is not empty has a greatest one.
LEMMA GreatestIsGreatest ==
  ASSUME NEW S \in SUBSET Nat, IsFiniteSet(S), S # {}
  PROVE  Greatest(S) \in S /\ \A u \in S : u <= Greatest(S)
<1>1. Cardinality(S) \in Nat \ {0}
  BY FS_CardinalityType, FS_EmptySet
<1>2. PICK t \in S : Rank(S, t) = Cardinality(S) - 1
  BY <1>1, RankTaken
<1>3. ASSUME NEW u \in S
      PROVE  u <= t
  <2>1. Rank(S, u) < Cardinality(S) /\ Rank(S, u) \in Nat
    BY RankGrows
  <2>2. ~ (t < u)
    BY <1>1, <1>2, <2>1, RankGrows
  <2> QED BY <2>2
<1> QED BY <1>3 DEF Greatest

\* The first tickers of a set come before the others, and there is a first one.
LEMMA FirstComeFirst ==
  ASSUME NEW S \in SUBSET Nat, IsFiniteSet(S), NEW n \in Nat \ {0}
  PROVE  /\ FirstOf(S, n) \in SUBSET S
         /\ \A t \in FirstOf(S, n), u \in S : u < t => u \in FirstOf(S, n)
         /\ S # {} => FirstOf(S, n) # {}
<1>1. FirstOf(S, n) = {t \in S : Rank(S, t) < n}
  BY DEF FirstOf, Rank
<1>2. ASSUME NEW t \in S, NEW u \in S, u < t, Rank(S, t) < n
      PROVE  Rank(S, u) < n
  <2>1. Rank(S, u) < Rank(S, t) /\ Rank(S, u) \in Nat /\ Rank(S, t) \in Nat
    BY <1>2, RankGrows
  <2> QED BY <1>2, <2>1
<1>3. ASSUME S # {}
      PROVE  \E t \in S : Rank(S, t) < n
  <2>1. 1 \in 1 .. Cardinality(S)
    BY <1>3, FS_CardinalityType, FS_EmptySet
  <2> QED BY <2>1, RankTaken
<1> QED BY <1>1, <1>2, <1>3

\* What cursor_range returns: tickers past the cursor, all of them up to the next
\* cursor, or all of them if there is none.
IsPage(r, S, a) ==
  /\ r.page \in SUBSET S /\ r.next \in Tickers \cup {0}
  /\ \A t \in r.page : a < t
  /\ IF r.next = 0
       THEN \A t \in S : a < t => t \in r.page
       ELSE /\ r.next > a
            /\ \A t \in r.page : t <= r.next
            /\ \A t \in S : a < t /\ t <= r.next => t \in r.page

LEMMA CursorRangeIsPage ==
  ASSUME NEW S \in SUBSET Tickers, NEW a \in Tickers \cup {0}, NEW n \in Nat \ {0}
  PROVE  IsPage(CursorRange(S, a, n), S, a)
<1> DEFINE rest == Above(S, a)
           page == FirstOf(rest, n)
<1>1. /\ rest \in SUBSET Nat /\ rest \in SUBSET S /\ 0 \notin rest
      /\ IsFiniteSet(rest) /\ a \in Nat
  <2>1. S \in SUBSET Nat /\ 0 \notin S /\ a \in Nat /\ S \in SUBSET Tickers
    BY PagingAssumption
  <2>2. IsFiniteSet(S)
    BY <2>1, PagingAssumption, FS_Subset
  <2>3. rest \in SUBSET S
    BY DEF Above
  <2> QED BY <2>1, <2>2, <2>3, FS_Subset
<1>2. /\ page \in SUBSET rest
      /\ \A t \in page, u \in rest : u < t => u \in page
      /\ rest # {} => page # {}
  BY <1>1, FirstComeFirst
<1>3. CursorRange(S, a, n) = [page |-> page, next |-> IF page # rest THEN Greatest(page) ELSE 0]
  BY DEF CursorRange
<1>4. \A t \in rest : a < t
  BY DEF Above
<1>5. \A t \in S : a < t => t \in rest
  BY DEF Above
<1> HIDE DEF rest, page
<1>6. CASE page = rest
  <2> DEFINE r == CursorRange(S, a, n)
  <2>1. r.page = rest /\ r.next = 0
    BY <1>3, <1>6
  <2> HIDE DEF r
  <2>2. IsPage(r, S, a)
    BY <1>1, <1>4, <1>5, <2>1 DEF IsPage
  <2> QED BY <2>2 DEF r
<1>7. CASE page # rest
  <2> DEFINE g == Greatest(page)
  <2>1. g \in page /\ \A t \in page : t <= g
    <3>1. page # {} /\ page \in SUBSET Nat /\ IsFiniteSet(page)
      BY <1>1, <1>2, <1>7, FS_Subset
    <3> QED BY <3>1, GreatestIsGreatest
  <2>2. g \in Tickers /\ g # 0 /\ g > a /\ g \in Nat
    BY <1>1, <1>2, <1>4, <2>1
  <2>3. ASSUME NEW t \in S, a < t, t <= g
        PROVE  t \in page
    BY <1>1, <1>2, <1>5, <2>1, <2>2, <2>3
  <2> HIDE DEF g
  <2> DEFINE r == CursorRange(S, a, n)
  <2>4. r.page = page /\ r.next = g
    BY <1>3, <1>7 DEF g
  <2> HIDE DEF r
  <2>5. page \in SUBSET S /\ \A t \in page : a < t
    BY <1>1, <1>2, <1>4
  <2>6. IsPage(r, S, a)
    BY <2>1, <2>2, <2>3, <2>4, <2>5 DEF IsPage
  <2> QED BY <2>6 DEF r
<1> QED BY <1>6, <1>7

-----------------------------------------------------------------------------
(* The invariant *)

\* What a client has is in order, and no further than its cursor.
GivenInOrder(c) ==
  /\ Ascending(got[c])
  /\ state[c] # "done" => \A t \in Range(got[c]) : t <= after[c]

\* A handler works on a snapshot that has every ticker that was always there.
HandlerSees(c) ==
  /\ always[c] \subseteq served
  /\ state[c] \in {"handling", "replied"} => always[c] \subseteq snap[c]
  /\ state[c] = "handling" => limit[c] # 0
  /\ state[c] = "replied" => IsPage(reply[c], snap[c], after[c])

\* Of these tickers, all that the cursor has passed were given.
NoneSkipped(c) ==
  \A t \in always[c] : state[c] = "done" \/ t <= after[c] => t \in Range(got[c])

PageInv ==
  TypeOK /\ \A c \in Clients : GivenInOrder(c) /\ HandlerSees(c) /\ NoneSkipped(c)

LEMMA InitPage == Init => PageInv
<1> SUFFICES ASSUME Init PROVE PageInv
  OBVIOUS
<1>1. TypeOK
  BY DEF Init, TypeOK, NoReply
<1>2. \A c \in Clients : Range(got[c]) = {} /\ got[c] = <<>> /\ always[c] = {} /\ state[c] = "idle"
  BY DEF Init, Range
<1> QED BY <1>1, <1>2 DEF PageInv, GivenInOrder, HandlerSees, NoneSkipped, Ascending

\* A step that gives nobody anything: cursors stay, and what was always there
\* only shrinks, except for a client that has no cursor yet.
LEMMA NothingGiven ==
  ASSUME PageInv, TypeOK', UNCHANGED <<after, got>>,
         NEW c \in Clients,
         state'[c] = "done" <=> state[c] = "done",
         always'[c] \subseteq always[c] \/ (after[c] = 0 /\ state'[c] # "done")
  PROVE  GivenInOrder(c)' /\ NoneSkipped(c)'
<1>1. Range(got'[c]) = Range(got[c])
  OBVIOUS
<1>2. GivenInOrder(c)'
  BY <1>1 DEF PageInv, GivenInOrder
<1>3. ASSUME NEW t \in always'[c], state'[c] = "done" \/ t <= after[c]
      PROVE  t \in Range(got[c])
  <2>1. CASE always'[c] \subseteq always[c]
    <3>1. t \in always[c] /\ (state[c] = "done" \/ t <= after[c])
      BY <1>3, <2>1
    <3> QED BY <3>1 DEF PageInv, NoneSkipped
  <2>2. CASE after[c] = 0 /\ state'[c] # "done"
    <3>1. t \in Tickers
      BY DEF TypeOK
    <3>2. t \in Nat \ {0} /\ t <= 0
      BY <1>3, <2>2, <3>1, PagingAssumption
    <3> QED BY <3>2
  <2> QED BY <2>1, <2>2
<1> QED BY <1>1, <1>2, <1>3 DEF NoneSkipped

LEMMA LimitResolved ==
  ASSUME NEW n \in Requests \cup {0}, n # 0
  PROVE  ResolveLimit(n) \in Nat \ {0}
BY PagingAssumption DEF ResolveLimit

LEMMA AskingKeepsPage ==
  ASSUME PageInv, NEW c \in Clients,
         (\E n \in Requests : Send(c, n)) \/ Reject(c) \/ TakeSnapshot(c) \/ Lose(c)
  PROVE  PageInv'
<1>1. TypeOK'
  <2>1. CASE Reject(c)
    BY <2>1 DEF PageInv, TypeOK, Reject
  <2>4. ASSUME NEW n \in Requests, Send(c, n)
        PROVE  TypeOK'
    <3>1. limit' \in [Clients -> Requests \cup {0}]
      BY <2>4 DEF PageInv, TypeOK, Send
    <3> QED BY <2>4, <3>1 DEF PageInv, TypeOK, Send
  <2>2. CASE TakeSnapshot(c)
    BY <2>2 DEF PageInv, TypeOK, TakeSnapshot
  <2>3. CASE Lose(c)
    BY <2>3 DEF PageInv, TypeOK, Lose, NoReply
  <2> QED BY <2>1, <2>2, <2>3, <2>4
<1>2. /\ UNCHANGED <<served, after, got>>
      /\ \A d \in Clients \ {c} : /\ state'[d] = state[d] /\ limit'[d] = limit[d]
                                 /\ snap'[d] = snap[d] /\ reply'[d] = reply[d]
                                 /\ always'[d] = always[d]
      /\ state[c] # "done" /\ state'[c] \notin {"done", "replied"}
  BY DEF PageInv, TypeOK, Send, Reject, TakeSnapshot, Lose
<1>3. \/ always'[c] = always[c]
      \/ after[c] = 0 /\ always'[c] = served
  BY DEF PageInv, TypeOK, Send, Reject, TakeSnapshot, Lose
<1>4. state'[c] = "handling" => limit'[c] # 0 /\ snap'[c] = served
  BY DEF PageInv, TypeOK, Send, Reject, TakeSnapshot, Lose
<1>5. ASSUME NEW d \in Clients
      PROVE  GivenInOrder(d)' /\ NoneSkipped(d)'
  BY <1>1, <1>2, <1>3, NothingGiven
<1>6. ASSUME NEW d \in Clients
      PROVE  HandlerSees(d)'
  <2>1. CASE d = c
    BY <1>2, <1>3, <1>4, <2>1 DEF PageInv, HandlerSees
  <2>2. CASE d # c
    BY <1>2, <2>2 DEF PageInv, HandlerSees
  <2> QED BY <2>1, <2>2
<1> QED BY <1>1, <1>5, <1>6 DEF PageInv

LEMMA AnswerKeepsPage ==
  ASSUME PageInv, NEW c \in Clients, Answer(c)
  PROVE  PageInv'
<1> DEFINE r == CursorRange(snap[c], after[c], ResolveLimit(limit[c]))
<1>1. IsPage(r, snap[c], after[c]) /\ r \in [page : SUBSET Tickers, next : Tickers \cup {0}]
  <2>1. snap[c] \in SUBSET Tickers /\ after[c] \in Tickers \cup {0}
    BY DEF PageInv, TypeOK
  <2>2. ResolveLimit(limit[c]) \in Nat \ {0}
    BY LimitResolved DEF PageInv, TypeOK, HandlerSees, Answer
  <2>3. IsPage(r, snap[c], after[c])
    BY <2>1, <2>2, CursorRangeIsPage
  <2>4. r = [page |-> r.page, next |-> r.next]
    BY DEF CursorRange
  <2> HIDE DEF r
  <2>5. r.page \in SUBSET Tickers /\ r.next \in Tickers \cup {0}
    BY <2>1, <2>3 DEF IsPage
  <2> QED BY <2>3, <2>4, <2>5
<1> HIDE DEF r
<1>2. /\ state[c] = "handling" /\ state' = [state EXCEPT ![c] = "replied"]
      /\ reply' = [reply EXCEPT ![c] = r]
      /\ UNCHANGED <<served, past, limit, after, snap, got, first, always>>
  BY DEF Answer, r
<1>3. TypeOK'
  BY <1>1, <1>2 DEF PageInv, TypeOK
<1>4. /\ \A d \in Clients \ {c} : state'[d] = state[d] /\ reply'[d] = reply[d]
      /\ state'[c] = "replied" /\ reply'[c] = r
  BY <1>2 DEF PageInv, TypeOK
<1>5. ASSUME NEW d \in Clients
      PROVE  GivenInOrder(d)' /\ NoneSkipped(d)'
  BY <1>2, <1>3, <1>4, NothingGiven
<1>6. ASSUME NEW d \in Clients
      PROVE  HandlerSees(d)'
  <2>1. CASE d = c
    BY <1>1, <1>2, <1>4, <2>1 DEF PageInv, HandlerSees
  <2>2. CASE d # c
    BY <1>2, <1>4, <2>2 DEF PageInv, HandlerSees
  <2> QED BY <2>1, <2>2
<1> QED BY <1>3, <1>5, <1>6 DEF PageInv

Before(s, l) == \A x \in Range(s), y \in Range(l) : x < y

\* Two ascending sequences, the second all greater than the first.
LEMMA AscendingConcat ==
  ASSUME NEW s \in Seq(Nat), NEW l \in Seq(Nat), Ascending(s), Ascending(l), Before(s, l)
  PROVE  Ascending(s \o l) /\ Range(s \o l) = Range(s) \cup Range(l)
<1> DEFINE m == Len(s)
           n == Len(l)
           x == s \o l
<1>1. /\ m \in Nat /\ n \in Nat /\ DOMAIN s = 1 .. m /\ DOMAIN l = 1 .. n
      /\ DOMAIN x = 1 .. m + n
      /\ \A i \in 1 .. m : x[i] = s[i]
      /\ \A i \in m + 1 .. m + n : i - m \in 1 .. n /\ x[i] = l[i - m]
  <2>1. m \in Nat /\ n \in Nat /\ DOMAIN s = 1 .. m /\ DOMAIN l = 1 .. n
    BY LenProperties
  <2>2. /\ x \in Seq(Nat) /\ Len(x) = m + n
        /\ \A i \in 1 .. m + n : x[i] = IF i <= m THEN s[i] ELSE l[i - m]
    BY ConcatProperties
  <2>3. DOMAIN x = 1 .. m + n
    BY <2>2, LenProperties
  <2> HIDE DEF x, m, n
  <2> QED BY <2>1, <2>2, <2>3
<1> HIDE DEF x, m, n
<1>2. ASSUME NEW j \in 1 .. m + n, NEW k \in 1 .. m + n, j < k
      PROVE  x[j] < x[k]
  <2>1. CASE k <= m
    <3>1. j \in 1 .. m /\ k \in 1 .. m
      BY <1>1, <1>2, <2>1
    <3>2. x[j] = s[j] /\ x[k] = s[k] /\ s[j] < s[k]
      BY <1>1, <1>2, <3>1 DEF Ascending
    <3> QED BY <3>2
  <2>2. CASE j > m
    <3>0. j \in m + 1 .. m + n /\ k \in m + 1 .. m + n
      BY <1>1, <1>2, <2>2
    <3>1. j - m \in 1 .. n /\ k - m \in 1 .. n /\ j - m < k - m
      BY <1>1, <1>2, <3>0
    <3>2. x[j] = l[j - m] /\ x[k] = l[k - m]
      BY <1>1, <3>0
    <3>3. l[j - m] < l[k - m]
      BY <1>1, <3>1 DEF Ascending
    <3> QED BY <3>2, <3>3
  <2>3. CASE j <= m /\ k > m
    <3>1. j \in 1 .. m /\ k - m \in 1 .. n /\ x[j] = s[j] /\ x[k] = l[k - m]
      BY <1>1, <1>2, <2>3
    <3>2. s[j] \in Range(s) /\ l[k - m] \in Range(l)
      BY <1>1, <3>1 DEF Range
    <3> QED BY <3>1, <3>2 DEF Before
  <2> QED BY <1>1, <2>1, <2>2, <2>3
<1>3. ASSUME NEW k \in 1 .. m + n
      PROVE  x[k] \in Range(s) \cup Range(l)
  <2>1. k \in 1 .. m \/ k \in m + 1 .. m + n
    BY <1>1
  <2> QED BY <1>1, <2>1 DEF Range
<1>4. ASSUME NEW i \in 1 .. m
      PROVE  s[i] \in Range(x)
  <2>1. i \in 1 .. m + n /\ x[i] = s[i]
    BY <1>1
  <2> QED BY <1>1, <2>1 DEF Range
<1>5. ASSUME NEW i \in 1 .. n
      PROVE  l[i] \in Range(x)
  <2>1. m + i \in m + 1 .. m + n /\ m + i \in 1 .. m + n /\ (m + i) - m = i
    BY <1>1
  <2>2. x[m + i] = l[(m + i) - m]
    BY <1>1, <2>1
  <2> QED BY <1>1, <2>1, <2>2 DEF Range
<1>6. Ascending(x)
  BY <1>1, <1>2 DEF Ascending
<1>7. Range(x) \subseteq Range(s) \cup Range(l)
  BY <1>1, <1>3 DEF Range
<1>8. Range(s) \subseteq Range(x) /\ Range(l) \subseteq Range(x)
  BY <1>1, <1>4, <1>5 DEF Range
<1> QED BY <1>6, <1>7, <1>8 DEF x

\* A page goes after what the client has, and closes the gap up to its cursor.
LEMMA ReceiveKeepsPage ==
  ASSUME PageInv, NEW c \in Clients, Receive(c)
  PROVE  PageInv'
<1> DEFINE r == reply[c]
           L == Listed(r.page)
           a == after[c]
<1>1. /\ IsPage(r, snap[c], a) /\ state[c] = "replied"
      /\ snap[c] \in SUBSET Tickers /\ a \in Nat
      /\ r.next \in Tickers \cup {0} /\ r.next \in Nat
      /\ always[c] \subseteq snap[c]
      /\ got[c] \in Seq(Tickers) /\ got[c] \in Seq(Nat)
  <2>1. /\ IsPage(r, snap[c], a) /\ state[c] = "replied" /\ always[c] \subseteq snap[c]
        /\ snap[c] \in SUBSET Tickers /\ a \in Tickers \cup {0} /\ got[c] \in Seq(Tickers)
    BY DEF PageInv, HandlerSees, TypeOK, Receive
  <2>2. r.next \in Tickers \cup {0}
    BY <2>1 DEF IsPage
  <2>3. Tickers \subseteq Nat /\ \A t \in Tickers \cup {0} : t \in Nat
    BY PagingAssumption
  <2>4. got[c] \in Seq(Nat)
    BY <2>1, <2>3, SeqMonotonic
  <2>5. a \in Nat /\ r.next \in Nat
    BY <2>1, <2>2, <2>3
  <2> HIDE DEF r, a
  <2> QED BY <2>1, <2>2, <2>4, <2>5
<1>2. r.page \in SUBSET Tickers /\ r.page \in SUBSET Nat /\ IsFiniteSet(r.page)
  BY <1>1, PagingAssumption, FS_Subset DEF IsPage
<1>3. L \in Seq(r.page) /\ Ascending(L) /\ Range(L) = r.page
  BY <1>2, ListedInOrder
<1>5. L \in Seq(Tickers) /\ L \in Seq(Nat)
  BY <1>2, <1>3, SeqMonotonic
<1>6. /\ got' = [got EXCEPT ![c] = @ \o L]
      /\ after' = [after EXCEPT ![c] = IF r.next = 0 THEN @ ELSE r.next]
      /\ state' = [state EXCEPT ![c] = IF r.next = 0 THEN "done" ELSE "idle"]
      /\ reply' = [reply EXCEPT ![c] = NoReply]
      /\ snap' = [snap EXCEPT ![c] = {}]
      /\ UNCHANGED <<served, past, limit, first, always>>
  BY DEF Receive
<1> HIDE DEF r, L, a
<1>7. /\ got'[c] = got[c] \o L
      /\ after'[c] = IF r.next = 0 THEN a ELSE r.next
      /\ state'[c] = IF r.next = 0 THEN "done" ELSE "idle"
      /\ \A d \in Clients \ {c} : /\ got'[d] = got[d] /\ after'[d] = after[d]
                                  /\ state'[d] = state[d] /\ reply'[d] = reply[d]
                                  /\ snap'[d] = snap[d]
  BY <1>6 DEF PageInv, TypeOK, a
<1>8. TypeOK'
  <2>1. got' \in [Clients -> Seq(Tickers)]
    BY <1>1, <1>5, <1>6, ConcatProperties DEF PageInv, TypeOK
  <2>2. after' \in [Clients -> Tickers \cup {0}]
    BY <1>1, <1>6 DEF PageInv, TypeOK
  <2>3. NoReply \in [page : SUBSET Tickers, next : Tickers \cup {0}]
    BY DEF NoReply
  <2> QED BY <1>6, <2>1, <2>2, <2>3 DEF PageInv, TypeOK
<1>9. \A t \in Range(got[c]) : t <= a /\ t \in Nat
  BY <1>1 DEF PageInv, GivenInOrder, Range, a
<1>10. Before(got[c], L)
  <2>1. ASSUME NEW x \in Range(got[c]), NEW y \in r.page
        PROVE  x < y
    <3>1. a < y /\ y \in Nat
      BY <1>1, <1>2 DEF IsPage
    <3> QED BY <1>1, <1>9, <3>1
  <2> QED BY <1>3, <2>1 DEF Before
<1>11. Ascending(got'[c]) /\ Range(got'[c]) = Range(got[c]) \cup r.page
  BY <1>1, <1>3, <1>5, <1>7, <1>10, AscendingConcat DEF PageInv, GivenInOrder
<1>12. GivenInOrder(c)' /\ HandlerSees(c)' /\ NoneSkipped(c)'
  <2>1. state'[c] # "done" => \A t \in Range(got'[c]) : t <= after'[c]
    <3>1. SUFFICES ASSUME r.next # 0, NEW t \in Range(got[c]) \cup r.page
                   PROVE  t <= r.next
      BY <1>7, <1>11
    <3>2. r.next > a /\ \A u \in r.page : u <= r.next
      BY <1>1, <3>1 DEF IsPage
    <3>3. \A u \in Range(got[c]) : u <= a /\ u \in Nat
      BY <1>9
    <3> QED BY <1>1, <3>2, <3>3
  <2>2. ASSUME NEW t \in always[c], state'[c] = "done" \/ t <= after'[c]
        PROVE  t \in Range(got[c]) \cup r.page
    <3>1. t \in snap[c] /\ t \in Nat
      BY <1>1, PagingAssumption
    <3>2. CASE t <= a
      BY <3>2 DEF PageInv, NoneSkipped, a
    <3>3. CASE a < t
      <4>1. r.next = 0 \/ t <= r.next
        BY <1>7, <2>2
      <4> QED BY <1>1, <3>1, <3>3, <4>1 DEF IsPage
    <3> QED BY <1>1, <3>1, <3>2, <3>3
  <2>3. HandlerSees(c)'
    BY <1>6, <1>7 DEF PageInv, HandlerSees
  <2> QED BY <1>6, <1>11, <2>1, <2>2, <2>3 DEF GivenInOrder, NoneSkipped
<1>13. ASSUME NEW d \in Clients \ {c}
       PROVE  GivenInOrder(d)' /\ HandlerSees(d)' /\ NoneSkipped(d)'
  <2>1. Range(got'[d]) = Range(got[d])
    BY <1>7
  <2> QED BY <1>6, <1>7, <2>1 DEF PageInv, GivenInOrder, HandlerSees, NoneSkipped
<1> QED BY <1>8, <1>12, <1>13 DEF PageInv

\* A snapshot is swapped in, or the server restarts with a peer's: what was always
\* there may shrink, and nobody's cursor moves.
LEMMA ChurnKeepsPage ==
  ASSUME PageInv, Churn \/ \E S \in SUBSET Tickers : RestartFromPeer(S)
  PROVE  PageInv'
<1>1. CASE Churn
  <2>1. /\ served' \in SUBSET Tickers /\ past' \in SUBSET Tickers
        /\ UNCHANGED <<state, limit, after, snap, reply, got, first>>
        /\ always' = [c \in Clients |-> always[c] \cap served'] \/ UNCHANGED <<always, served>>
    BY <1>1 DEF Churn, Refresh, Replace, Ends, client, PageInv, TypeOK
  <2>2. always' \in [Clients -> SUBSET Tickers]
    BY <2>1 DEF PageInv, TypeOK
  <2>3. TypeOK'
    BY <2>1, <2>2 DEF PageInv, TypeOK
  <2>4. \A c \in Clients : always'[c] \subseteq always[c] /\ always'[c] \subseteq served'
    BY <2>1 DEF PageInv, HandlerSees
  <2>5. \A c \in Clients : GivenInOrder(c)' /\ NoneSkipped(c)'
    BY <2>1, <2>3, <2>4, NothingGiven
  <2>6. \A c \in Clients : HandlerSees(c)'
    BY <2>1, <2>4 DEF PageInv, HandlerSees
  <2> QED BY <2>3, <2>5, <2>6 DEF PageInv
<1>2. ASSUME NEW S \in SUBSET Tickers, RestartFromPeer(S)
      PROVE  PageInv'
  <2>1. TypeOK'
    BY <1>2 DEF RestartFromPeer, NoReply, PageInv, TypeOK
  <2>2. /\ UNCHANGED <<after, got>> /\ served' = S
        /\ \A c \in Clients : /\ always'[c] = always[c] \cap S
                              /\ state'[c] = IF state[c] = "done" THEN "done" ELSE "idle"
    BY <1>2 DEF RestartFromPeer
  <2>3. \A c \in Clients : GivenInOrder(c)' /\ NoneSkipped(c)'
    BY <2>1, <2>2, NothingGiven
  <2>4. \A c \in Clients : HandlerSees(c)'
    BY <2>2 DEF HandlerSees
  <2> QED BY <2>1, <2>3, <2>4 DEF PageInv
<1> QED BY <1>1, <1>2

\* A page leaves the cursor it was asked with behind, and nothing takes one back.
LEMMA PageAdvances ==
  ASSUME PageInv, NEW c \in Clients, [Next]_vars
  PROVE  /\ after'[c] >= after[c]
         /\ Receive(c) => state'[c] = "done" \/ after'[c] > after[c]
<1> DEFINE a == after[c]
           r == reply[c]
<1>1. a \in Nat /\ \A t \in Tickers \cup {0} : t \in Nat
  <2>1. \A t \in Tickers \cup {0} : t \in Nat
    BY PagingAssumption
  <2>2. a \in Tickers \cup {0}
    BY DEF PageInv, TypeOK
  <2> HIDE DEF a
  <2> QED BY <2>1, <2>2
<1>2. ASSUME Receive(c)
      PROVE  IF r.next = 0 THEN after'[c] = a /\ state'[c] = "done"
                           ELSE after'[c] = r.next /\ r.next \in Nat /\ r.next > a
  <2>1. IsPage(r, snap[c], a)
    BY <1>2 DEF Receive, PageInv, HandlerSees
  <2>2. r.next \in Tickers \cup {0}
    BY <2>1 DEF IsPage
  <2>3. /\ after'[c] = IF r.next = 0 THEN a ELSE r.next
        /\ state'[c] = IF r.next = 0 THEN "done" ELSE "idle"
    BY <1>2 DEF Receive, PageInv, TypeOK
  <2>4. r.next # 0 => r.next > a
    BY <2>1 DEF IsPage
  <2> QED BY <1>1, <2>2, <2>3, <2>4
<1>3. ASSUME ~ Receive(c)
      PROVE  after'[c] = a
  <2>1. ASSUME NEW d \in Clients, Request(d)
        PROVE  after'[c] = a
    <3>1. CASE Receive(d)
      BY <1>3, <3>1 DEF Receive, PageInv, TypeOK
    <3>2. CASE ~ Receive(d)
      BY <2>1, <3>2 DEF Request, Send, Reject, TakeSnapshot, Answer, Lose
    <3> QED BY <3>1, <3>2
  <2>2. Churn => UNCHANGED after
    BY DEF Churn, Refresh, Replace, Ends, client
  <2>3. (\E S \in SUBSET Tickers : RestartFromPeer(S)) => UNCHANGED after
    BY DEF RestartFromPeer
  <2>4. UNCHANGED vars => UNCHANGED after
    BY DEF vars, client
  <2> QED BY <2>1, <2>2, <2>3, <2>4 DEF Next
<1> HIDE DEF a, r
<1>4. CASE Receive(c)
  <2>1. after'[c] \in Nat /\ (after'[c] = a \/ after'[c] > a)
    BY <1>1, <1>2, <1>4
  <2>2. after'[c] >= a
    BY <1>1, <2>1
  <2> QED BY <1>2, <1>4, <2>2 DEF a
<1>5. CASE ~ Receive(c)
  BY <1>1, <1>3, <1>5 DEF a
<1> QED BY <1>4, <1>5

\* The invariant holds throughout.
THEOREM PageInvHolds == Spec => []PageInv
<1>1. ASSUME PageInv, [Next]_vars PROVE PageInv'
  <2>1. CASE UNCHANGED vars
    BY <1>1, <2>1 DEF vars, client, PageInv, TypeOK, GivenInOrder, HandlerSees, NoneSkipped,
       IsPage
  <2>2. ASSUME NEW c \in Clients, Request(c)
        PROVE  PageInv'
    BY <1>1, <2>2, AskingKeepsPage, AnswerKeepsPage, ReceiveKeepsPage DEF Request
  <2>3. CASE Churn \/ \E S \in SUBSET Tickers : RestartFromPeer(S)
    BY <1>1, <2>3, ChurnKeepsPage
  <2> QED BY <1>1, <2>1, <2>2, <2>3 DEF Next
<1> QED BY InitPage, <1>1, PTL DEF Spec

\* Snapshots, cursors and replies stay what they are: a page holds tickers, and a
\* cursor is a ticker or none.
THEOREM PagingTypeOK == Spec => []TypeOK
<1>1. PageInv => TypeOK
  BY DEF PageInv
<1> QED BY <1>1, PageInvHolds, PTL

\* However the snapshots change between and during the requests of a client, and
\* however often a page is lost and asked for again, the tickers it is given are in
\* ascending order: none comes twice.
THEOREM PagingNoRepeat == Spec => []NoRepeat
<1>1. PageInv => NoRepeat
  BY DEF PageInv, GivenInOrder, Ascending, NoRepeat
<1> QED BY PageInvHolds, <1>1, PTL

\* A client that reached the last page was given every ticker that every snapshot
\* served since its first page had.
THEOREM PagingNoSkip == Spec => []NoSkip
<1>1. PageInv => NoSkip
  BY DEF PageInv, NoneSkipped, Range, NoSkip
<1> QED BY PageInvHolds, <1>1, PTL

\* Whatever the snapshots are replaced with, a page that is not the last hands out a
\* cursor further on than the one it was asked with, and no step takes one back.
THEOREM PagingCursorAdvances == Spec => CursorAdvances
<1>1. ASSUME PageInv, [Next]_vars
      PROVE  [\A c \in Clients :
                 /\ after'[c] >= after[c]
                 /\ Receive(c) => state'[c] = "done" \/ after'[c] > after[c]]_vars
  BY <1>1, PageAdvances
<1> QED BY <1>1, PageInvHolds, PTL DEF Spec, CursorAdvances
=============================================================================
