-------------------------- MODULE ConnectionProofs --------------------------
(***************************************************************************)
(* Every line of every connection is accounted for, no answer follows a    *)
(* torn one, and none is older than its question: the safety properties of *)
(* Connection, for any number of connections, lines and refreshes and for  *)
(* buffers of any size.                                                    *)
(***************************************************************************)
EXTENDS Connection, TLAPS, FiniteSetTheorems, SequenceTheorems

-----------------------------------------------------------------------------
(* Sequences *)

\* Putting x in the place of the last element of s.
LEMMA LastReplaced ==
  ASSUME NEW S, NEW s \in Seq(S), s # <<>>, NEW x \in S
  PROVE  /\ Append(Front(s), x) \in Seq(S) /\ Len(Append(Front(s), x)) = Len(s)
         /\ Append(Front(s), x)[Len(s)] = x
         /\ \A k \in 1 .. Len(s) - 1 : Append(Front(s), x)[k] = s[k]
         /\ Last(s) \in S /\ Last(s) = s[Len(s)] /\ Len(s) \in Nat \ {0}
<1>1. Len(s) \in Nat \ {0} /\ Last(s) = s[Len(s)] /\ Last(s) \in S
  BY DEF Last
<1>2. Front(s) \in Seq(S) /\ Len(Front(s)) = Len(s) - 1
  <2> DEFINE n == Len(s) - 1
  <2>1. n \in Nat /\ \A k \in 1 .. n : s[k] \in S
    BY <1>1
  <2> HIDE DEF n
  <2>2. SubSeq(s, 1, n) \in Seq(S) /\ Len(SubSeq(s, 1, n)) = IF 1 <= n THEN n - 1 + 1 ELSE 0
    BY <2>1, SubSeqProperties
  <2>3. Len(SubSeq(s, 1, n)) = n
    BY <2>1, <2>2
  <2>4. QED  BY <2>2, <2>3 DEF Front, n
<1>3. \A k \in 1 .. Len(s) - 1 : Front(s)[k] = s[k]
  BY <1>1 DEF Front
<1> DEFINE f == Front(s)
<1> HIDE DEF f
<1>4. /\ f \in Seq(S) /\ Len(f) = Len(s) - 1
      /\ \A k \in 1 .. Len(s) - 1 : f[k] = s[k]
  BY <1>2, <1>3 DEF f
<1>5. /\ Append(f, x) \in Seq(S) /\ Len(Append(f, x)) = Len(f) + 1
      /\ Append(f, x)[Len(f) + 1] = x
      /\ \A k \in 1 .. Len(f) : Append(f, x)[k] = f[k]
  BY <1>4, AppendProperties
<1>6. Len(f) + 1 = Len(s)
  BY <1>1, <1>4
<1>7. QED  BY <1>1, <1>4, <1>5, <1>6 DEF f

LEMMA LastElement ==
  ASSUME NEW S, NEW s \in Seq(S), s # <<>>
  PROVE  Last(s) \in S /\ Last(s) = s[Len(s)] /\ Len(s) \in Nat \ {0}
BY DEF Last

LEMMA HeadAndTail ==
  ASSUME NEW S, NEW s \in Seq(S), s # <<>>
  PROVE  /\ Head(s) = s[1] /\ Head(s) \in S /\ Tail(s) \in Seq(S)
         /\ Len(s) \in Nat \ {0} /\ Len(Tail(s)) = Len(s) - 1
         /\ \A k \in 1 .. Len(s) - 1 : Tail(s)[k] = s[k + 1]
  BY HeadTailProperties

\* Adding the one element of x to s.
LEMMA OneMore ==
  ASSUME NEW S, NEW s \in Seq(S), NEW x \in Seq(S), Len(x) = 1
  PROVE  /\ s \o x \in Seq(S) /\ Len(s) \in Nat /\ Len(s \o x) = Len(s) + 1
         /\ (s \o x)[Len(s) + 1] = x[1] /\ x[1] \in S
         /\ \A k \in 1 .. Len(s) : (s \o x)[k] = s[k]
<1> DEFINE r == s \o x
<1>1. /\ r \in Seq(S) /\ Len(r) = Len(s) + 1 /\ Len(s) \in Nat
      /\ \A k \in 1 .. Len(s) + 1 : r[k] = IF k <= Len(s) THEN s[k] ELSE x[k - Len(s)]
  <2>1. /\ r \in Seq(S) /\ Len(r) = Len(s) + Len(x)
        /\ \A k \in 1 .. Len(s) + Len(x) : r[k] = IF k <= Len(s) THEN s[k] ELSE x[k - Len(s)]
    BY ConcatProperties
  <2> HIDE DEF r
  <2>2. Len(s) \in Nat /\ Len(s) + Len(x) = Len(s) + 1
    OBVIOUS
  <2>3. QED  BY <2>1, <2>2
<1>2. x[1] \in S /\ Len(s) + 1 - Len(s) = 1
  <2>1. 1 \in 1 .. Len(x)
    OBVIOUS
  <2>2. x[1] \in S
    BY <2>1
  <2>3. QED  BY <1>1, <2>2
<1> HIDE DEF r
<1>3. r[Len(s) + 1] = x[1]
  BY <1>1, <1>2
<1>4. \A k \in 1 .. Len(s) : r[k] = s[k]
  BY <1>1
<1>5. QED  BY <1>1, <1>2, <1>3, <1>4 DEF r

-----------------------------------------------------------------------------
(* Counting the lines of an inbox that want an answer *)

LEMMA WantedCounts ==
  ASSUME NEW q \in Seq(Piece)
  PROVE  /\ Wanted(q) \subseteq 1 .. Len(q) /\ IsFiniteSet(Wanted(q))
         /\ Cardinality(Wanted(q)) \in Nat
         /\ \A j \in Wanted(q) :
              Rank(q, j) \in Nat \ {0} /\ Rank(q, j) <= Cardinality(Wanted(q))
<1>1. Wanted(q) \subseteq 1 .. Len(q) /\ Len(q) \in Nat
  BY DEF Wanted
<1>2. IsFiniteSet(Wanted(q))
  <2>1. IsFiniteSet(1 .. Len(q))
    BY <1>1, FS_Interval
  <2>2. QED  BY <1>1, <2>1, FS_Subset
<1>3. Cardinality(Wanted(q)) \in Nat
  BY <1>2, FS_CardinalityType
<1>4. ASSUME NEW j \in Wanted(q)
      PROVE  Rank(q, j) \in Nat \ {0} /\ Rank(q, j) <= Cardinality(Wanted(q))
  <2> DEFINE U == {m \in Wanted(q) : m <= j}
  <2>1. U \in SUBSET Wanted(q) /\ j \in U
    BY <1>1
  <2>2. IsFiniteSet(U) /\ Cardinality(U) <= Cardinality(Wanted(q))
    BY <1>2, <2>1, FS_Subset
  <2>3. Cardinality(U) \in Nat /\ Cardinality(U) # 0
    BY <2>1, <2>2, FS_CardinalityType, FS_EmptySet
  <2>4. QED  BY <2>2, <2>3 DEF Rank
<1>5. QED  BY <1>1, <1>2, <1>3, <1>4

\* A line that is written is the last that is waited for, if it is.
LEMMA WantedMore ==
  ASSUME NEW q \in Seq(Piece), NEW p \in Piece
  PROVE  /\ p.line.kind = "blank" =>
              /\ Wanted(Append(q, p)) = Wanted(q)
              /\ \A j \in Wanted(q) : Rank(Append(q, p), j) = Rank(q, j)
         /\ p.line.kind # "blank" =>
              /\ Wanted(Append(q, p)) = Wanted(q) \cup {Len(q) + 1}
              /\ Cardinality(Wanted(Append(q, p))) = Cardinality(Wanted(q)) + 1
              /\ \A j \in Wanted(q) : Rank(Append(q, p), j) = Rank(q, j)
              /\ Rank(Append(q, p), Len(q) + 1) = Cardinality(Wanted(q)) + 1
<1> DEFINE r == Append(q, p)
<1>1. /\ r \in Seq(Piece) /\ Len(q) \in Nat /\ DOMAIN q = 1 .. Len(q)
      /\ DOMAIN r = 1 .. Len(q) + 1
      /\ r[Len(q) + 1] = p /\ \A k \in 1 .. Len(q) : r[k] = q[k]
  OBVIOUS
<1>2. Wanted(q) \subseteq 1 .. Len(q) /\ IsFiniteSet(Wanted(q)) /\ Len(q) + 1 \notin Wanted(q)
  BY <1>1, WantedCounts
<1> HIDE DEF r
<1>3. CASE p.line.kind = "blank"
  <2>1. Wanted(r) = Wanted(q)
    BY <1>1, <1>3 DEF Wanted
  <2>2. \A j \in Wanted(q) : Rank(r, j) = Rank(q, j)
    BY <2>1 DEF Rank
  <2>3. QED  BY <1>3, <2>1, <2>2 DEF r
<1>4. CASE p.line.kind # "blank"
  <2>1. Wanted(r) = Wanted(q) \cup {Len(q) + 1}
    BY <1>1, <1>4 DEF Wanted
  <2>2. Cardinality(Wanted(r)) = Cardinality(Wanted(q)) + 1
    BY <1>2, <2>1, FS_AddElement
  <2>3. ASSUME NEW j \in Wanted(q)
        PROVE  Rank(r, j) = Rank(q, j)
    <3>1. {m \in Wanted(r) : m <= j} = {m \in Wanted(q) : m <= j}
      BY <1>1, <1>2, <2>1
    <3>2. QED  BY <3>1 DEF Rank
  <2>4. Rank(r, Len(q) + 1) = Cardinality(Wanted(r))
    <3>1. {m \in Wanted(r) : m <= Len(q) + 1} = Wanted(r)
      BY <1>1, <1>2, <2>1
    <3>2. QED  BY <3>1 DEF Rank
  <2>5. QED  BY <1>4, <2>1, <2>2, <2>3, <2>4 DEF r
<1>5. QED  BY <1>3, <1>4

\* The first line that is taken leaves the others in their order.
LEMMA ShiftedCount ==
  ASSUME NEW T \in SUBSET Nat, IsFiniteSet(T)
  PROVE  Cardinality({j + 1 : j \in T}) = Cardinality(T)
<1> DEFINE D == {j + 1 : j \in T}
           f == [j \in T |-> j + 1]
<1>1. f \in Bijection(T, D)
  <2>1. f \in [T -> D] /\ \A d \in D : \E j \in T : f[j] = d
    OBVIOUS
  <2>2. \A j, k \in T : f[j] = f[k] => j = k
    OBVIOUS
  <2>3. QED  BY <2>1, <2>2 DEF Bijection, Injection, Surjection, IsInjective
<1>2. QED  BY <1>1, FS_Bijection DEF ExistsBijection

LEMMA WantedLess ==
  ASSUME NEW q \in Seq(Piece), q # <<>>
  PROVE  /\ q[1].line.kind = "blank" =>
              /\ Cardinality(Wanted(q)) = Cardinality(Wanted(Tail(q)))
              /\ \A j \in Wanted(Tail(q)) :
                   j + 1 \in Wanted(q) /\ Rank(q, j + 1) = Rank(Tail(q), j)
         /\ q[1].line.kind # "blank" =>
              /\ 1 \in Wanted(q) /\ Rank(q, 1) = 1
              /\ Cardinality(Wanted(q)) = Cardinality(Wanted(Tail(q))) + 1
              /\ \A j \in Wanted(Tail(q)) :
                   j + 1 \in Wanted(q) /\ Rank(q, j + 1) = Rank(Tail(q), j) + 1
<1> DEFINE t == Tail(q)
           W == Wanted(q)
           V == Wanted(t)
           Up(T) == {j + 1 : j \in T}
<1>1. /\ t \in Seq(Piece) /\ Len(q) \in Nat \ {0} /\ Len(t) = Len(q) - 1
      /\ DOMAIN q = 1 .. Len(q) /\ DOMAIN t = 1 .. Len(q) - 1
      /\ \A k \in 1 .. Len(q) - 1 : t[k] = q[k + 1]
  BY HeadAndTail
<1>2. /\ W \subseteq 1 .. Len(q) /\ IsFiniteSet(W)
      /\ V \subseteq 1 .. Len(q) - 1 /\ IsFiniteSet(V)
  BY <1>1, WantedCounts
<1> HIDE DEF t
<1>3. \A k \in 1 .. Len(q) - 1 : k \in V <=> k + 1 \in W
  BY <1>1 DEF Wanted
<1>4. W \ {1} = Up(V)
  <2>1. ASSUME NEW m \in W \ {1}
        PROVE  m \in Up(V)
    <3>1. m - 1 \in 1 .. Len(q) - 1 /\ (m - 1) + 1 = m
      BY <1>1, <1>2
    <3>2. QED  BY <1>3, <3>1
  <2>2. ASSUME NEW m \in V
        PROVE  m + 1 \in W \ {1}
    BY <1>1, <1>2, <1>3
  <2> HIDE DEF W, V
  <2>3. QED  BY <2>1, <2>2
<1>5. \A j \in V : {m \in W : m <= j + 1} \ {1} = Up({m \in V : m <= j})
  <2>1. ASSUME NEW j \in V, NEW m \in W, m <= j + 1, m # 1
        PROVE  m \in Up({n \in V : n <= j})
    <3>1. m - 1 \in 1 .. Len(q) - 1 /\ (m - 1) + 1 = m /\ m - 1 <= j
      BY <1>1, <1>2, <2>1
    <3>2. QED  BY <1>3, <3>1
  <2>2. ASSUME NEW j \in V, NEW m \in V, m <= j
        PROVE  m + 1 \in W /\ m + 1 <= j + 1 /\ m + 1 # 1
    BY <1>1, <1>2, <1>3, <2>2
  <2> HIDE DEF W, V
  <2>3. QED  BY <2>1, <2>2
<1> HIDE DEF W, V
<1>6. Cardinality(Up(V)) = Cardinality(V)
  BY <1>1, <1>2, ShiftedCount
<1>7. ASSUME NEW j \in V
      PROVE  /\ IsFiniteSet({m \in V : m <= j})
             /\ Cardinality(Up({m \in V : m <= j})) = Cardinality({m \in V : m <= j})
  <2>1. {m \in V : m <= j} \in SUBSET V /\ {m \in V : m <= j} \in SUBSET Nat
    <3>1. 1 .. Len(q) - 1 \subseteq Nat
      BY <1>1
    <3>2. QED  BY <1>2, <3>1
  <2>2. IsFiniteSet({m \in V : m <= j})
    BY <1>2, <2>1, FS_Subset
  <2>3. QED  BY <2>1, <2>2, ShiftedCount
<1>8. \A j \in V : j + 1 \in W
  BY <1>2, <1>3
<1>9. CASE q[1].line.kind = "blank"
  <2>1. 1 \notin W
    BY <1>1, <1>9 DEF W, Wanted
  <2>2. Cardinality(W) = Cardinality(V)
    BY <1>4, <1>6, <2>1
  <2>3. ASSUME NEW j \in V
        PROVE  Rank(q, j + 1) = Rank(t, j)
    <3>1. {m \in W : m <= j + 1} = Up({m \in V : m <= j})
      BY <1>5, <2>1
    <3>2. QED  BY <1>7, <3>1 DEF Rank, W, V
  <2>4. QED  BY <1>8, <1>9, <2>2, <2>3 DEF W, V, t
<1>10. CASE q[1].line.kind # "blank"
  <2>1. 1 \in W
    BY <1>1, <1>10 DEF W, Wanted
  <2>2. Cardinality(W) = Cardinality(V) + 1
    <3>1. IsFiniteSet(W \ {1}) /\ W = (W \ {1}) \cup {1} /\ 1 \notin W \ {1}
      BY <1>2, <2>1, FS_RemoveElement
    <3>2. Cardinality(W) = Cardinality(W \ {1}) + 1
      BY <3>1, FS_AddElement
    <3>3. QED  BY <1>4, <1>6, <3>2
  <2>3. ASSUME NEW j \in V
        PROVE  Rank(q, j + 1) = Rank(t, j) + 1
    <3> DEFINE X == {m \in W : m <= j + 1}
    <3>1. X \in SUBSET W /\ 1 \in X
      BY <1>1, <1>2, <2>1
    <3>2. IsFiniteSet(X)
      BY <1>2, <3>1, FS_Subset
    <3>3. IsFiniteSet(X \ {1}) /\ X = (X \ {1}) \cup {1} /\ 1 \notin X \ {1}
      BY <3>1, <3>2, FS_RemoveElement
    <3>4. Cardinality(X) = Cardinality(X \ {1}) + 1
      BY <3>3, FS_AddElement
    <3>5. Cardinality(X \ {1}) = Cardinality({m \in V : m <= j})
      BY <1>5, <1>7
    <3>6. QED  BY <3>4, <3>5 DEF Rank, W, V
  <2>4. Rank(q, 1) = 1
    <3>1. {m \in W : m <= 1} = {1}
      <4>1. \A m \in W : m <= 1 => m = 1
        BY <1>1, <1>2
      <4>2. QED  BY <2>1, <4>1
    <3>2. QED  BY <3>1, FS_Singleton DEF Rank, W
  <2>5. QED  BY <1>8, <1>10, <2>1, <2>2, <2>3, <2>4 DEF W, V, t
<1>11. QED  BY <1>9, <1>10

\* A line is finished where it was begun, behind all others.
LEMMA WantedSame ==
  ASSUME NEW q \in Seq(Piece), NEW r \in Seq(Piece), Len(q) = Len(r), q # <<>>,
         \A k \in 1 .. Len(q) : q[k].line.kind = r[k].line.kind,
         q[Len(q)].line.kind # "blank"
  PROVE  /\ Wanted(r) = Wanted(q) /\ \A j \in Wanted(q) : Rank(r, j) = Rank(q, j)
         /\ Len(q) \in Wanted(q) /\ Rank(q, Len(q)) = Cardinality(Wanted(q))
         /\ \A j \in Wanted(q) : j # Len(q) => Rank(q, j) < Cardinality(Wanted(q))
<1>1. /\ Len(q) \in Nat \ {0} /\ DOMAIN q = 1 .. Len(q) /\ DOMAIN r = 1 .. Len(q)
  BY HeadAndTail
<1>2. Wanted(r) = Wanted(q) /\ Len(q) \in Wanted(q)
  BY <1>1 DEF Wanted
<1>3. \A j \in Wanted(q) : Rank(r, j) = Rank(q, j)
  BY <1>2 DEF Rank
<1>4. Wanted(q) \subseteq 1 .. Len(q) /\ IsFiniteSet(Wanted(q)) /\ Cardinality(Wanted(q)) \in Nat
  BY WantedCounts
<1>5. Rank(q, Len(q)) = Cardinality(Wanted(q))
  <2>1. {m \in Wanted(q) : m <= Len(q)} = Wanted(q)
    BY <1>1, <1>4
  <2>2. QED  BY <2>1 DEF Rank
<1>6. ASSUME NEW j \in Wanted(q), j # Len(q)
      PROVE  Rank(q, j) < Cardinality(Wanted(q))
  <2> DEFINE U == {m \in Wanted(q) : m <= j}
  <2>1. U \in SUBSET Wanted(q) /\ Len(q) \notin U
    BY <1>1, <1>4, <1>6
  <2>2. /\ Cardinality(U) <= Cardinality(Wanted(q)) /\ IsFiniteSet(U)
        /\ Cardinality(U) # Cardinality(Wanted(q))
    BY <1>2, <1>4, <2>1, FS_Subset
  <2>3. Cardinality(U) \in Nat
    BY <2>2, FS_CardinalityType
  <2>4. QED  BY <1>4, <2>2, <2>3 DEF Rank
<1>7. QED  BY <1>2, <1>3, <1>5, <1>6

-----------------------------------------------------------------------------
(* Types *)

ProcessTypes == up \in BOOLEAN /\ version \in 0 .. MaxSwaps
ClientTypes == client \in [Conns -> {"absent", "open", "half", "gone"}]
Phases == {"none", "queued", "starting", "reading", "answering", "writing", "newline", "closed"}
InboxTypes == inbox \in [Conns -> Seq(Piece)] /\ \A c \in Conns : Len(inbox[c]) <= InboxCap
WireTypes == wire \in [Conns -> Seq(Answers)] /\ \A c \in Conns : Len(wire[c]) <= WireCap
OwedTypes == owed \in [Conns -> Seq(Line)]

\* What a thread has in hand in phase p.
Fits(p, x) ==
  /\ p = "answering" => x \in Seq(Line) /\ Len(x) = 1
  /\ p \in {"writing", "newline"} => x \in Seq(Answers) /\ Len(x) = 1
  /\ p \notin {"answering", "writing", "newline"} => x = <<>>
HandTypes ==
  /\ h \in [Conns -> Phases] /\ DOMAIN hand = Conns
  /\ \A c \in Conns : Fits(h[c], hand[c])

AllTypes ==
  ProcessTypes /\ ClientTypes /\ HandTypes /\ InboxTypes /\ WireTypes /\ OwedTypes

LEMMA TypeParts == (TypeOK <=> AllTypes) /\ (TypeOK' <=> AllTypes')
BY DEF TypeOK, AllTypes, ProcessTypes, ClientTypes, HandTypes, Phases, Fits, InboxTypes, WireTypes,
       OwedTypes

LEMMA TypesStay ==
  /\ UNCHANGED <<up, version>> => (ProcessTypes <=> ProcessTypes')
  /\ UNCHANGED client => (ClientTypes <=> ClientTypes')
  /\ UNCHANGED <<h, hand>> => (HandTypes <=> HandTypes')
  /\ UNCHANGED inbox => (InboxTypes <=> InboxTypes')
  /\ UNCHANGED wire => (WireTypes <=> WireTypes')
  /\ UNCHANGED owed => (OwedTypes <=> OwedTypes')
BY DEF ProcessTypes, ClientTypes, HandTypes, InboxTypes, WireTypes, OwedTypes

\* A thread goes on to a phase with what that phase has in hand.
LEMMA GoesKeepsTypes ==
  ASSUME HandTypes, NEW c \in Conns, NEW p \in Phases, NEW x, Goes(c, p, x), Fits(p, x)
  PROVE  HandTypes'
BY DEF HandTypes, Goes

\* A thread goes on to a phase of the same hand.
LEMMA PhaseKeepsTypes ==
  ASSUME HandTypes, NEW c \in Conns, NEW p \in Phases \ {"answering", "writing", "newline"},
         h[c] \notin {"answering", "writing", "newline"},
         h' = [h EXCEPT ![c] = p], UNCHANGED hand
  PROVE  HandTypes'
BY DEF HandTypes, Fits

LEMMA CloseKeepsTypes ==
  ASSUME HandTypes, InboxTypes, NEW c \in Conns, Close(c)
  PROVE  HandTypes' /\ InboxTypes'
<1>1. HandTypes'
  BY GoesKeepsTypes DEF Close, Phases, Fits
<1>2. <<>> \in Seq(Piece) /\ Len(<<>>) <= InboxCap
  BY ConnectionBounds
<1>3. QED  BY <1>1, <1>2 DEF Close, InboxTypes

-----------------------------------------------------------------------------
(* The invariant *)

\* A connection has a thread from connect until it is closed.
Resting(c) ==
  /\ h[c] = "none" => client[c] = "absent"
  /\ client[c] = "absent" => h[c] \in {"none", "closed"}

\* The lines o that the client waits for are: first those answered in w, ...
Answered(w, o) == Len(w) <= Len(o) /\ \A k \in 1 .. Len(w) : o[k] = w[k].to

\* ... then the one the thread has in hand, in phase p, and not answered yet, ...
HasLine(p) == p \in {"answering", "writing"}
LineInHand(p, x) == IF p = "answering" THEN x[1] ELSE x[1].to
InHand(p, x, w, o) == HasLine(p) => Len(w) < Len(o) /\ o[Len(w) + 1] = LineInHand(p, x)

\* ... which makes n, then those of the inbox q that are not blank.
Held(p, w) == Len(w) + IF HasLine(p) THEN 1 ELSE 0
Unread(n, q, o) ==
  /\ Len(o) = n + Cardinality(Wanted(q))
  /\ \A j \in Wanted(q) : o[n + Rank(q, j)] = q[j].line

Accounts(c) ==
  /\ Answered(wire[c], owed[c])
  /\ InHand(h[c], hand[c], wire[c], owed[c])
  /\ h[c] # "closed" => Unread(Held(h[c], wire[c]), inbox[c], owed[c])

\* A line that has only begun is one to be answered.
BlankWhole(c) ==
  \A j \in DOMAIN inbox[c] : inbox[c][j].line.kind = "blank" => inbox[c][j].ended

\* An answer without its newline is the last on its connection, and there as long
\* as its newline is to be written.
TornLast(c) ==
  /\ \A k \in 1 .. Len(wire[c]) :
       wire[c][k].ended \/ (k = Len(wire[c]) /\ h[c] \in {"newline", "closed"})
  /\ h[c] = "newline" /\ Listens(c) => wire[c] # <<>> /\ ~ wire[c][Len(wire[c])].ended
  /\ h[c] = "writing" => ~ hand[c][1].ended

\* A line comes from the past, and its answer from between its line and now.
Stamped(c) ==
  /\ \A j \in DOMAIN inbox[c] : inbox[c][j].line.at <= version
  /\ h[c] = "answering" => hand[c][1].at <= version
  /\ h[c] = "writing" => hand[c][1].ver \in hand[c][1].to.at .. version
  /\ \A k \in 1 .. Len(wire[c]) : wire[c][k].ver \in wire[c][k].to.at .. version

Good(c) ==
  /\ Resting(c) /\ BlankWhole(c) /\ TornLast(c) /\ Stamped(c)
  /\ Listens(c) => Accounts(c)

ConnInv == TypeOK /\ \A c \in Conns : Good(c)

-----------------------------------------------------------------------------
(* What becomes of the lines waited for *)

\* A line is written; a blank one is not waited for.
LEMMA UnreadMore ==
  ASSUME NEW q \in Seq(Piece), NEW p \in Piece, NEW o \in Seq(Line), NEW n \in Nat,
         Unread(n, q, o)
  PROVE  /\ p.line.kind = "blank" => Unread(n, Append(q, p), o)
         /\ p.line.kind # "blank" => Unread(n, Append(q, p), Append(o, p.line))
<1> DEFINE r == Append(q, p)
           C == Cardinality(Wanted(q))
<1>1. /\ DOMAIN q = 1 .. Len(q) /\ Len(q) \in Nat
      /\ r[Len(q) + 1] = p /\ \A k \in 1 .. Len(q) : r[k] = q[k]
  OBVIOUS
<1>2. /\ Wanted(q) \subseteq 1 .. Len(q) /\ C \in Nat
      /\ \A j \in Wanted(q) : Rank(q, j) \in Nat \ {0} /\ Rank(q, j) <= C
  BY WantedCounts
<1>3. Len(o) = n + C /\ \A j \in Wanted(q) : o[n + Rank(q, j)] = q[j].line
  BY DEF Unread
<1>4. CASE p.line.kind = "blank"
  <2>1. Wanted(r) = Wanted(q) /\ \A j \in Wanted(q) : Rank(r, j) = Rank(q, j)
    BY <1>4, WantedMore
  <2> HIDE DEF r, C
  <2>2. Unread(n, r, o)
    BY <1>1, <1>2, <1>3, <2>1 DEF Unread, C
  <2>3. QED  BY <1>4, <2>2 DEF r
<1>5. CASE p.line.kind # "blank"
  <2> DEFINE o2 == Append(o, p.line)
  <2>1. /\ Wanted(r) = Wanted(q) \cup {Len(q) + 1} /\ Cardinality(Wanted(r)) = C + 1
        /\ \A j \in Wanted(q) : Rank(r, j) = Rank(q, j)
        /\ Rank(r, Len(q) + 1) = C + 1
    BY <1>5, WantedMore
  <2>2. /\ Len(o2) = Len(o) + 1 /\ o2[Len(o) + 1] = p.line
        /\ \A k \in 1 .. Len(o) : o2[k] = o[k]
    BY DEF Piece
  <2> HIDE DEF r, C, o2
  <2>3. Len(o2) = n + Cardinality(Wanted(r))
    BY <1>2, <1>3, <2>1, <2>2
  <2>4. ASSUME NEW j \in Wanted(q)
        PROVE  o2[n + Rank(r, j)] = r[j].line
    <3>1. n + Rank(q, j) \in 1 .. Len(o)
      BY <1>2, <1>3
    <3>2. o2[n + Rank(q, j)] = o[n + Rank(q, j)]
      BY <2>2, <3>1
    <3>3. r[j] = q[j]
      BY <1>1, <1>2
    <3>4. QED  BY <1>3, <2>1, <3>2, <3>3
  <2>5. o2[n + Rank(r, Len(q) + 1)] = r[Len(q) + 1].line
    <3>1. n + Rank(r, Len(q) + 1) = Len(o) + 1
      BY <1>2, <1>3, <2>1
    <3>2. QED  BY <1>1, <2>2, <3>1
  <2>6. Unread(n, r, o2)
    BY <2>1, <2>3, <2>4, <2>5 DEF Unread
  <2>7. QED  BY <1>5, <2>6 DEF r, o2
<1>6. QED  BY <1>4, <1>5

\* The first line of the inbox is taken; unless it is blank it is the first that
\* is waited for.
LEMMA UnreadLess ==
  ASSUME NEW q \in Seq(Piece), q # <<>>, NEW o \in Seq(Line), NEW n \in Nat,
         Unread(n, q, o)
  PROVE  /\ q[1].line.kind = "blank" => Unread(n, Tail(q), o)
         /\ q[1].line.kind # "blank" =>
              /\ n < Len(o) /\ o[n + 1] = q[1].line
              /\ Unread(n + 1, Tail(q), o)
<1> DEFINE t == Tail(q)
           C == Cardinality(Wanted(q))
           D == Cardinality(Wanted(t))
<1>1. /\ t \in Seq(Piece) /\ Len(q) \in Nat \ {0}
      /\ \A k \in 1 .. Len(q) - 1 : t[k] = q[k + 1]
      /\ Wanted(t) \subseteq 1 .. Len(q) - 1 /\ C \in Nat /\ D \in Nat
      /\ \A j \in Wanted(t) : Rank(t, j) \in Nat
  <2>1. /\ t \in Seq(Piece) /\ Len(q) \in Nat \ {0} /\ Len(t) = Len(q) - 1
        /\ \A k \in 1 .. Len(q) - 1 : t[k] = q[k + 1]
    BY HeadAndTail
  <2>2. QED  BY <2>1, WantedCounts
<1>2. Len(o) = n + C /\ \A j \in Wanted(q) : o[n + Rank(q, j)] = q[j].line
  BY DEF Unread
<1>3. CASE q[1].line.kind = "blank"
  <2>1. C = D /\ \A j \in Wanted(t) : j + 1 \in Wanted(q) /\ Rank(q, j + 1) = Rank(t, j)
    BY <1>3, WantedLess
  <2> HIDE DEF t, C, D
  <2>2. ASSUME NEW j \in Wanted(t)
        PROVE  o[n + Rank(t, j)] = t[j].line
    BY <1>1, <1>2, <2>1
  <2>3. Unread(n, t, o)
    BY <1>2, <2>1, <2>2 DEF Unread, D
  <2>4. QED  BY <1>3, <2>3 DEF t
<1>4. CASE q[1].line.kind # "blank"
  <2>1. /\ 1 \in Wanted(q) /\ Rank(q, 1) = 1 /\ C = D + 1
        /\ \A j \in Wanted(t) : j + 1 \in Wanted(q) /\ Rank(q, j + 1) = Rank(t, j) + 1
    BY <1>4, WantedLess
  <2> HIDE DEF t, C, D
  <2>2. n < Len(o) /\ o[n + 1] = q[1].line
    <3>1. o[n + Rank(q, 1)] = q[1].line
      BY <1>2, <2>1
    <3>2. Len(o) = n + (D + 1)
      BY <1>2, <2>1
    <3>3. QED  BY <1>1, <2>1, <3>1, <3>2
  <2>3. ASSUME NEW j \in Wanted(t)
        PROVE  o[(n + 1) + Rank(t, j)] = t[j].line
    <3>1. (n + 1) + Rank(t, j) = n + Rank(q, j + 1)
      BY <1>1, <2>1
    <3>2. QED  BY <1>1, <1>2, <2>1, <3>1
  <2>4. Len(o) = (n + 1) + D
    BY <1>1, <1>2, <2>1
  <2>5. Unread(n + 1, t, o)
    BY <2>3, <2>4 DEF Unread, D
  <2>6. QED  BY <1>4, <2>2, <2>5 DEF t
<1>5. QED  BY <1>3, <1>4

\* The last line of the inbox is finished as p, the last that is waited for.
LEMMA UnreadEnd ==
  ASSUME NEW q \in Seq(Piece), q # <<>>, NEW o \in Seq(Line), NEW n \in Nat,
         Unread(n, q, o), NEW p \in Piece,
         p.line.kind = Last(q).line.kind, p.line.kind # "blank"
  PROVE  /\ n < Len(o)
         /\ Unread(n, Append(Front(q), p), Append(Front(o), p.line))
<1> DEFINE r == Append(Front(q), p)
           o2 == Append(Front(o), p.line)
           C == Cardinality(Wanted(q))
<1>1. /\ r \in Seq(Piece) /\ Len(r) = Len(q) /\ r[Len(q)] = p
      /\ \A k \in 1 .. Len(q) - 1 : r[k] = q[k]
      /\ Last(q) = q[Len(q)] /\ Len(q) \in Nat \ {0}
  <2>1. /\ r \in Seq(Piece) /\ Len(r) = Len(q) /\ r[Len(q)] = p
        /\ \A k \in 1 .. Len(q) - 1 : r[k] = q[k]
    BY LastReplaced
  <2>2. Last(q) = q[Len(q)] /\ Len(q) \in Nat \ {0}
    BY LastReplaced
  <2>3. QED  BY <2>1, <2>2
<1>2. \A k \in 1 .. Len(q) : q[k].line.kind = r[k].line.kind
  <2> HIDE DEF r
  <2>1. \A k \in 1 .. Len(q) : k \in 1 .. Len(q) - 1 \/ k = Len(q)
    BY <1>1
  <2>2. \A k \in 1 .. Len(q) - 1 : q[k].line.kind = r[k].line.kind
    BY <1>1
  <2>3. q[Len(q)].line.kind = r[Len(q)].line.kind
    BY <1>1
  <2>4. QED  BY <2>1, <2>2, <2>3
<1>3. /\ Wanted(r) = Wanted(q) /\ \A j \in Wanted(q) : Rank(r, j) = Rank(q, j)
      /\ Len(q) \in Wanted(q) /\ Rank(q, Len(q)) = C
      /\ \A j \in Wanted(q) : j # Len(q) => Rank(q, j) < C
  <2>1. q[Len(q)].line.kind # "blank"
    BY <1>1
  <2> HIDE DEF r
  <2>2. QED  BY <1>1, <1>2, <2>1, WantedSame
<1>4. /\ Wanted(q) \subseteq 1 .. Len(q) /\ C \in Nat
      /\ \A j \in Wanted(q) : Rank(q, j) \in Nat \ {0} /\ Rank(q, j) <= C
  BY WantedCounts
<1>5. Len(o) = n + C /\ \A j \in Wanted(q) : o[n + Rank(q, j)] = q[j].line
  BY DEF Unread
<1> HIDE DEF r, C
<1>6. n < Len(o)
  BY <1>3, <1>4, <1>5
<1>7. /\ Len(o2) = Len(o) /\ o2[Len(o)] = p.line
      /\ \A k \in 1 .. Len(o) - 1 : o2[k] = o[k]
  <2>1. o # <<>> /\ p.line \in Line
    BY <1>6 DEF Piece
  <2>2. QED  BY <2>1, LastReplaced
<1> HIDE DEF o2
<1>8. ASSUME NEW j \in Wanted(q)
      PROVE  o2[n + Rank(r, j)] = r[j].line
  <2>1. CASE j = Len(q)
    BY <1>1, <1>3, <1>5, <1>7, <2>1
  <2>2. CASE j # Len(q)
    <3>1. n + Rank(q, j) \in 1 .. Len(o) - 1 /\ j \in 1 .. Len(q) - 1
      BY <1>1, <1>3, <1>4, <1>5, <2>2
    <3>2. QED  BY <1>1, <1>3, <1>5, <1>7, <3>1
  <2>3. QED  BY <2>1, <2>2
<1>9. Unread(n, r, o2)
  BY <1>3, <1>5, <1>7, <1>8 DEF Unread, C
<1>10. QED  BY <1>6, <1>9 DEF r, o2

\* The client takes the answer to the oldest of the lines it waits for.
LEMMA UnreadReceive ==
  ASSUME NEW q \in Seq(Piece), NEW o \in Seq(Line), o # <<>>, NEW n \in Nat,
         Unread(n + 1, q, o)
  PROVE  Unread(n, q, Tail(o))
<1>1. /\ \A j \in Wanted(q) : Rank(q, j) \in Nat \ {0} /\ Rank(q, j) <= Cardinality(Wanted(q))
      /\ Cardinality(Wanted(q)) \in Nat
  BY WantedCounts
<1>2. /\ Len(o) = (n + 1) + Cardinality(Wanted(q))
      /\ \A j \in Wanted(q) : o[(n + 1) + Rank(q, j)] = q[j].line
  BY DEF Unread
<1>3. /\ Len(o) \in Nat \ {0} /\ Len(Tail(o)) = Len(o) - 1
      /\ \A k \in 1 .. Len(o) - 1 : Tail(o)[k] = o[k + 1]
  BY HeadAndTail
<1> DEFINE t == Tail(o)
<1> HIDE DEF t
<1>4. Len(t) = n + Cardinality(Wanted(q))
  BY <1>1, <1>2, <1>3 DEF t
<1>5. ASSUME NEW j \in Wanted(q)
      PROVE  t[n + Rank(q, j)] = q[j].line
  <2>1. n + Rank(q, j) \in 1 .. Len(o) - 1 /\ (n + Rank(q, j)) + 1 = (n + 1) + Rank(q, j)
    BY <1>1, <1>2, <1>3
  <2>2. t[n + Rank(q, j)] = o[(n + 1) + Rank(q, j)]
    BY <1>3, <2>1 DEF t
  <2>3. QED  BY <1>2, <2>2
<1>6. QED  BY <1>4, <1>5 DEF Unread, t

LEMMA HeldCounts ==
  ASSUME NEW w \in Seq(Answers), NEW p
  PROVE  /\ Held(p, w) \in Nat /\ Len(w) \in Nat
         /\ HasLine(p) => Held(p, w) = Len(w) + 1
         /\ ~ HasLine(p) => Held(p, w) = Len(w)
<1>1. Len(w) \in Nat
  OBVIOUS
<1>2. CASE HasLine(p)
  BY <1>1, <1>2 DEF Held
<1>3. CASE ~ HasLine(p)
  BY <1>1, <1>3 DEF Held
<1>4. QED  BY <1>2, <1>3

\* The answers and the line in hand stay where they are while the first m lines
\* waited for do.
LEMMA AnsweredStays ==
  ASSUME NEW w \in Seq(Answers), NEW o \in Seq(Line), NEW o2 \in Seq(Line), NEW p, NEW x,
         Answered(w, o), InHand(p, x, w, o), Held(p, w) <= Len(o2),
         \A k \in 1 .. Held(p, w) : o2[k] = o[k]
  PROVE  Answered(w, o2) /\ InHand(p, x, w, o2)
<1>1. Len(w) \in Nat /\ Len(o2) \in Nat
  OBVIOUS
<1>2. CASE HasLine(p)
  <2>1. Held(p, w) = Len(w) + 1
    BY <1>2 DEF Held
  <2>2. QED  BY <1>1, <1>2, <2>1 DEF Answered, InHand
<1>3. CASE ~ HasLine(p)
  <2>1. Held(p, w) = Len(w)
    BY <1>1, <1>3 DEF Held
  <2>2. QED  BY <1>1, <1>3, <2>1 DEF Answered, InHand
<1>4. QED  BY <1>2, <1>3

\* The oldest answer goes with the oldest line.
LEMMA AnsweredReceive ==
  ASSUME NEW w \in Seq(Answers), w # <<>>, NEW o \in Seq(Line), NEW p, NEW x,
         Answered(w, o), InHand(p, x, w, o)
  PROVE  /\ o # <<>> /\ Answered(Tail(w), Tail(o)) /\ InHand(p, x, Tail(w), Tail(o))
         /\ Held(p, Tail(w)) \in Nat /\ Held(p, w) = Held(p, Tail(w)) + 1
<1>1. /\ Len(w) \in Nat \ {0} /\ Tail(w) \in Seq(Answers) /\ Len(Tail(w)) = Len(w) - 1
      /\ \A k \in 1 .. Len(w) - 1 : Tail(w)[k] = w[k + 1]
  BY HeadAndTail
<1>2. Len(o) \in Nat /\ Len(w) <= Len(o) /\ \A k \in 1 .. Len(w) : o[k] = w[k].to
  BY DEF Answered
<1>3. o # <<>>
  BY <1>1, <1>2
<1>4. /\ Tail(o) \in Seq(Line) /\ Len(Tail(o)) = Len(o) - 1
      /\ \A k \in 1 .. Len(o) - 1 : Tail(o)[k] = o[k + 1]
  BY <1>3, HeadAndTail
<1> DEFINE v == Tail(w)
           t == Tail(o)
<1> HIDE DEF v, t
<1>5. /\ Len(v) = Len(w) - 1 /\ \A k \in 1 .. Len(w) - 1 : v[k] = w[k + 1]
      /\ Len(t) = Len(o) - 1 /\ \A k \in 1 .. Len(o) - 1 : t[k] = o[k + 1]
  BY <1>1, <1>4 DEF v, t
<1>6. Answered(v, t)
  BY <1>1, <1>2, <1>5 DEF Answered
<1>7. InHand(p, x, v, t)
  <2> SUFFICES ASSUME HasLine(p)
               PROVE  Len(v) < Len(t) /\ t[Len(v) + 1] = LineInHand(p, x)
    BY DEF InHand
  <2>1. Len(w) < Len(o) /\ o[Len(w) + 1] = LineInHand(p, x)
    BY DEF InHand
  <2>2. Len(v) + 1 \in 1 .. Len(o) - 1 /\ (Len(v) + 1) + 1 = Len(w) + 1
    BY <1>1, <1>2, <1>5, <2>1
  <2>3. QED  BY <1>1, <1>2, <1>5, <2>1, <2>2
<1>8. Held(p, v) \in Nat /\ Held(p, w) = Held(p, v) + 1
  BY <1>1, <1>5 DEF Held
<1>9. QED  BY <1>3, <1>6, <1>7, <1>8 DEF v, t

-----------------------------------------------------------------------------
(* What a step leaves alone *)

Same(c) ==
  /\ client'[c] = client[c] /\ h'[c] = h[c] /\ hand'[c] = hand[c]
  /\ inbox'[c] = inbox[c] /\ wire'[c] = wire[c] /\ owed'[c] = owed[c]

LEMMA RestingStays ==
  ASSUME NEW c \in Conns, Resting(c), client'[c] = client[c], h'[c] = h[c]
  PROVE  Resting(c)'
BY DEF Resting

LEMMA BlankStays ==
  ASSUME NEW c \in Conns, BlankWhole(c), inbox'[c] = inbox[c]
  PROVE  BlankWhole(c)'
BY DEF BlankWhole

LEMMA TornStays ==
  ASSUME NEW c \in Conns, TornLast(c), Listens(c)' => Listens(c), h'[c] = h[c],
         hand'[c] = hand[c], wire'[c] = wire[c]
  PROVE  TornLast(c)'
BY DEF TornLast

LEMMA StampedStays ==
  ASSUME NEW c \in Conns, Stamped(c), h'[c] = h[c], hand'[c] = hand[c],
         inbox'[c] = inbox[c], wire'[c] = wire[c], version' = version
  PROVE  Stamped(c)'
BY DEF Stamped

LEMMA AccountsStay ==
  ASSUME NEW c \in Conns, Accounts(c), h'[c] = h[c], hand'[c] = hand[c],
         inbox'[c] = inbox[c], wire'[c] = wire[c], owed'[c] = owed[c]
  PROVE  Accounts(c)'
BY DEF Accounts

LEMMA GoodStays ==
  ASSUME NEW c \in Conns, Good(c), Same(c), version' = version
  PROVE  Good(c)'
<1>1. Resting(c)' /\ BlankWhole(c)'
  BY RestingStays, BlankStays DEF Good, Same
<1>2. TornLast(c)' /\ Stamped(c)'
  BY TornStays, StampedStays DEF Good, Same, Listens
<1>3. Listens(c)' => Accounts(c)'
  BY AccountsStay DEF Good, Same, Listens
<1>4. QED  BY <1>1, <1>2, <1>3 DEF Good

\* What a client and a thread do is about their own connection.
LEMMA ClientAlone ==
  ASSUME TypeOK, NEW c \in Conns, ClientStep(c)
  PROVE  version' = version /\ \A d \in Conns \ {c} : Same(d)
<1>1. CASE Connect(c)
  BY <1>1 DEF Connect, TypeOK, Same
<1>2. CASE Receive(c)
  BY <1>2 DEF Receive, TypeOK, Same
<1>3. CASE EndLine(c)
  BY <1>3 DEF EndLine, TypeOK, Same
<1>4. CASE HalfClose(c)
  BY <1>4 DEF HalfClose, TypeOK, Same
<1>5. CASE Leave(c)
  BY <1>5 DEF Leave, TypeOK, Same
<1>6. CASE SeeClose(c)
  BY <1>6 DEF SeeClose, TypeOK, Same
<1>7. ASSUME NEW kind \in Kinds, NEW ended \in BOOLEAN, SendLine(c, kind, ended)
      PROVE  version' = version /\ \A d \in Conns \ {c} : Same(d)
  BY <1>7 DEF SendLine, TypeOK, Same
<1>8. QED  BY <1>1, <1>2, <1>3, <1>4, <1>5, <1>6, <1>7 DEF ClientStep

LEMMA ThreadAlone ==
  ASSUME TypeOK, NEW c \in Conns, Accept(c) \/ HandlerStep(c) \/ HandlerFault(c)
  PROVE  version' = version /\ \A d \in Conns \ {c} : Same(d)
<1>1. CASE Accept(c)
  BY <1>1 DEF Accept, ends, TypeOK, Same
<1>2. CASE StartReading(c)
  BY <1>2 DEF StartReading, ends, TypeOK, Same
<1>3. CASE SkipBlank(c)
  BY <1>3 DEF SkipBlank, TakesLine, Goes, TypeOK, Same
<1>4. CASE ReadLine(c)
  BY <1>4 DEF ReadLine, TakesLine, Goes, TypeOK, Same
<1>5. CASE ReadBinary(c) \/ ReadEof(c) \/ ReadTimesOut(c) \/ ReadFails(c) \/ CloneFails(c)
  BY <1>5 DEF ReadBinary, ReadEof, ReadTimesOut, ReadFails, CloneFails, Close, Goes, TypeOK, Same
<1>6. CASE Answer(c)
  BY <1>6 DEF Answer, Goes, ends, TypeOK, Same
<1>7. CASE WriteBody(c)
  BY <1>7 DEF WriteBody, Goes, ends, TypeOK, Same
<1>8. CASE WriteNewline(c)
  BY <1>8 DEF WriteNewline, Goes, ends, TypeOK, Same
<1>9. CASE WriteFails(c)
  BY <1>9 DEF WriteFails, LeavesPart, Close, Goes, TypeOK, Same
<1>10. QED  BY <1>1, <1>2, <1>3, <1>4, <1>5, <1>6, <1>7, <1>8, <1>9 DEF HandlerStep, HandlerFault

-----------------------------------------------------------------------------
(* The client's steps *)

LEMMA NothingOwed ==
  /\ Unread(0, <<>>, <<>>) /\ Answered(<<>>, <<>>)
  /\ <<>> \in Seq(Piece) /\ <<>> \in Seq(Answers) /\ <<>> \in Seq(Line) /\ Len(<<>>) = 0
<1>1. Wanted(<<>>) = {}
  BY DEF Wanted
<1>2. Cardinality({}) = 0
  BY FS_EmptySet
<1>3. Unread(0, <<>>, <<>>)
  BY <1>1, <1>2 DEF Unread
<1>4. QED  BY <1>3 DEF Answered

LEMMA ConnectKeeps ==
  ASSUME TypeOK, NEW c \in Conns, Good(c), Connect(c)
  PROVE  TypeOK' /\ Good(c)'
<1>1. AllTypes
  BY TypeParts
<1>2. /\ client' = [client EXCEPT ![c] = "open"] /\ h' = [h EXCEPT ![c] = "queued"]
      /\ inbox' = [inbox EXCEPT ![c] = <<>>] /\ wire' = [wire EXCEPT ![c] = <<>>]
      /\ owed' = [owed EXCEPT ![c] = <<>>] /\ UNCHANGED <<up, version, hand>>
  BY DEF Connect
<1>3. h[c] \in {"none", "closed"}
  BY DEF Connect, Good, Resting
<1>4. /\ client'[c] = "open" /\ h'[c] = "queued" /\ inbox'[c] = <<>> /\ wire'[c] = <<>>
      /\ owed'[c] = <<>>
  BY <1>1, <1>2 DEF AllTypes, ClientTypes, HandTypes, InboxTypes, WireTypes, OwedTypes
<1>5. TypeOK'
  <2>1. ProcessTypes'
    BY <1>1, <1>2, TypesStay DEF AllTypes
  <2>2. ClientTypes'
    BY <1>1, <1>2 DEF AllTypes, ClientTypes
  <2>3. HandTypes'
    BY <1>1, <1>2, <1>3, PhaseKeepsTypes DEF AllTypes, Phases
  <2>4. InboxTypes'
    BY <1>1, <1>2, NothingOwed, ConnectionBounds DEF AllTypes, InboxTypes
  <2>5. WireTypes'
    BY <1>1, <1>2, NothingOwed, ConnectionBounds DEF AllTypes, WireTypes
  <2>6. OwedTypes'
    BY <1>1, <1>2, NothingOwed DEF AllTypes, OwedTypes
  <2>7. QED  BY <2>1, <2>2, <2>3, <2>4, <2>5, <2>6, TypeParts DEF AllTypes
<1>6. Resting(c)' /\ BlankWhole(c)' /\ TornLast(c)' /\ Stamped(c)'
  <2>1. Resting(c)'
    BY <1>4 DEF Resting
  <2>2. BlankWhole(c)'
    BY <1>4 DEF BlankWhole
  <2>3. TornLast(c)'
    BY <1>4 DEF TornLast
  <2>4. Stamped(c)'
    BY <1>4 DEF Stamped
  <2>5. QED  BY <2>1, <2>2, <2>3, <2>4
<1>7. Accounts(c)'
  <2>1. Held("queued", <<>>) = 0 /\ InHand("queued", hand'[c], <<>>, <<>>)
    BY DEF Held, InHand, HasLine
  <2>2. QED  BY <1>4, <2>1, NothingOwed DEF Accounts
<1>8. QED  BY <1>5, <1>6, <1>7 DEF Good

LEMMA SendLineKeeps ==
  ASSUME TypeOK, NEW c \in Conns, Good(c), NEW kind \in Kinds, NEW ended \in BOOLEAN,
         SendLine(c, kind, ended)
  PROVE  TypeOK' /\ Good(c)'
<1> DEFINE l == [kind |-> kind, at |-> version]
           p == [line |-> l, ended |-> ended]
<1>1. AllTypes
  BY TypeParts
<1>2. /\ Listens(c) /\ h[c] # "closed" /\ Len(inbox[c]) < InboxCap /\ (kind = "blank" => ended)
      /\ inbox' = [inbox EXCEPT ![c] = Append(inbox[c], p)]
      /\ owed' = [owed EXCEPT ![c] = IF kind = "blank" THEN owed[c] ELSE Append(owed[c], l)]
      /\ UNCHANGED <<up, version, client, h, hand, wire>>
  BY DEF SendLine, Talks, Listens
<1>3. /\ inbox[c] \in Seq(Piece) /\ owed[c] \in Seq(Line) /\ wire[c] \in Seq(Answers)
      /\ l \in Line /\ p \in Piece /\ p.line = l /\ l.kind = kind /\ l.at = version
      /\ p.ended = ended /\ version \in Nat
  <2>1. inbox[c] \in Seq(Piece) /\ owed[c] \in Seq(Line) /\ wire[c] \in Seq(Answers)
    BY <1>1 DEF AllTypes, InboxTypes, OwedTypes, WireTypes
  <2>2. version \in 0 .. MaxSwaps /\ version \in Nat
    BY <1>1, ConnectionBounds DEF AllTypes, ProcessTypes
  <2>3. l \in Line /\ l.kind = kind /\ l.at = version
    BY <2>2 DEF Line
  <2> HIDE DEF l
  <2>4. p \in Piece /\ p.line = l /\ p.ended = ended
    BY <2>3 DEF Piece
  <2>5. QED  BY <2>1, <2>2, <2>3, <2>4
<1>4. /\ inbox'[c] = Append(inbox[c], p)
      /\ owed'[c] = IF kind = "blank" THEN owed[c] ELSE Append(owed[c], l)
  BY <1>1, <1>2 DEF AllTypes, InboxTypes, OwedTypes
<1>5. /\ inbox'[c] \in Seq(Piece) /\ Len(inbox'[c]) = Len(inbox[c]) + 1
      /\ DOMAIN inbox[c] = 1 .. Len(inbox[c]) /\ DOMAIN inbox'[c] = 1 .. Len(inbox[c]) + 1
      /\ inbox'[c][Len(inbox[c]) + 1] = p
      /\ \A k \in 1 .. Len(inbox[c]) : inbox'[c][k] = inbox[c][k]
      /\ Len(inbox[c]) \in Nat
  BY <1>3, <1>4
<1>6. TypeOK'
  <2>1. InboxTypes'
    BY <1>1, <1>2, <1>5, ConnectionBounds DEF AllTypes, InboxTypes
  <2>2. OwedTypes'
    BY <1>1, <1>2, <1>3 DEF AllTypes, OwedTypes
  <2>3. QED  BY <1>1, <1>2, <2>1, <2>2, TypesStay, TypeParts DEF AllTypes
<1> HIDE DEF l, p
<1>7. Resting(c)' /\ TornLast(c)'
  BY <1>2, RestingStays, TornStays DEF Good, Listens
<1>8. BlankWhole(c)'
  BY <1>2, <1>3, <1>5 DEF BlankWhole, Good
<1>9. Stamped(c)'
  BY <1>2, <1>3, <1>5 DEF Stamped, Good
<1>10. Accounts(c)'
  <2>1. /\ Answered(wire[c], owed[c]) /\ InHand(h[c], hand[c], wire[c], owed[c])
        /\ Unread(Held(h[c], wire[c]), inbox[c], owed[c])
    BY <1>2 DEF Good, Accounts
  <2>2. Held(h[c], wire[c]) \in Nat
    BY <1>3, HeldCounts
  <2>3. Held(h[c], wire[c]) <= Len(owed[c])
    <3>1. Cardinality(Wanted(inbox[c])) \in Nat
      BY <1>3, WantedCounts
    <3>2. QED  BY <2>1, <2>2, <3>1 DEF Unread
  <2>4. Unread(Held(h[c], wire[c]), inbox'[c], owed'[c])
    BY <1>3, <1>4, <2>1, <2>2, UnreadMore
  <2>5. /\ owed'[c] \in Seq(Line) /\ Len(owed[c]) <= Len(owed'[c])
        /\ \A k \in 1 .. Len(owed[c]) : owed'[c][k] = owed[c][k]
    BY <1>3, <1>4
  <2>6. Answered(wire[c], owed'[c]) /\ InHand(h[c], hand[c], wire[c], owed'[c])
    <3>1. Held(h[c], wire[c]) <= Len(owed'[c]) /\ Len(owed[c]) \in Nat /\ Len(owed'[c]) \in Nat
      BY <1>3, <2>2, <2>3, <2>5
    <3>2. \A k \in 1 .. Held(h[c], wire[c]) : owed'[c][k] = owed[c][k]
      BY <2>2, <2>3, <2>5, <3>1
    <3>3. QED  BY <1>3, <2>1, <2>5, <3>1, <3>2, AnsweredStays
  <2>7. QED  BY <1>2, <2>4, <2>6 DEF Accounts
<1>11. QED  BY <1>6, <1>7, <1>8, <1>9, <1>10 DEF Good

LEMMA EndLineKeeps ==
  ASSUME TypeOK, NEW c \in Conns, Good(c), EndLine(c)
  PROVE  TypeOK' /\ Good(c)'
<1> DEFINE q == inbox[c]
           o == owed[c]
           n == Held(h[c], wire[c])
           l == [kind |-> Last(inbox[c]).line.kind, at |-> version]
           p == [line |-> l, ended |-> TRUE]
<1>1. AllTypes
  BY TypeParts
<1>2. /\ Listens(c) /\ h[c] # "closed" /\ q # <<>> /\ ~ Last(q).ended
      /\ inbox' = [inbox EXCEPT ![c] = Append(Front(q), p)]
      /\ owed' = [owed EXCEPT ![c] = Append(Front(o), l)]
      /\ UNCHANGED <<up, version, client, h, hand, wire>>
  BY DEF EndLine, Talks, Listens
<1>3. q \in Seq(Piece) /\ o \in Seq(Line) /\ wire[c] \in Seq(Answers) /\ n \in Nat
  <2>1. q \in Seq(Piece) /\ o \in Seq(Line) /\ wire[c] \in Seq(Answers)
    BY <1>1 DEF AllTypes, InboxTypes, OwedTypes, WireTypes
  <2>2. QED  BY <2>1, HeldCounts
<1>4. /\ inbox'[c] = Append(Front(q), p) /\ owed'[c] = Append(Front(o), l)
  BY <1>1, <1>2 DEF AllTypes, InboxTypes, OwedTypes
<1>5. /\ l \in Line /\ p \in Piece /\ p.line = l /\ l.at = version /\ p.ended
      /\ p.line.kind = Last(q).line.kind /\ p.line.kind # "blank" /\ version \in Nat
  <2>1. version \in 0 .. MaxSwaps /\ version \in Nat
    BY <1>1, ConnectionBounds DEF AllTypes, ProcessTypes
  <2>2. Last(q) = q[Len(q)] /\ Len(q) \in Nat \ {0} /\ Last(q) \in Piece
    BY <1>2, <1>3, LastElement
  <2>3. Last(q).line.kind \in Kinds
    BY <2>2 DEF Piece, Line
  <2>4. Last(q).line.kind # "blank"
    BY <1>2, <1>3, <2>2 DEF Good, BlankWhole
  <2>5. l \in Line /\ l.kind = Last(q).line.kind /\ l.at = version
    BY <2>1, <2>3 DEF Line
  <2> HIDE DEF l
  <2>6. p \in Piece /\ p.line = l /\ p.ended
    BY <2>5 DEF Piece
  <2>7. QED  BY <2>1, <2>4, <2>5, <2>6
<1>6. /\ Answered(wire[c], o) /\ InHand(h[c], hand[c], wire[c], o)
      /\ Unread(n, q, o)
  BY <1>2 DEF Good, Accounts
<1> HIDE DEF l, p
<1>7. n < Len(o) /\ Unread(n, Append(Front(q), p), Append(Front(o), l))
  <2> HIDE DEF q, o, n
  <2>1. QED  BY <1>2, <1>3, <1>5, <1>6, UnreadEnd
<1>8. /\ inbox'[c] \in Seq(Piece) /\ Len(inbox'[c]) = Len(q) /\ inbox'[c][Len(q)] = p
      /\ \A k \in 1 .. Len(q) - 1 : inbox'[c][k] = q[k]
      /\ Len(q) \in Nat \ {0}
  <2>1. /\ Append(Front(q), p) \in Seq(Piece) /\ Len(Append(Front(q), p)) = Len(q)
        /\ Append(Front(q), p)[Len(q)] = p
        /\ \A k \in 1 .. Len(q) - 1 : Append(Front(q), p)[k] = q[k]
    <3>1. q \in Seq(Piece) /\ q # <<>> /\ p \in Piece
      BY <1>2, <1>3, <1>5
    <3> HIDE DEF q
    <3>2. QED  BY <3>1, LastReplaced
  <2>2. Len(q) \in Nat \ {0}
    BY <1>2, <1>3, LastElement
  <2>3. QED  BY <1>4, <2>1, <2>2
<1>9. /\ owed'[c] \in Seq(Line) /\ Len(owed'[c]) = Len(o) /\ Len(o) \in Nat
      /\ \A k \in 1 .. Len(o) - 1 : owed'[c][k] = o[k]
  <2>1. o # <<>> /\ Len(o) \in Nat
    BY <1>3, <1>7
  <2>2. /\ Append(Front(o), l) \in Seq(Line) /\ Len(Append(Front(o), l)) = Len(o)
        /\ \A k \in 1 .. Len(o) - 1 : Append(Front(o), l)[k] = o[k]
    <3>1. o \in Seq(Line) /\ o # <<>> /\ l \in Line
      BY <1>3, <1>5, <2>1
    <3> HIDE DEF o
    <3>2. QED  BY <3>1, LastReplaced
  <2>3. QED  BY <1>4, <2>1, <2>2
<1>10. TypeOK'
  <2>1. InboxTypes'
    BY <1>1, <1>2, <1>4, <1>8 DEF AllTypes, InboxTypes
  <2>2. OwedTypes'
    BY <1>1, <1>2, <1>4, <1>9 DEF AllTypes, OwedTypes
  <2>3. QED  BY <1>1, <1>2, <2>1, <2>2, TypesStay, TypeParts DEF AllTypes
<1>11. Resting(c)' /\ TornLast(c)'
  BY <1>2, RestingStays, TornStays DEF Good, Listens
<1>12. \A j \in DOMAIN inbox'[c] : (j \in DOMAIN q /\ inbox'[c][j] = q[j]) \/ inbox'[c][j] = p
  BY <1>3, <1>8
<1>13. BlankWhole(c)'
  BY <1>5, <1>12 DEF BlankWhole, Good
<1>14. Stamped(c)'
  <2>1. \A j \in DOMAIN inbox'[c] : inbox'[c][j].line.at <= version'
    BY <1>2, <1>5, <1>12 DEF Good, Stamped
  <2>2. QED  BY <1>2, <2>1 DEF Good, Stamped
<1>15. Accounts(c)'
  <2>1. Answered(wire[c], owed'[c]) /\ InHand(h[c], hand[c], wire[c], owed'[c])
    <3>1. n <= Len(owed'[c]) /\ \A k \in 1 .. n : owed'[c][k] = o[k]
      <4> HIDE DEF n, o
      <4>1. QED  BY <1>3, <1>7, <1>9
    <3>2. QED  BY <1>3, <1>6, <1>9, <3>1, AnsweredStays
  <2>2. Unread(n, inbox'[c], owed'[c])
    BY <1>4, <1>7
  <2>3. QED  BY <1>2, <2>1, <2>2 DEF Accounts
<1>16. QED  BY <1>10, <1>11, <1>13, <1>14, <1>15 DEF Good

LEMMA ReceiveKeeps ==
  ASSUME TypeOK, NEW c \in Conns, Good(c), Receive(c)
  PROVE  TypeOK' /\ Good(c)'
<1> DEFINE w == wire[c]
           o == owed[c]
<1>1. AllTypes
  BY TypeParts
<1>2. /\ Listens(c) /\ w # <<>> /\ Head(w).ended
      /\ wire' = [wire EXCEPT ![c] = Tail(w)] /\ owed' = [owed EXCEPT ![c] = Tail(o)]
      /\ UNCHANGED <<up, version, client, h, inbox, hand>>
  BY DEF Receive
<1>3. inbox[c] \in Seq(Piece) /\ o \in Seq(Line) /\ w \in Seq(Answers) /\ Len(w) <= WireCap
  BY <1>1 DEF AllTypes, InboxTypes, OwedTypes, WireTypes
<1>4. wire'[c] = Tail(w) /\ owed'[c] = Tail(o)
  BY <1>1, <1>2 DEF AllTypes, WireTypes, OwedTypes
<1>5. /\ Head(w) = w[1] /\ Tail(w) \in Seq(Answers) /\ Len(w) \in Nat \ {0}
      /\ Len(Tail(w)) = Len(w) - 1 /\ \A k \in 1 .. Len(w) - 1 : Tail(w)[k] = w[k + 1]
  BY <1>2, <1>3, HeadAndTail
<1>6. /\ o # <<>> /\ Answered(Tail(w), Tail(o)) /\ InHand(h[c], hand[c], Tail(w), Tail(o))
      /\ Held(h[c], Tail(w)) \in Nat /\ Held(h[c], w) = Held(h[c], Tail(w)) + 1
  <2>1. Answered(w, o) /\ InHand(h[c], hand[c], w, o)
    BY <1>2 DEF Good, Accounts
  <2>2. QED  BY <1>2, <1>3, <2>1, AnsweredReceive
<1>7. TypeOK'
  <2>1. WireTypes'
    <3>1. Len(Tail(w)) <= WireCap
      BY <1>3, <1>5, ConnectionBounds
    <3>2. QED  BY <1>1, <1>2, <1>5, <3>1 DEF AllTypes, WireTypes
  <2>2. OwedTypes'
    <3>1. Tail(o) \in Seq(Line)
      BY <1>3, <1>6, HeadAndTail
    <3>2. QED  BY <1>1, <1>2, <3>1 DEF AllTypes, OwedTypes
  <2>3. QED  BY <1>1, <1>2, <2>1, <2>2, TypesStay, TypeParts DEF AllTypes
<1>8. Resting(c)' /\ BlankWhole(c)'
  BY <1>2, RestingStays, BlankStays DEF Good
<1> DEFINE v == Tail(w)
<1> HIDE DEF v
<1>9. /\ wire'[c] = v /\ Len(v) = Len(w) - 1 /\ \A k \in 1 .. Len(w) - 1 : v[k] = w[k + 1]
  BY <1>4, <1>5 DEF v
<1>10. TornLast(c)'
  <2>1. /\ \A k \in 1 .. Len(w) : w[k].ended \/ (k = Len(w) /\ h[c] \in {"newline", "closed"})
        /\ h[c] = "newline" => ~ w[Len(w)].ended
        /\ h[c] = "writing" => ~ hand[c][1].ended
    BY <1>2 DEF Good, TornLast
  <2> HIDE DEF w
  <2>2. ASSUME NEW k \in 1 .. Len(v)
        PROVE  v[k].ended \/ (k = Len(v) /\ h[c] \in {"newline", "closed"})
    <3>1. k + 1 \in 1 .. Len(w) /\ v[k] = w[k + 1] /\ (k + 1 = Len(w) => k = Len(v))
      BY <1>5, <1>9
    <3>2. QED  BY <2>1, <3>1
  <2>3. ASSUME h[c] = "newline"
        PROVE  v # <<>> /\ ~ v[Len(v)].ended
    <3>1. ~ w[Len(w)].ended /\ w[1].ended
      BY <1>2, <1>5, <2>1, <2>3
    <3>2. Len(w) - 1 \in 1 .. Len(w) - 1 /\ (Len(w) - 1) + 1 = Len(w)
      BY <1>5, <3>1
    <3>3. v[Len(v)] = w[Len(w)] /\ Len(v) # 0
      BY <1>9, <3>2
    <3>4. QED  BY <3>1, <3>3
  <2>4. QED  BY <1>2, <1>9, <2>1, <2>2, <2>3 DEF TornLast
<1>11. Stamped(c)'
  <2>1. \A k \in 1 .. Len(v) : v[k].ver \in v[k].to.at .. version
    <3>1. \A k \in 1 .. Len(w) : w[k].ver \in w[k].to.at .. version
      BY DEF Good, Stamped
    <3> HIDE DEF w
    <3>2. QED  BY <1>5, <1>9, <3>1
  <2>2. QED  BY <1>2, <1>9, <2>1 DEF Good, Stamped
<1>12. Accounts(c)'
  <2>1. ASSUME h[c] # "closed"
        PROVE  Unread(Held(h[c], Tail(w)), inbox[c], Tail(o))
    <3>1. Unread(Held(h[c], w), inbox[c], o)
      BY <1>2, <2>1 DEF Good, Accounts
    <3>2. QED  BY <1>3, <1>6, <3>1, UnreadReceive
  <2>2. QED  BY <1>2, <1>4, <1>6, <2>1 DEF Accounts
<1>13. QED  BY <1>7, <1>8, <1>10, <1>11, <1>12 DEF Good

LEMMA HalfCloseKeeps ==
  ASSUME TypeOK, NEW c \in Conns, Good(c), HalfClose(c)
  PROVE  TypeOK' /\ Good(c)'
<1>1. AllTypes
  BY TypeParts
<1>2. /\ client' = [client EXCEPT ![c] = "half"] /\ client'[c] = "half"
      /\ Listens(c) /\ client[c] = "open"
      /\ UNCHANGED <<up, version, h, inbox, hand, wire, owed>>
  BY <1>1 DEF HalfClose, Talks, Listens, AllTypes, ClientTypes
<1>3. TypeOK'
  <2>1. ClientTypes'
    BY <1>1, <1>2 DEF AllTypes, ClientTypes
  <2>2. QED  BY <1>1, <1>2, <2>1, TypesStay, TypeParts DEF AllTypes
<1>4. Resting(c)' /\ BlankWhole(c)'
  BY <1>2, BlankStays DEF Good, Resting
<1>5. TornLast(c)' /\ Stamped(c)'
  BY <1>2, TornStays, StampedStays DEF Good
<1>6. Accounts(c)'
  BY <1>2, AccountsStay DEF Good
<1>7. QED  BY <1>3, <1>4, <1>5, <1>6 DEF Good

\* The client hears no more of the connection.
LEMMA DeafKeeps ==
  ASSUME TypeOK, NEW c \in Conns, Good(c), Leave(c) \/ SeeClose(c)
  PROVE  TypeOK' /\ Good(c)'
<1>1. AllTypes
  BY TypeParts
<1>2. /\ client'[c] = "gone" \/ (client'[c] = "absent" /\ h[c] = "closed")
      /\ client' = [client EXCEPT ![c] = client'[c]]
      /\ wire' = [wire EXCEPT ![c] = <<>>] /\ owed' = [owed EXCEPT ![c] = <<>>]
      /\ Listens(c) /\ UNCHANGED <<up, version, h, inbox, hand>>
  <2>1. CASE Leave(c)
    BY <1>1, <2>1 DEF Leave, AllTypes, ClientTypes
  <2>2. CASE SeeClose(c)
    BY <1>1, <2>2 DEF SeeClose, AllTypes, ClientTypes
  <2>3. QED  BY <2>1, <2>2
<1>3. wire'[c] = <<>>
  BY <1>1, <1>2 DEF AllTypes, WireTypes
<1>4. TypeOK'
  <2>1. ClientTypes'
    BY <1>1, <1>2 DEF AllTypes, ClientTypes
  <2>2. WireTypes'
    BY <1>1, <1>2, NothingOwed, ConnectionBounds DEF AllTypes, WireTypes
  <2>3. OwedTypes'
    BY <1>1, <1>2, NothingOwed DEF AllTypes, OwedTypes
  <2>4. QED  BY <1>1, <1>2, <2>1, <2>2, <2>3, TypesStay, TypeParts DEF AllTypes
<1>5. ~ Listens(c)'
  BY <1>2 DEF Listens
<1>6. Resting(c)' /\ BlankWhole(c)'
  BY <1>2, BlankStays DEF Good, Resting, Listens
<1>7. TornLast(c)'
  BY <1>2, <1>3, <1>5 DEF Good, TornLast
<1>8. Stamped(c)'
  BY <1>2, <1>3 DEF Good, Stamped
<1>9. QED  BY <1>4, <1>5, <1>6, <1>7, <1>8 DEF Good

LEMMA ClientKeeps ==
  ASSUME TypeOK, NEW c \in Conns, Good(c), ClientStep(c)
  PROVE  TypeOK' /\ Good(c)'
BY ConnectKeeps, SendLineKeeps, EndLineKeeps, ReceiveKeeps, HalfCloseKeeps, DeafKeeps DEF ClientStep

-----------------------------------------------------------------------------
(* The thread's steps *)

\* Accept and StartReading.
LEMMA PhaseKeeps ==
  ASSUME TypeOK, NEW c \in Conns, Good(c), Accept(c) \/ StartReading(c)
  PROVE  TypeOK' /\ Good(c)'
<1>1. AllTypes
  BY TypeParts
<1>2. PICK p \in {"starting", "reading"} : h' = [h EXCEPT ![c] = p]
  BY DEF Accept, StartReading
<1>3. h[c] \in {"queued", "starting"} /\ UNCHANGED <<up, version, client, inbox, owed, hand, wire>>
  BY DEF Accept, StartReading, ends
<1>4. h'[c] = p /\ ~ HasLine(p) /\ ~ HasLine(h[c])
  BY <1>1, <1>2, <1>3 DEF AllTypes, HandTypes, HasLine
<1>5. TypeOK'
  <2>1. HandTypes'
    BY <1>1, <1>2, <1>3, PhaseKeepsTypes DEF AllTypes, Phases
  <2>2. QED  BY <1>1, <1>3, <2>1, TypesStay, TypeParts DEF AllTypes
<1>6. Resting(c)' /\ BlankWhole(c)'
  BY <1>3, <1>4, BlankStays DEF Good, Resting
<1>7. TornLast(c)'
  BY <1>3, <1>4 DEF Good, TornLast
<1>8. Stamped(c)'
  BY <1>3, <1>4 DEF Good, Stamped
<1>9. ASSUME Listens(c)
      PROVE  Accounts(c)'
  <2>1. InHand(p, hand[c], wire[c], owed[c]) /\ Held(p, wire[c]) = Held(h[c], wire[c])
    BY <1>4 DEF InHand, Held
  <2>2. Answered(wire[c], owed[c]) /\ Unread(Held(h[c], wire[c]), inbox[c], owed[c])
    BY <1>3, <1>9 DEF Good, Accounts
  <2>3. QED  BY <1>3, <1>4, <2>1, <2>2 DEF Accounts
<1>10. QED  BY <1>3, <1>5, <1>6, <1>7, <1>8, <1>9 DEF Good, Listens

\* The thread returns, with nothing written since.
LEMMA CloseKeeps ==
  ASSUME TypeOK, NEW c \in Conns, Good(c), Close(c),
         UNCHANGED <<up, version, client, owed, wire>>
  PROVE  TypeOK' /\ Good(c)'
<1>1. AllTypes
  BY TypeParts
<1>2. h'[c] = "closed" /\ inbox'[c] = <<>>
  BY <1>1 DEF Close, Goes, AllTypes, HandTypes, InboxTypes
<1>3. TypeOK'
  BY <1>1, CloseKeepsTypes, TypesStay, TypeParts DEF AllTypes
<1>4. Resting(c)' /\ BlankWhole(c)'
  BY <1>2 DEF Resting, BlankWhole
<1>5. TornLast(c)'
  BY <1>2 DEF Good, TornLast
<1>6. Stamped(c)'
  BY <1>2 DEF Good, Stamped
<1>7. ASSUME Listens(c)
      PROVE  Accounts(c)'
  BY <1>2, <1>7 DEF Good, Accounts, InHand, HasLine
<1>8. QED  BY <1>3, <1>4, <1>5, <1>6, <1>7 DEF Good, Listens

\* The first line leaves the inbox.
LEMMA LineTaken ==
  ASSUME TypeOK, NEW c \in Conns, Good(c), inbox[c] # <<>>,
         inbox' = [inbox EXCEPT ![c] = Tail(@)], version' = version
  PROVE  /\ InboxTypes' /\ inbox'[c] = Tail(inbox[c]) /\ NextLine(c) = inbox[c][1].line
         /\ inbox[c] \in Seq(Piece) /\ NextLine(c) \in Line /\ NextLine(c).at <= version
         /\ BlankWhole(c)' /\ \A j \in DOMAIN inbox'[c] : inbox'[c][j].line.at <= version'
<1> DEFINE q == inbox[c]
           t == Tail(q)
<1>1. AllTypes
  BY TypeParts
<1>2. /\ q \in Seq(Piece) /\ Len(q) <= InboxCap
      /\ inbox' = [inbox EXCEPT ![c] = t] /\ inbox'[c] = t
  BY <1>1 DEF AllTypes, InboxTypes
<1>3. /\ Head(q) = q[1] /\ Head(q) \in Piece /\ t \in Seq(Piece)
      /\ Len(q) \in Nat \ {0} /\ Len(t) = Len(q) - 1
      /\ \A k \in 1 .. Len(q) - 1 : t[k] = q[k + 1]
  BY <1>2, HeadAndTail
<1>4. NextLine(c) = q[1].line /\ NextLine(c) \in Line
  BY <1>3 DEF NextLine, Piece
<1>5. InboxTypes'
  <2>1. Len(t) <= InboxCap
    BY <1>2, <1>3, ConnectionBounds
  <2> HIDE DEF t
  <2>2. QED  BY <1>1, <1>2, <1>3, <2>1 DEF AllTypes, InboxTypes
<1>6. \A j \in DOMAIN t : j + 1 \in DOMAIN q /\ t[j] = q[j + 1]
  <2>1. DOMAIN t = 1 .. Len(q) - 1 /\ DOMAIN q = 1 .. Len(q)
    BY <1>2, <1>3
  <2>2. QED  BY <1>3, <2>1
<1>7. 1 \in DOMAIN q
  BY <1>2, <1>3
<1> HIDE DEF t
<1>8. BlankWhole(c)'
  BY <1>2, <1>6 DEF Good, BlankWhole
<1>9. NextLine(c).at <= version /\ \A j \in DOMAIN inbox'[c] : inbox'[c][j].line.at <= version'
  BY <1>2, <1>4, <1>6, <1>7 DEF Good, Stamped
<1>10. QED  BY <1>2, <1>4, <1>5, <1>8, <1>9 DEF t

LEMMA SkipBlankKeeps ==
  ASSUME TypeOK, NEW c \in Conns, Good(c), SkipBlank(c)
  PROVE  TypeOK' /\ Good(c)'
<1>1. AllTypes
  BY TypeParts
<1>2. /\ h[c] = "reading" /\ inbox[c] # <<>> /\ inbox' = [inbox EXCEPT ![c] = Tail(@)]
      /\ Goes(c, "reading", <<>>) /\ NextLine(c).kind = "blank"
      /\ UNCHANGED <<up, version, client, owed, wire>>
  BY DEF SkipBlank, TakesLine, LineReady
<1>3. h'[c] = "reading"
  BY <1>1, <1>2 DEF Goes, AllTypes, HandTypes
<1>4. /\ InboxTypes' /\ inbox'[c] = Tail(inbox[c]) /\ NextLine(c) = inbox[c][1].line
      /\ inbox[c] \in Seq(Piece)
      /\ BlankWhole(c)' /\ \A j \in DOMAIN inbox'[c] : inbox'[c][j].line.at <= version'
  BY <1>2, LineTaken
<1>5. TypeOK'
  <2>1. HandTypes'
    BY <1>1, <1>2, GoesKeepsTypes DEF AllTypes, Phases, Fits
  <2>2. QED  BY <1>1, <1>2, <1>4, <2>1, TypesStay, TypeParts DEF AllTypes
<1>6. Resting(c)'
  BY <1>2, <1>3 DEF Good, Resting
<1>7. TornLast(c)'
  BY <1>2, <1>3 DEF Good, TornLast
<1>8. Stamped(c)'
  BY <1>2, <1>3, <1>4 DEF Good, Stamped
<1>9. ASSUME Listens(c)
      PROVE  Accounts(c)'
  <2>1. Answered(wire[c], owed[c]) /\ Unread(Held("reading", wire[c]), inbox[c], owed[c])
    BY <1>2, <1>9 DEF Good, Accounts
  <2>2. Held("reading", wire[c]) \in Nat /\ owed[c] \in Seq(Line)
    BY <1>1, HeldCounts DEF AllTypes, WireTypes, OwedTypes
  <2>3. Unread(Held("reading", wire[c]), Tail(inbox[c]), owed[c])
    BY <1>2, <1>4, <2>1, <2>2, UnreadLess
  <2>4. QED  BY <1>2, <1>3, <1>4, <2>1, <2>3 DEF Accounts, InHand, HasLine
<1>10. QED  BY <1>2, <1>4, <1>5, <1>6, <1>7, <1>8, <1>9 DEF Good, Listens

LEMMA ReadLineKeeps ==
  ASSUME TypeOK, NEW c \in Conns, Good(c), ReadLine(c)
  PROVE  TypeOK' /\ Good(c)'
<1> DEFINE l == NextLine(c)
<1>1. AllTypes
  BY TypeParts
<1>2. /\ h[c] = "reading" /\ inbox[c] # <<>> /\ inbox' = [inbox EXCEPT ![c] = Tail(@)]
      /\ Goes(c, "answering", <<l>>) /\ l.kind = "text"
      /\ UNCHANGED <<up, version, client, owed, wire>>
  BY DEF ReadLine, TakesLine, LineReady
<1>3. h'[c] = "answering" /\ hand'[c] = <<l>> /\ <<l>>[1] = l
  BY <1>1, <1>2 DEF Goes, AllTypes, HandTypes
<1>4. /\ InboxTypes' /\ inbox'[c] = Tail(inbox[c]) /\ l = inbox[c][1].line
      /\ inbox[c] \in Seq(Piece) /\ l \in Line /\ l.at <= version
      /\ BlankWhole(c)' /\ \A j \in DOMAIN inbox'[c] : inbox'[c][j].line.at <= version'
  BY <1>2, LineTaken
<1> HIDE DEF l
<1>5. TypeOK'
  <2>1. Fits("answering", <<l>>)
    BY <1>4 DEF Fits
  <2>2. HandTypes'
    BY <1>1, <1>2, <2>1, GoesKeepsTypes DEF AllTypes, Phases
  <2>3. QED  BY <1>1, <1>2, <1>4, <2>2, TypesStay, TypeParts DEF AllTypes
<1>6. Resting(c)'
  BY <1>2, <1>3 DEF Good, Resting
<1>7. TornLast(c)'
  BY <1>2, <1>3 DEF Good, TornLast
<1>8. Stamped(c)'
  BY <1>2, <1>3, <1>4 DEF Good, Stamped
<1>9. ASSUME Listens(c)
      PROVE  Accounts(c)'
  <2>1. Answered(wire[c], owed[c]) /\ Unread(Held("reading", wire[c]), inbox[c], owed[c])
    BY <1>2, <1>9 DEF Good, Accounts
  <2>2. wire[c] \in Seq(Answers) /\ owed[c] \in Seq(Line)
    BY <1>1 DEF AllTypes, WireTypes, OwedTypes
  <2>3. /\ Held("reading", wire[c]) = Len(wire[c]) /\ Len(wire[c]) \in Nat
        /\ Held("answering", wire[c]) = Len(wire[c]) + 1
    BY <2>2, HeldCounts DEF HasLine
  <2>4. /\ Len(wire[c]) < Len(owed[c]) /\ owed[c][Len(wire[c]) + 1] = l
        /\ Unread(Len(wire[c]) + 1, Tail(inbox[c]), owed[c])
    <3>1. inbox[c][1].line.kind # "blank"
      BY <1>2, <1>4
    <3>2. QED  BY <1>2, <1>4, <2>1, <2>2, <2>3, <3>1, UnreadLess
  <2>5. InHand("answering", <<l>>, wire[c], owed[c])
    BY <1>3, <2>4 DEF InHand, LineInHand
  <2>6. QED  BY <1>2, <1>3, <1>4, <2>1, <2>3, <2>4, <2>5 DEF Accounts
<1>10. QED  BY <1>2, <1>4, <1>5, <1>6, <1>7, <1>8, <1>9 DEF Good, Listens

LEMMA AnswerKeeps ==
  ASSUME TypeOK, NEW c \in Conns, Good(c), Answer(c)
  PROVE  TypeOK' /\ Good(c)'
<1> DEFINE l == hand[c][1]
           r == Reply(l, version)
<1>1. AllTypes
  BY TypeParts
<1>2. /\ h[c] = "answering" /\ Goes(c, "writing", <<r>>)
      /\ UNCHANGED <<up, version, client, inbox, owed, wire>>
  BY DEF Answer, ends
<1>3. h'[c] = "writing" /\ hand'[c] = <<r>> /\ <<r>>[1] = r
  BY <1>1, <1>2 DEF Goes, AllTypes, HandTypes
<1>4. l \in Line /\ l.at <= version /\ l.at \in Nat
  <2>1. hand[c] \in Seq(Line) /\ Len(hand[c]) = 1
    BY <1>1, <1>2 DEF AllTypes, HandTypes, Fits
  <2>2. l \in Line
    BY <2>1
  <2>3. l.at \in Nat
    <3> HIDE DEF l
    <3>1. QED  BY <2>2, ConnectionBounds DEF Line
  <2>4. QED  BY <1>2, <2>2, <2>3 DEF Good, Stamped
<1> HIDE DEF l
<1>5. r \in Answers /\ r.to = l /\ r.ver = version /\ ~ r.ended /\ version \in Nat
  <2>1. version \in 0 .. MaxSwaps /\ version \in Nat
    BY <1>1, ConnectionBounds DEF AllTypes, ProcessTypes
  <2>2. QED  BY <1>4, <2>1 DEF Reply, Answers
<1> HIDE DEF r
<1>6. TypeOK'
  <2>1. Fits("writing", <<r>>)
    BY <1>5 DEF Fits
  <2>2. HandTypes'
    BY <1>1, <1>2, <2>1, GoesKeepsTypes DEF AllTypes, Phases
  <2>3. QED  BY <1>1, <1>2, <2>2, TypesStay, TypeParts DEF AllTypes
<1>7. Resting(c)' /\ BlankWhole(c)'
  BY <1>2, <1>3, BlankStays DEF Good, Resting
<1>8. TornLast(c)'
  BY <1>2, <1>3, <1>5 DEF Good, TornLast
<1>9. Stamped(c)'
  <2>1. r.ver \in r.to.at .. version
    BY <1>4, <1>5
  <2>2. QED  BY <1>2, <1>3, <2>1 DEF Good, Stamped
<1>10. ASSUME Listens(c)
       PROVE  Accounts(c)'
  <2>1. /\ Answered(wire[c], owed[c]) /\ InHand("answering", hand[c], wire[c], owed[c])
        /\ Unread(Held("answering", wire[c]), inbox[c], owed[c])
    BY <1>2, <1>10 DEF Good, Accounts
  <2>2. LineInHand("answering", hand[c]) = l /\ LineInHand("writing", <<r>>) = l
    BY <1>3, <1>5 DEF LineInHand, l
  <2>3. InHand("writing", <<r>>, wire[c], owed[c])
    BY <2>1, <2>2 DEF InHand, HasLine
  <2>4. Held("writing", wire[c]) = Held("answering", wire[c])
    BY DEF Held, HasLine
  <2>5. QED  BY <1>2, <1>3, <2>1, <2>3, <2>4 DEF Accounts
<1>11. QED  BY <1>2, <1>6, <1>7, <1>8, <1>9, <1>10 DEF Good, Listens

\* The answer in hand is put behind the others, without its newline.
LEMMA PartWritten ==
  ASSUME TypeOK, NEW c \in Conns, Good(c), h[c] = "writing", Listens(c),
         Len(wire[c]) < WireCap, wire' = [wire EXCEPT ![c] = @ \o hand[c]], version' = version
  PROVE  /\ WireTypes' /\ wire'[c] \in Seq(Answers) /\ Len(wire'[c]) = Len(wire[c]) + 1
         /\ \A k \in 1 .. Len(wire'[c]) : wire'[c][k].ended \/ k = Len(wire'[c])
         /\ ~ wire'[c][Len(wire'[c])].ended
         /\ \A k \in 1 .. Len(wire'[c]) : wire'[c][k].ver \in wire'[c][k].to.at .. version'
         /\ Answered(wire'[c], owed[c])
<1> DEFINE w == wire[c]
           x == hand[c]
           v == w \o x
<1>1. AllTypes
  BY TypeParts
<1>2. w \in Seq(Answers) /\ x \in Seq(Answers) /\ Len(x) = 1
  BY <1>1 DEF AllTypes, WireTypes, HandTypes, Fits
<1>3. /\ v \in Seq(Answers) /\ Len(w) \in Nat /\ Len(v) = Len(w) + 1
      /\ v[Len(w) + 1] = x[1] /\ \A k \in 1 .. Len(w) : v[k] = w[k]
  <2> HIDE DEF w, x
  <2>1. QED  BY <1>2, OneMore
<1>4. wire' = [wire EXCEPT ![c] = v] /\ wire'[c] = v
  BY <1>1 DEF AllTypes, WireTypes
<1>5. /\ \A k \in 1 .. Len(w) : w[k].ended
      /\ ~ x[1].ended
  BY DEF Good, TornLast
<1>6. /\ \A k \in 1 .. Len(w) : w[k].ver \in w[k].to.at .. version
      /\ x[1].ver \in x[1].to.at .. version
  BY DEF Good, Stamped
<1>7. /\ Len(w) <= Len(owed[c]) /\ \A k \in 1 .. Len(w) : owed[c][k] = w[k].to
      /\ Len(w) < Len(owed[c]) /\ owed[c][Len(w) + 1] = x[1].to
  BY DEF Good, Accounts, Answered, InHand, HasLine, LineInHand
<1>8. Len(owed[c]) \in Nat
  BY <1>1 DEF AllTypes, OwedTypes
<1> HIDE DEF w, x, v
<1>9. Len(v) <= WireCap
  <2>1. Len(w) < WireCap
    BY DEF w
  <2>2. QED  BY <1>3, <2>1, ConnectionBounds
<1>10. WireTypes'
  BY <1>1, <1>3, <1>4, <1>9 DEF AllTypes, WireTypes
<1>11. /\ \A k \in 1 .. Len(v) : v[k].ended \/ k = Len(v)
       /\ ~ v[Len(v)].ended
  BY <1>3, <1>5
<1>12. ASSUME NEW k \in 1 .. Len(v)
       PROVE  /\ v[k].ver \in v[k].to.at .. version
              /\ owed[c][k] = v[k].to
  <2>1. CASE k = Len(w) + 1
    BY <1>3, <1>6, <1>7, <2>1
  <2>2. CASE k # Len(w) + 1
    <3>1. k \in 1 .. Len(w)
      BY <1>3, <2>2
    <3>2. QED  BY <1>3, <1>6, <1>7, <3>1
  <2>3. QED  BY <2>1, <2>2
<1>13. Answered(v, owed[c])
  BY <1>3, <1>7, <1>8, <1>12 DEF Answered
<1>14. QED  BY <1>3, <1>4, <1>10, <1>11, <1>12, <1>13 DEF w

LEMMA WriteBodyKeeps ==
  ASSUME TypeOK, NEW c \in Conns, Good(c), WriteBody(c)
  PROVE  TypeOK' /\ Good(c)'
<1>1. AllTypes
  BY TypeParts
<1>2. /\ h[c] = "writing" /\ Listens(c) /\ Goes(c, "newline", hand[c])
      /\ UNCHANGED <<up, version, client, inbox, owed>>
  BY DEF WriteBody, ends
<1>3. h'[c] = "newline" /\ hand'[c] = hand[c]
  BY <1>1, <1>2 DEF Goes, AllTypes, HandTypes
<1>4. /\ WireTypes' /\ wire'[c] \in Seq(Answers) /\ Len(wire'[c]) = Len(wire[c]) + 1
      /\ \A k \in 1 .. Len(wire'[c]) : wire'[c][k].ended \/ k = Len(wire'[c])
      /\ ~ wire'[c][Len(wire'[c])].ended
      /\ \A k \in 1 .. Len(wire'[c]) : wire'[c][k].ver \in wire'[c][k].to.at .. version'
      /\ Answered(wire'[c], owed[c])
  BY PartWritten DEF WriteBody
<1>5. TypeOK'
  <2>1. Fits("newline", hand[c])
    BY <1>1, <1>2 DEF Fits, AllTypes, HandTypes
  <2>2. HandTypes'
    BY <1>1, <1>2, <2>1, GoesKeepsTypes DEF AllTypes, Phases
  <2>3. QED  BY <1>1, <1>2, <1>4, <2>2, TypesStay, TypeParts DEF AllTypes
<1>6. Resting(c)' /\ BlankWhole(c)'
  BY <1>2, <1>3, BlankStays DEF Good, Resting
<1>7. TornLast(c)'
  <2>1. wire'[c] # <<>>
    <3>1. Len(wire[c]) \in Nat
      BY <1>1, HeldCounts DEF AllTypes, WireTypes
    <3>2. QED  BY <1>4, <3>1
  <2>2. QED  BY <1>3, <1>4, <2>1 DEF TornLast
<1>8. Stamped(c)'
  BY <1>2, <1>3, <1>4 DEF Good, Stamped
<1>9. Accounts(c)'
  <2>1. Unread(Held("writing", wire[c]), inbox[c], owed[c])
    BY <1>2 DEF Good, Accounts
  <2>2. Held("writing", wire[c]) = Held("newline", wire'[c])
    <3>1. /\ Held("writing", wire[c]) = Len(wire[c]) + 1
          /\ Held("newline", wire'[c]) = Len(wire'[c])
      BY <1>1, <1>4, HeldCounts DEF AllTypes, WireTypes, HasLine
    <3>2. QED  BY <1>4, <3>1
  <2>3. InHand("newline", hand'[c], wire'[c], owed[c])
    BY DEF InHand, HasLine
  <2>4. QED  BY <1>2, <1>3, <1>4, <2>1, <2>2, <2>3 DEF Accounts
<1>10. QED  BY <1>5, <1>6, <1>7, <1>8, <1>9 DEF Good

LEMMA WriteNewlineKeeps ==
  ASSUME TypeOK, NEW c \in Conns, Good(c), WriteNewline(c)
  PROVE  TypeOK' /\ Good(c)'
<1> DEFINE w == wire[c]
           a == [Last(w) EXCEPT !.ended = TRUE]
           v == Append(Front(w), a)
<1>1. AllTypes
  BY TypeParts
<1>2. /\ h[c] = "newline" /\ Listens(c) /\ Goes(c, "reading", <<>>)
      /\ wire' = [wire EXCEPT ![c] = v]
      /\ UNCHANGED <<up, version, client, inbox, owed>>
  BY DEF WriteNewline, ends
<1>3. h'[c] = "reading" /\ wire'[c] = v
  BY <1>1, <1>2 DEF Goes, AllTypes, HandTypes, WireTypes
<1>4. w \in Seq(Answers) /\ w # <<>> /\ Len(w) <= WireCap
  BY <1>1, <1>2 DEF AllTypes, WireTypes, Good, TornLast
<1>5. Last(w) \in Answers /\ Last(w) = w[Len(w)] /\ Len(w) \in Nat \ {0}
  BY <1>4, LastElement
<1>6. a \in Answers /\ a.ended /\ a.to = Last(w).to /\ a.ver = Last(w).ver
  <2> DEFINE z == Last(w)
  <2>1. z \in Answers
    BY <1>5
  <2> HIDE DEF z
  <2>2. /\ [z EXCEPT !.ended = TRUE] \in Answers /\ [z EXCEPT !.ended = TRUE].ended
        /\ [z EXCEPT !.ended = TRUE].to = z.to /\ [z EXCEPT !.ended = TRUE].ver = z.ver
    BY <2>1 DEF Answers
  <2>3. QED  BY <2>2 DEF z
<1> HIDE DEF a
<1>7. /\ v \in Seq(Answers) /\ Len(v) = Len(w) /\ v[Len(w)] = a
      /\ \A k \in 1 .. Len(w) - 1 : v[k] = w[k]
  <2> HIDE DEF w
  <2>1. QED  BY <1>4, <1>6, LastReplaced
<1> HIDE DEF v
<1>8. \A k \in 1 .. Len(w) : v[k].to = w[k].to /\ v[k].ver = w[k].ver
  <2> HIDE DEF w
  <2>1. QED  BY <1>5, <1>6, <1>7
<1>9. \A k \in 1 .. Len(v) : v[k].ended
  <2>1. \A k \in 1 .. Len(w) : w[k].ended \/ k = Len(w)
    BY DEF Good, TornLast
  <2> HIDE DEF w
  <2>2. QED  BY <1>5, <1>6, <1>7, <2>1
<1>10. TypeOK'
  <2>1. WireTypes'
    BY <1>1, <1>2, <1>3, <1>4, <1>7 DEF AllTypes, WireTypes
  <2>2. HandTypes'
    BY <1>1, <1>2, GoesKeepsTypes DEF AllTypes, Phases, Fits
  <2>3. QED  BY <1>1, <1>2, <2>1, <2>2, TypesStay, TypeParts DEF AllTypes
<1>11. Resting(c)' /\ BlankWhole(c)'
  BY <1>2, <1>3, BlankStays DEF Good, Resting
<1>12. TornLast(c)'
  BY <1>3, <1>9 DEF TornLast
<1>13. Stamped(c)'
  <2>1. \A k \in 1 .. Len(v) : v[k].ver \in v[k].to.at .. version
    BY <1>7, <1>8 DEF Good, Stamped
  <2>2. QED  BY <1>2, <1>3, <2>1 DEF Good, Stamped
<1>14. Accounts(c)'
  <2>1. Answered(w, owed[c]) /\ Unread(Held("newline", w), inbox[c], owed[c])
    BY <1>2 DEF Good, Accounts
  <2>2. Answered(v, owed[c])
    <3> HIDE DEF w
    <3>1. QED  BY <1>7, <1>8, <2>1 DEF Answered
  <2>3. Held("reading", v) = Held("newline", w)
    <3> HIDE DEF w
    <3>1. QED  BY <1>4, <1>7, HeldCounts DEF HasLine
  <2>4. InHand("reading", hand'[c], v, owed[c])
    BY DEF InHand, HasLine
  <2>5. QED  BY <1>2, <1>3, <2>1, <2>2, <2>3, <2>4 DEF Accounts
<1>15. QED  BY <1>10, <1>11, <1>12, <1>13, <1>14 DEF Good

LEMMA WriteFailsKeeps ==
  ASSUME TypeOK, NEW c \in Conns, Good(c), WriteFails(c)
  PROVE  TypeOK' /\ Good(c)'
<1>1. AllTypes
  BY TypeParts
<1>2. Close(c) /\ UNCHANGED <<up, version, client, owed>>
  BY DEF WriteFails, LeavesPart
<1>3. CASE UNCHANGED wire
  BY <1>2, <1>3, CloseKeeps
<1>4. CASE /\ h[c] = "writing" /\ Listens(c) /\ Len(wire[c]) < WireCap
           /\ wire' = [wire EXCEPT ![c] = @ \o hand[c]]
  <2>1. /\ WireTypes'
        /\ \A k \in 1 .. Len(wire'[c]) : wire'[c][k].ended \/ k = Len(wire'[c])
        /\ \A k \in 1 .. Len(wire'[c]) : wire'[c][k].ver \in wire'[c][k].to.at .. version'
        /\ Answered(wire'[c], owed[c])
    BY <1>2, <1>4, PartWritten
  <2>2. h'[c] = "closed" /\ inbox'[c] = <<>>
    BY <1>1, <1>2 DEF Close, Goes, AllTypes, HandTypes, InboxTypes
  <2>3. TypeOK'
    BY <1>1, <1>2, <2>1, CloseKeepsTypes, TypesStay, TypeParts DEF AllTypes
  <2>4. Resting(c)' /\ BlankWhole(c)'
    BY <2>2 DEF Resting, BlankWhole
  <2>5. TornLast(c)' /\ Stamped(c)'
    BY <2>1, <2>2 DEF TornLast, Stamped
  <2>6. Accounts(c)'
    BY <1>2, <2>1, <2>2 DEF Accounts, InHand, HasLine
  <2>7. QED  BY <2>3, <2>4, <2>5, <2>6 DEF Good
<1>5. QED  BY <1>3, <1>4 DEF WriteFails, LeavesPart

LEMMA ThreadKeeps ==
  ASSUME TypeOK, NEW c \in Conns, Good(c), Accept(c) \/ HandlerStep(c) \/ HandlerFault(c)
  PROVE  TypeOK' /\ Good(c)'
<1>1. CASE ReadBinary(c) \/ ReadEof(c) \/ ReadTimesOut(c) \/ ReadFails(c) \/ CloneFails(c)
  BY <1>1, CloseKeeps DEF ReadBinary, ReadEof, ReadTimesOut, ReadFails, CloneFails
<1>2. CASE Accept(c) \/ StartReading(c)
  BY <1>2, PhaseKeeps
<1>3. CASE SkipBlank(c) \/ ReadLine(c) \/ Answer(c)
  BY <1>3, SkipBlankKeeps, ReadLineKeeps, AnswerKeeps
<1>4. CASE WriteBody(c) \/ WriteNewline(c) \/ WriteFails(c)
  BY <1>4, WriteBodyKeeps, WriteNewlineKeeps, WriteFailsKeeps
<1>5. QED  BY <1>1, <1>2, <1>3, <1>4 DEF HandlerStep, HandlerFault

-----------------------------------------------------------------------------
(* The steps of the process *)

\* A refresh makes no stamp later than now.
LEMMA SwapKeeps ==
  ASSUME ConnInv, Swap
  PROVE  ConnInv'
<1>1. TypeOK /\ AllTypes /\ \A c \in Conns : Good(c)
  BY TypeParts DEF ConnInv
<1>2. /\ version \in Nat /\ version' = version + 1 /\ version' \in 0 .. MaxSwaps
      /\ UNCHANGED <<up, client, inbox, owed, h, hand, wire>>
  BY <1>1, ConnectionBounds DEF Swap, ends, AllTypes, ProcessTypes
<1>3. TypeOK'
  <2>1. ProcessTypes'
    BY <1>1, <1>2 DEF AllTypes, ProcessTypes
  <2>2. QED  BY <1>1, <1>2, <2>1, TypesStay, TypeParts DEF AllTypes
<1>4. ASSUME NEW c \in Conns
      PROVE  Good(c)'
  <2>1. Resting(c)' /\ BlankWhole(c)' /\ TornLast(c)'
    BY <1>1, <1>2, RestingStays, BlankStays, TornStays DEF Good, Listens
  <2>2. Listens(c)' => Accounts(c)'
    BY <1>1, <1>2, AccountsStay DEF Good, Listens
  <2>3. /\ inbox[c] \in Seq(Piece) /\ wire[c] \in Seq(Answers)
        /\ Fits(h[c], hand[c])
    BY <1>1 DEF AllTypes, InboxTypes, WireTypes, HandTypes
  <2>4. /\ \A l \in Line : l.at \in Nat
        /\ \A a \in Answers : a.to.at \in Nat /\ a.ver \in Nat
    BY ConnectionBounds DEF Line, Answers
  <2>5. ASSUME NEW j \in DOMAIN inbox[c]
        PROVE  inbox[c][j].line.at <= version'
    <3>1. inbox[c][j].line \in Line
      <4>1. inbox[c][j] \in Piece
        BY <2>3
      <4>2. \A q \in Piece : q.line \in Line
        BY DEF Piece
      <4>3. QED  BY <4>1, <4>2
    <3>2. inbox[c][j].line.at \in Nat /\ inbox[c][j].line.at <= version
      BY <1>1, <2>4, <3>1 DEF Good, Stamped
    <3>3. QED  BY <1>2, <3>2
  <2>6. ASSUME NEW k \in 1 .. Len(wire[c])
        PROVE  wire[c][k].ver \in wire[c][k].to.at .. version'
    <3>1. wire[c][k] \in Answers
      BY <2>3
    <3>2. /\ wire[c][k].to.at \in Nat /\ wire[c][k].ver \in Nat
          /\ wire[c][k].ver \in wire[c][k].to.at .. version
      BY <1>1, <2>4, <3>1 DEF Good, Stamped
    <3>3. QED  BY <1>2, <3>2
  <2>7. ASSUME h[c] = "answering"
        PROVE  hand[c][1].at <= version'
    <3>1. hand[c][1] \in Line
      BY <2>3, <2>7 DEF Fits
    <3>2. hand[c][1].at \in Nat /\ hand[c][1].at <= version
      BY <1>1, <2>4, <2>7, <3>1 DEF Good, Stamped
    <3>3. QED  BY <1>2, <3>2
  <2>8. ASSUME h[c] = "writing"
        PROVE  hand[c][1].ver \in hand[c][1].to.at .. version'
    <3>1. hand[c][1] \in Answers
      BY <2>3, <2>8 DEF Fits
    <3>2. /\ hand[c][1].to.at \in Nat /\ hand[c][1].ver \in Nat
          /\ hand[c][1].ver \in hand[c][1].to.at .. version
      BY <1>1, <2>4, <2>8, <3>1 DEF Good, Stamped
    <3>3. QED  BY <1>2, <3>2
  <2>9. Stamped(c)'
    BY <1>2, <2>5, <2>6, <2>7, <2>8 DEF Stamped
  <2>10. QED  BY <2>1, <2>2, <2>9 DEF Good
<1>5. QED  BY <1>3, <1>4 DEF ConnInv

\* The end of the process closes every connection there is.
LEMMA SpawnPanicsKeeps ==
  ASSUME ConnInv, SpawnPanics
  PROVE  ConnInv'
<1>1. TypeOK /\ AllTypes /\ \A c \in Conns : Good(c)
  BY TypeParts DEF ConnInv
<1>2. /\ up' = FALSE /\ hand' = [c \in Conns |-> <<>>] /\ inbox' = [c \in Conns |-> <<>>]
      /\ h' = [c \in Conns |-> IF h[c] = "none" THEN "none" ELSE "closed"]
      /\ UNCHANGED <<version, client, owed, wire>>
  BY DEF SpawnPanics
<1>3. TypeOK'
  <2>1. ProcessTypes'
    BY <1>1, <1>2 DEF AllTypes, ProcessTypes
  <2>2. InboxTypes'
    BY <1>2, NothingOwed, ConnectionBounds DEF InboxTypes
  <2>3. HandTypes'
    BY <1>2 DEF HandTypes, Phases, Fits
  <2>4. QED  BY <1>1, <1>2, <2>1, <2>2, <2>3, TypesStay, TypeParts DEF AllTypes
<1>4. ASSUME NEW c \in Conns
      PROVE  Good(c)'
  <2>1. /\ inbox'[c] = <<>> /\ h'[c] \in {"none", "closed"}
        /\ h'[c] = "none" => h[c] = "none"
    BY <1>2
  <2>2. Resting(c)' /\ BlankWhole(c)'
    BY <1>1, <1>2, <2>1 DEF Good, Resting, BlankWhole
  <2>3. TornLast(c)'
    BY <1>1, <1>2, <2>1 DEF Good, TornLast
  <2>4. Stamped(c)'
    BY <1>1, <1>2, <2>1 DEF Good, Stamped
  <2>5. ASSUME Listens(c)
        PROVE  Accounts(c)'
    <3>1. h'[c] = "closed"
      BY <1>1, <2>1, <2>5 DEF Good, Resting, Listens
    <3>2. QED  BY <1>1, <1>2, <2>5, <3>1 DEF Good, Accounts, InHand, HasLine
  <2>6. QED  BY <1>2, <2>2, <2>3, <2>4, <2>5 DEF Good, Listens
<1>5. QED  BY <1>3, <1>4 DEF ConnInv

LEMMA ConnInvInit == Init => ConnInv
<1> SUFFICES ASSUME Init  PROVE ConnInv
  OBVIOUS
<1>1. TypeOK
  <2>1. ProcessTypes /\ ClientTypes
    BY ConnectionBounds DEF Init, ProcessTypes, ClientTypes
  <2>2. HandTypes
    BY DEF Init, HandTypes, Phases, Fits
  <2>3. InboxTypes /\ WireTypes /\ OwedTypes
    BY NothingOwed, ConnectionBounds DEF Init, InboxTypes, WireTypes, OwedTypes
  <2>4. QED  BY <2>1, <2>2, <2>3, TypeParts DEF AllTypes
<1>2. ASSUME NEW c \in Conns
      PROVE  Good(c)
  <2>1. client[c] = "absent" /\ h[c] = "none" /\ inbox[c] = <<>> /\ wire[c] = <<>>
    BY DEF Init
  <2>2. QED  BY <2>1 DEF Good, Resting, BlankWhole, TornLast, Stamped, Listens
<1>3. QED  BY <1>1, <1>2 DEF ConnInv

LEMMA ConnInvStep == ConnInv /\ [Next]_vars => ConnInv'
<1> SUFFICES ASSUME ConnInv, [Next]_vars  PROVE ConnInv'
  OBVIOUS
<1>1. TypeOK /\ \A c \in Conns : Good(c)
  BY DEF ConnInv
<1>2. ASSUME NEW c \in Conns,
             ClientStep(c) \/ Accept(c) \/ HandlerStep(c) \/ HandlerFault(c)
      PROVE  ConnInv'
  <2>1. TypeOK' /\ Good(c)'
    BY <1>1, <1>2, ClientKeeps, ThreadKeeps
  <2>2. version' = version /\ \A d \in Conns \ {c} : Same(d)
    BY <1>1, <1>2, ClientAlone, ThreadAlone
  <2>3. \A d \in Conns \ {c} : Good(d)'
    BY <1>1, <2>2, GoodStays
  <2>4. \A d \in Conns : Good(d)'
    BY <2>1, <2>3
  <2>5. QED  BY <2>1, <2>4 DEF ConnInv
<1>3. CASE Reboot
  <2>1. TypeOK'
    BY <1>1, <1>3 DEF Reboot, ends, TypeOK
  <2>2. \A c \in Conns : Good(c)'
    BY <1>1, <1>3, GoodStays DEF Reboot, ends, Same
  <2>3. QED  BY <2>1, <2>2 DEF ConnInv
<1>4. CASE UNCHANGED vars
  <2>1. TypeOK'
    BY <1>1, <1>4 DEF vars, ends, TypeOK
  <2>2. \A c \in Conns : Good(c)'
    BY <1>1, <1>4, GoodStays DEF vars, ends, Same
  <2>3. QED  BY <2>1, <2>2 DEF ConnInv
<1>5. QED  BY <1>2, <1>3, <1>4, SwapKeeps, SpawnPanicsKeeps DEF Next

-----------------------------------------------------------------------------
(* The theorems *)

\* What each connection has in flight is in order in every reachable state.
THEOREM ConnInvHolds == Spec => []ConnInv
<1>1. Init => ConnInv
  BY ConnInvInit
<1>2. ConnInv /\ [Next]_vars => ConnInv'
  BY ConnInvStep
<1>3. QED  BY <1>1, <1>2, PTL DEF Spec

\* Every variable has its type: buffers stay within their size, and a thread has
\* in hand what its phase needs and nothing left over from the phase before.
THEOREM ConnTypeOK == Spec => []TypeOK
<1>1. ConnInv => TypeOK
  BY DEF ConnInv
<1>2. QED  BY <1>1, ConnInvHolds, PTL

\* What Taken lists: the lines answered, then the one in hand.
LEMMA TakenLines ==
  ASSUME TypeOK, NEW c \in Conns
  PROVE  /\ Len(Taken(c)) = Held(h[c], wire[c]) /\ DOMAIN Taken(c) = 1 .. Held(h[c], wire[c])
         /\ \A k \in 1 .. Len(wire[c]) : Taken(c)[k] = wire[c][k].to
         /\ HasLine(h[c]) => Taken(c)[Len(wire[c]) + 1] = LineInHand(h[c], hand[c])
<1> DEFINE w == wire[c]
           f == [i \in 1 .. Len(w) |-> w[i].to]
           y == CASE h[c] = "answering" -> hand[c]
                  [] h[c] = "writing"   -> <<hand[c][1].to>>
                  [] OTHER              -> <<>>
<1>1. w \in Seq(Answers) /\ Len(w) \in Nat /\ Fits(h[c], hand[c])
  BY TypeParts, HeldCounts DEF AllTypes, WireTypes, HandTypes
<1>2. f \in Seq(Line) /\ Len(f) = Len(w) /\ \A k \in 1 .. Len(w) : f[k] = w[k].to
  <2>1. \A i \in 1 .. Len(w) : w[i].to \in Line
    <3>1. \A i \in 1 .. Len(w) : w[i] \in Answers
      BY <1>1
    <3>2. \A a \in Answers : a.to \in Line
      BY DEF Answers
    <3> HIDE DEF w
    <3>3. QED  BY <3>1, <3>2
  <2> HIDE DEF w
  <2>2. QED  BY <1>1, <2>1
<1>3. /\ y \in Seq(Line)
      /\ HasLine(h[c]) => Len(y) = 1 /\ y[1] = LineInHand(h[c], hand[c])
      /\ ~ HasLine(h[c]) => Len(y) = 0
  <2>1. CASE h[c] = "answering"
    BY <1>1, <2>1 DEF Fits, HasLine, LineInHand
  <2>2. CASE h[c] = "writing"
    <3>1. hand[c][1] \in Answers
      BY <1>1, <2>2 DEF Fits
    <3>2. hand[c][1].to \in Line
      BY <3>1 DEF Answers
    <3>3. y = <<hand[c][1].to>>
      BY <2>2
    <3>4. LineInHand(h[c], hand[c]) = hand[c][1].to
      BY <2>2 DEF LineInHand
    <3> DEFINE z == hand[c][1].to
    <3>5. y = <<z>> /\ z \in Line /\ LineInHand(h[c], hand[c]) = z
      BY <3>2, <3>3, <3>4
    <3> HIDE DEF y, z
    <3>6. y \in Seq(Line) /\ Len(y) = 1 /\ y[1] = z
      BY <3>5
    <3>7. QED  BY <2>2, <3>5, <3>6 DEF HasLine
  <2>3. CASE h[c] \notin {"answering", "writing"}
    <3>1. y = <<>> /\ ~ HasLine(h[c])
      BY <2>3 DEF HasLine
    <3> HIDE DEF y
    <3>2. QED  BY <3>1
  <2>4. QED  BY <2>1, <2>2, <2>3
<1> DEFINE r == f \o y
<1>4. Taken(c) = r
  BY DEF Taken
<1> HIDE DEF w, f, y
<1>5. /\ r \in Seq(Line) /\ Len(r) = Len(f) + Len(y)
      /\ \A k \in 1 .. Len(f) + Len(y) : r[k] = IF k <= Len(f) THEN f[k] ELSE y[k - Len(f)]
  <2>1. f \in Seq(Line) /\ y \in Seq(Line)
    BY <1>2, <1>3
  <2>2. QED  BY <2>1, ConcatProperties
<1> HIDE DEF r
<1>6. Len(r) = Held(h[c], w) /\ DOMAIN r = 1 .. Held(h[c], w)
  <2>1. Len(r) = Held(h[c], w)
    <3>1. CASE HasLine(h[c])
      BY <1>1, <1>2, <1>3, <1>5, <3>1, HeldCounts
    <3>2. CASE ~ HasLine(h[c])
      BY <1>1, <1>2, <1>3, <1>5, <3>2, HeldCounts
    <3>3. QED  BY <3>1, <3>2
  <2>2. QED  BY <1>5, <2>1
<1>7. \A k \in 1 .. Len(w) : r[k] = w[k].to
  <2>1. Len(y) \in Nat
    BY <1>3
  <2>2. QED  BY <1>1, <1>2, <1>5, <2>1
<1>8. ASSUME HasLine(h[c])
      PROVE  r[Len(w) + 1] = LineInHand(h[c], hand[c])
  <2>1. Len(w) + 1 \in 1 .. Len(f) + Len(y) /\ (Len(w) + 1) - Len(f) = 1 /\ ~ (Len(w) + 1 <= Len(f))
    <3>1. Len(w) \in Nat /\ Len(f) = Len(w) /\ Len(y) = 1
      BY <1>1, <1>2, <1>3, <1>8
    <3>2. QED  BY <3>1
  <2>2. r[Len(w) + 1] = y[1]
    BY <1>5, <2>1
  <2>3. QED  BY <1>3, <1>8, <2>2
<1>9. QED  BY <1>4, <1>6, <1>7, <1>8 DEF w

\* On an open connection every line the client waits for is answered, in hand or
\* still to be read, each in one place and in the order written, and the answers
\* that reach it after a close are those of its oldest lines: no failure, timeout
\* or refresh in handle_connection loses, doubles or swaps an answer.
THEOREM ConnEveryLineAccounted == Spec => []EveryLineAccounted
<1>1. ConnInv => EveryLineAccounted
  <2> SUFFICES ASSUME ConnInv, NEW c \in Conns, Listens(c)
               PROVE  /\ \A k \in DOMAIN Taken(c) :
                           k \in DOMAIN owed[c] /\ owed[c][k] = Taken(c)[k]
                      /\ h[c] # "closed" =>
                           /\ Len(owed[c]) = Len(Taken(c)) + Cardinality(Wanted(inbox[c]))
                           /\ \A j \in Wanted(inbox[c]) :
                                owed[c][Len(Taken(c)) + Rank(inbox[c], j)] = inbox[c][j].line
    BY DEF EveryLineAccounted
  <2> DEFINE w == wire[c]
             o == owed[c]
             n == Held(h[c], w)
  <2>1. TypeOK /\ AllTypes /\ Accounts(c)
    BY TypeParts DEF ConnInv, Good
  <2>2. /\ Len(Taken(c)) = n /\ DOMAIN Taken(c) = 1 .. n
        /\ \A k \in 1 .. Len(w) : Taken(c)[k] = w[k].to
        /\ HasLine(h[c]) => Taken(c)[Len(w) + 1] = LineInHand(h[c], hand[c])
    BY <2>1, TakenLines
  <2>3. /\ Len(w) \in Nat /\ o \in Seq(Line) /\ Len(o) \in Nat
        /\ HasLine(h[c]) => n = Len(w) + 1
        /\ ~ HasLine(h[c]) => n = Len(w)
    BY <2>1, HeldCounts DEF AllTypes, WireTypes, OwedTypes
  <2>4. /\ Len(w) <= Len(o) /\ \A k \in 1 .. Len(w) : o[k] = w[k].to
        /\ HasLine(h[c]) => Len(w) < Len(o) /\ o[Len(w) + 1] = LineInHand(h[c], hand[c])
    BY <2>1 DEF Accounts, Answered, InHand
  <2>5. ASSUME NEW k \in 1 .. n
        PROVE  k \in 1 .. Len(o) /\ o[k] = Taken(c)[k]
    <3> HIDE DEF w, o, n
    <3>1. CASE k \in 1 .. Len(w)
      BY <2>2, <2>3, <2>4, <3>1
    <3>2. CASE k \notin 1 .. Len(w)
      <4>1. HasLine(h[c]) /\ k = Len(w) + 1
        BY <2>3, <3>2
      <4>2. QED  BY <2>2, <2>3, <2>4, <4>1
    <3>3. QED  BY <3>1, <3>2
  <2>6. \A k \in DOMAIN Taken(c) : k \in DOMAIN o /\ o[k] = Taken(c)[k]
    BY <2>2, <2>3, <2>5
  <2>7. h[c] # "closed" => Unread(n, inbox[c], o)
    BY <2>1 DEF Accounts
  <2>8. QED  BY <2>2, <2>6, <2>7 DEF Unread
<1>2. QED  BY <1>1, ConnInvHolds, PTL

\* An answer whose newline was not written is the last on its connection: when a
\* write fails handle_connection returns, and nothing is glued to the torn answer.
THEOREM ConnNothingAfterTorn == Spec => []NothingAfterTorn
<1>1. ConnInv => NothingAfterTorn
  BY DEF ConnInv, Good, TornLast, NothingAfterTorn
<1>2. QED  BY <1>1, ConnInvHolds, PTL

\* An answer is from a snapshot no older than the one served when its line was
\* written, and no newer than the one served now.
THEOREM ConnFreshReads == Spec => []FreshReads
<1>1. ConnInv => FreshReads
  BY DEF ConnInv, Good, Stamped, FreshReads
<1>2. QED  BY <1>1, ConnInvHolds, PTL
=============================================================================
