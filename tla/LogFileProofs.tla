--------------------------- MODULE LogFileProofs ---------------------------
(***************************************************************************)
(* What LogFile's operators return: the last position of a ticker exists,  *)
(* and one line more at the end of a file changes its index by an upsert.  *)
(***************************************************************************)
EXTENDS LogFile, TLAPS, WellFoundedInduction

\* Induction on numbers, for sets of them: what fails somewhere first fails
\* somewhere.
LEMMA LeastExists ==
  ASSUME NEW T \in SUBSET Nat, T # {}
  PROVE  \E x \in T : \A y \in T : x <= y
<1>1. PICK x \in T : \A y \in T : ~ (<<y, x>> \in OpToRel(<, Nat))
  BY NatLessThanWellFounded, WFMin
<1>2. \A y \in T : x <= y
  <2> SUFFICES ASSUME NEW y \in T, ~ (x <= y) PROVE FALSE
    OBVIOUS
  <2>1. x \in Nat /\ y \in Nat /\ y < x
    OBVIOUS
  <2>2. <<y, x>> \in OpToRel(<, Nat)
    <3> DEFINE yx == <<y, x>>
    <3>1. yx \in Nat \X Nat /\ yx[1] < yx[2]
      BY <2>1
    <3> QED BY <3>1 DEF OpToRel
  <2> QED BY <2>2, <1>1
<1> QED BY <1>2

LEMMA LargestExists ==
  ASSUME NEW n \in Nat, NEW S \in SUBSET (1 .. n), S # {}
  PROVE  \E x \in S : \A y \in S : y <= x
<1> DEFINE T == {n - j : j \in S}
<1>1. T \in SUBSET Nat /\ T # {}
  <2>1. \A j \in S : n - j \in Nat
    OBVIOUS
  <2>2. PICK j \in S : TRUE
    OBVIOUS
  <2>3. n - j \in T
    OBVIOUS
  <2> QED BY <2>1, <2>3
<1>2. PICK z \in T : \A y \in T : z <= y
  <2> HIDE DEF T
  <2> QED BY <1>1, LeastExists
<1>3. PICK x \in S : z = n - x
  BY <1>2
<1>4. \A y \in S : y <= x
  <2> TAKE y \in S
  <2>1. n - x <= n - y
    BY <1>2, <1>3
  <2> QED BY <2>1
<1> QED BY <1>4

\* A ticker that occurs in a file has a last position (dedupe_keep_last has a
\* record to keep), and the index of the file leads to it.
LEMMA LastPositionExists ==
  ASSUME NEW f \in Seq(Line), NEW t, Positions(f, t) # {}
  PROVE  /\ LastPosition(f, t) \in Positions(f, t)
         /\ \A j \in Positions(f, t) : j <= LastPosition(f, t)
<1>1. Positions(f, t) \in SUBSET (1 .. Len(f)) /\ Len(f) \in Nat
  BY DEF Positions
<1>2. \E x \in Positions(f, t) : \A y \in Positions(f, t) : y <= x
  BY <1>1, LargestExists
<1> QED BY <1>2 DEF LastPosition

\* Nothing but the last position is the last position.
LEMMA LastPositionUnique ==
  ASSUME NEW f \in Seq(Line), NEW t, NEW k \in Positions(f, t),
         \A j \in Positions(f, t) : j <= k
  PROVE  LastPosition(f, t) = k
<1>1. LastPosition(f, t) \in Positions(f, t) /\ k <= LastPosition(f, t)
  BY LastPositionExists
<1>2. LastPosition(f, t) <= k
  BY <1>1
<1>3. Positions(f, t) \subseteq Nat
  BY DEF Positions
<1> QED BY <1>1, <1>2, <1>3

\* Writing at the end of a file appends.
LEMMA WriteAtEnd ==
  ASSUME NEW f \in Seq(Line), NEW l \in Line
  PROVE  /\ WriteAt(f, Len(f) + 1, l) \in Seq(Line)
         /\ Len(WriteAt(f, Len(f) + 1, l)) = Len(f) + 1
         /\ \A j \in 1 .. Len(f) : WriteAt(f, Len(f) + 1, l)[j] = f[j]
         /\ WriteAt(f, Len(f) + 1, l)[Len(f) + 1] = l
<1>1. WriteAt(f, Len(f) + 1, l)
        = [j \in 1 .. Len(f) + 1 |-> IF j = Len(f) + 1 THEN l
                                     ELSE IF j <= Len(f) THEN f[j] ELSE Junk]
  BY DEF WriteAt
<1>2. \A j \in 1 .. Len(f) + 1 : j = Len(f) + 1 \/ j \in 1 .. Len(f)
  OBVIOUS
<1> QED BY <1>1, <1>2

\* The entry pushed for an appended record is what from_file would compute.
LEMMA IndexOfAppended ==
  ASSUME NEW f \in Seq(Line), NEW l \in Line, NEW t \in Tickers, IsRecOf(l, t)
  PROVE  IndexOf(WriteAt(f, Len(f) + 1, l)) = Upsert(IndexOf(f), t, Len(f) + 1)
<1> DEFINE g == WriteAt(f, Len(f) + 1, l)
           n == Len(f) + 1
<1>1. /\ g \in Seq(Line) /\ Len(g) = n /\ g[n] = l
      /\ \A j \in 1 .. Len(f) : g[j] = f[j]
  BY WriteAtEnd
<1> HIDE DEF g
<1>2. Positions(g, t) = Positions(f, t) \cup {n}
  BY <1>1 DEF Positions
<1>3. \A u \in Tickers \ {t} : Positions(g, u) = Positions(f, u)
  BY <1>1 DEF Positions, IsRecOf
<1>4. TickersOf(g) = TickersOf(f) \cup {t}
  BY <1>2, <1>3 DEF TickersOf
<1>5. LastPosition(g, t) = n
  <2>1. \A j \in Positions(g, t) : j <= n
    BY <1>1 DEF Positions
  <2> QED BY <1>1, <1>2, <2>1, LastPositionUnique
<1>6. \A u \in TickersOf(f) \ {t} : LastPosition(g, u) = LastPosition(f, u)
  BY <1>3 DEF LastPosition, TickersOf
<1>7. DOMAIN IndexOf(f) = TickersOf(f)
      /\ \A u \in TickersOf(f) : IndexOf(f)[u] = LastPosition(f, u)
  BY DEF IndexOf
<1>8. \A u \in TickersOf(g) : LastPosition(g, u)
        = IF u = t THEN n ELSE IndexOf(f)[u]
  BY <1>4, <1>5, <1>6, <1>7
<1> QED BY <1>4, <1>7, <1>8 DEF IndexOf, Upsert, g

\* An index leads from a ticker to a record of that ticker.
LEMMA IndexLeadsToRecord ==
  ASSUME NEW f \in Seq(Line), NEW t \in DOMAIN IndexOf(f)
  PROVE  /\ t \in Tickers
         /\ IndexOf(f)[t] \in 1 .. Len(f)
         /\ IsRecOf(f[IndexOf(f)[t]], t)
<1>1. t \in TickersOf(f) /\ IndexOf(f)[t] = LastPosition(f, t)
  BY DEF IndexOf
<1>2. LastPosition(f, t) \in Positions(f, t)
  BY <1>1, LastPositionExists DEF TickersOf
<1> QED BY <1>1, <1>2 DEF TickersOf, Positions
=============================================================================
