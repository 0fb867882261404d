-------------------------- MODULE CrawlIterProofs --------------------------
(***************************************************************************)
(* What a crawl can miss and when it gives up, for any events, page size,  *)
(* cursor cap and order of ties: the invariants of CrawlIter.              *)
(***************************************************************************)
EXTENDS CrawlIter, TLAPS, FiniteSetTheorems

-----------------------------------------------------------------------------
(* Counting *)

\* The place of a number in the order of S.
Place(S, e) == Cardinality({d \in S : d <= e})

LEMMA ProperSubsetIsSmaller ==
  ASSUME NEW S, IsFiniteSet(S), NEW T \in SUBSET S, T # S
  PROVE  Cardinality(T) \in Nat /\ Cardinality(T) < Cardinality(S)
<1>1. IsFiniteSet(T) /\ Cardinality(T) <= Cardinality(S) /\ Cardinality(S) # Cardinality(T)
  BY FS_Subset
<1> QED BY <1>1, FS_CardinalityType

\* Every member has a place, and a greater one a later place.
LEMMA PlaceGrows ==
  ASSUME NEW S \in SUBSET Nat, IsFiniteSet(S), NEW e \in S
  PROVE  /\ Place(S, e) \in 1 .. Cardinality(S)
         /\ \A d \in S : d < e => Place(S, d) < Place(S, e)
<1> DEFINE B(x) == {d \in S : d <= x}
<1>1. \A x \in S : IsFiniteSet(B(x)) /\ Cardinality(B(x)) \in Nat
  BY FS_Subset, FS_CardinalityType
<1>2. Cardinality(B(e)) <= Cardinality(S) /\ Cardinality(S) \in Nat
  BY FS_Subset, FS_CardinalityType
<1>3. Cardinality(B(e)) # 0
  <2>1. e \in B(e)
    OBVIOUS
  <2> HIDE DEF B
  <2> QED BY <1>1, <2>1, FS_EmptySet
<1>4. ASSUME NEW d \in S, d < e
      PROVE  Cardinality(B(d)) < Cardinality(B(e))
  <2>1. B(d) \in SUBSET B(e) /\ e \in B(e) /\ e \notin B(d)
    <3>1. d \in Nat /\ e \in Nat /\ \A x \in S : x \in Nat
      OBVIOUS
    <3>2. \A x \in S : x <= d => x <= e
      BY <1>4, <3>1
    <3>3. e <= e /\ ~ (e <= d)
      BY <1>4, <3>1
    <3> QED BY <3>2, <3>3
  <2> HIDE DEF B
  <2> QED BY <1>1, <2>1, ProperSubsetIsSmaller
<1>5. Cardinality(B(e)) \in 1 .. Cardinality(S)
  BY <1>1, <1>2, <1>3
<1> QED BY <1>4, <1>5 DEF Place

LEMMA PlaceUnique ==
  ASSUME NEW S \in SUBSET Nat, IsFiniteSet(S), NEW d \in S, NEW e \in S
  PROVE  /\ Place(S, d) = Place(S, e) => d = e
         /\ Place(S, d) < Place(S, e) => d < e
<1>1. d < e \/ d = e \/ e < d
  OBVIOUS
<1>2. Place(S, d) \in 1 .. Cardinality(S) /\ Place(S, e) \in 1 .. Cardinality(S)
  BY PlaceGrows
<1>3. d < e => Place(S, d) < Place(S, e)
  BY PlaceGrows
<1>4. e < d => Place(S, e) < Place(S, d)
  BY PlaceGrows
<1>5. Cardinality(S) \in Nat
  BY FS_CardinalityType
<1> QED BY <1>1, <1>2, <1>3, <1>4, <1>5

\* Every place is taken.
LEMMA PlaceTaken ==
  ASSUME NEW S \in SUBSET Nat, IsFiniteSet(S), NEW k \in 1 .. Cardinality(S)
  PROVE  \E e \in S : Place(S, e) = k
<1> DEFINE n == Cardinality(S)
           f == [e \in S |-> Place(S, e)]
<1>1. n \in Nat /\ IsFiniteSet(1 .. n) /\ Cardinality(1 .. n) = n
  BY FS_CardinalityType, FS_Interval
<1>2. f \in [S -> 1 .. n]
  BY PlaceGrows
<1>3. \A d, e \in S : f[d] = f[e] => d = e
  BY PlaceUnique
<1>4. f \in Injection(S, 1 .. n)
  BY <1>2, <1>3 DEF Injection, IsInjective
<1>5. f \in Surjection(S, 1 .. n)
  BY <1>1, <1>4, FS_Injection
<1>6. PICK e \in S : f[e] = k
  BY <1>5 DEF Surjection
<1> QED BY <1>6

\* Who has the last place.
LEMMA GreatestExists ==
  ASSUME NEW S \in SUBSET Nat, IsFiniteSet(S), S # {}
  PROVE  \E e \in S : \A d \in S : d <= e
<1> DEFINE n == Cardinality(S)
<1>1. n \in Nat /\ n # 0
  BY FS_CardinalityType, FS_EmptySet
<1>2. PICK e \in S : Place(S, e) = n
  BY <1>1, PlaceTaken
<1>3. ASSUME NEW d \in S PROVE d <= e
  <2>1. Place(S, d) \in 1 .. n
    BY PlaceGrows
  <2>2. ~ (e < d)
    <3>1. e < d => n < Place(S, d)
      BY <1>2, PlaceGrows
    <3> QED BY <1>1, <2>1, <3>1
  <2> QED BY <2>2
<1> QED BY <1>3

\* Who has the first place.
LEMMA LeastExists ==
  ASSUME NEW S \in SUBSET Nat, IsFiniteSet(S), S # {}
  PROVE  \E e \in S : \A d \in S : e <= d
<1> DEFINE n == Cardinality(S)
<1>1. n \in Nat /\ n # 0
  BY FS_CardinalityType, FS_EmptySet
<1>2. PICK e \in S : Place(S, e) = 1
  BY <1>1, PlaceTaken
<1>3. ASSUME NEW d \in S PROVE e <= d
  <2>1. Place(S, d) \in 1 .. n
    BY PlaceGrows
  <2>2. ~ (d < e)
    <3>1. d < e => Place(S, d) < 1
      BY <1>2, PlaceGrows
    <3> QED BY <1>1, <2>1, <3>1
  <2> QED BY <2>2
<1> QED BY <1>3

LEMMA OneMore ==
  ASSUME NEW S, IsFiniteSet(S), NEW x
  PROVE  /\ IsFiniteSet(S \cup {x}) /\ Cardinality(S) \in Nat
         /\ Cardinality(S \cup {x}) <= Cardinality(S) + 1
<1>1. IsFiniteSet(S \cup {x}) /\ Cardinality(S) \in Nat
  BY FS_AddElement, FS_CardinalityType
<1>2. Cardinality(S \cup {x}) = IF x \in S THEN Cardinality(S) ELSE Cardinality(S) + 1
  BY FS_AddElement
<1> QED BY <1>1, <1>2

\* What is in a finite set has a size, no larger than the set's.
LEMMA SizeOfPart ==
  ASSUME NEW S, IsFiniteSet(S), NEW T \in SUBSET S
  PROVE  /\ IsFiniteSet(T) /\ Cardinality(T) \in Nat /\ Cardinality(S) \in Nat
         /\ Cardinality(T) <= Cardinality(S)
BY FS_Subset, FS_CardinalityType

\* What is in one of two finite sets is no more than both together.
LEMMA SizeOfTwo ==
  ASSUME NEW S, IsFiniteSet(S), NEW T, IsFiniteSet(T), NEW U \in SUBSET (S \cup T)
  PROVE  /\ Cardinality(S) \in Nat /\ Cardinality(T) \in Nat
         /\ Cardinality(S \cap T) \in Nat /\ Cardinality(U) \in Nat
         /\ Cardinality(S \cup T) = Cardinality(S) + Cardinality(T) - Cardinality(S \cap T)
         /\ Cardinality(U) <= Cardinality(S) + Cardinality(T)
<1>1. /\ IsFiniteSet(S \cup T)
      /\ Cardinality(S \cup T) = Cardinality(S) + Cardinality(T) - Cardinality(S \cap T)
  BY FS_Union
<1>2. Cardinality(S) \in Nat /\ Cardinality(T) \in Nat /\ Cardinality(S \cap T) \in Nat
  BY FS_CardinalityType, FS_Intersection
<1>3. Cardinality(U) \in Nat /\ Cardinality(U) <= Cardinality(S \cup T)
  BY <1>1, SizeOfPart
<1> QED BY <1>1, <1>2, <1>3

-----------------------------------------------------------------------------
(* Pages *)

LEMMA Constants ==
  /\ IsFiniteSet(Events)
  /\ \A e \in Events : EndOf[e] \in Nat /\ EndOf[e] # 0
  /\ PageLimit \in Nat /\ PageLimit >= 1 /\ CursorCap \in Nat /\ CursorCap >= 1
  /\ MaxIterations \in Nat /\ MaxClosings \in Nat
BY CrawlAssumption DEF NoDate

\* How many of the first n places of the list are on the page.
LEMMA PlacesReadIs ==
  ASSUME offset \in Nat, NEW n \in Nat
  PROVE  PlacesRead(n) = IF n <= offset THEN 0
                         ELSE IF n <= offset + PageLimit THEN n - offset ELSE PageLimit
<1> DEFINE I == {k \in offset + 1 .. offset + PageLimit : k <= n}
           b == IF n <= offset + PageLimit THEN n ELSE offset + PageLimit
<1>1. PageLimit \in Nat /\ b \in Nat /\ b <= n /\ b <= offset + PageLimit
  BY Constants
<1>2. I = offset + 1 .. b
  BY <1>1
<1>3. Cardinality(offset + 1 .. b) = IF offset + 1 > b THEN 0 ELSE b - (offset + 1) + 1
  BY <1>1, FS_Interval
<1>4. PlacesRead(n) = Cardinality(offset + 1 .. b)
  BY <1>2 DEF PlacesRead
<1> QED BY <1>1, <1>3, <1>4

LEMMA Types ==
  ASSUME TypeOK
  PROVE  /\ boundary \in Nat /\ offset \in Nat /\ closings \in Nat /\ repeats \in Nat
         /\ pass_count \in Nat
         /\ Listed \in SUBSET Events /\ Listed \in SUBSET open
         /\ IsFiniteSet(Listed) /\ Cardinality(Listed) \in Nat
         /\ IsFiniteSet(seen) /\ IsFiniteSet(since) /\ IsFiniteSet(open)
<1>1. boundary \in Nat /\ offset \in Nat /\ closings \in Nat /\ repeats \in Nat /\ pass_count \in Nat
  BY Constants DEF TypeOK, NoDate
<1>2. Listed \in SUBSET Events /\ Listed \in SUBSET open
  BY DEF Listed, TypeOK
<1>3. seen \in SUBSET Events /\ since \in SUBSET Events /\ open \in SUBSET Events
  BY DEF TypeOK
<1>4. IsFiniteSet(Listed) /\ Cardinality(Listed) \in Nat
  BY <1>2, Constants, SizeOfPart
<1>5. IsFiniteSet(seen) /\ IsFiniteSet(since) /\ IsFiniteSet(open)
  BY <1>3, Constants, SizeOfPart
<1> QED BY <1>1, <1>2, <1>4, <1>5

\* A page is no longer than page_limit, and of what is listed before one of its
\* events no more is off the page than the offset counts.
LEMMA PageHolds ==
  ASSUME TypeOK, NEW raw \in Pages
  PROVE  /\ raw \in SUBSET Listed /\ IsFiniteSet(raw)
         /\ Parsed(raw) \in SUBSET raw /\ Parsed(raw) \subseteq Events \ Junk
         /\ IsFiniteSet(Parsed(raw)) /\ Cardinality(Parsed(raw)) \in 0 .. PageLimit
         /\ Cardinality(Behind) \in Nat
         /\ Cardinality(Listed \ raw) <= offset + Cardinality(Behind)
         /\ \A s \in raw : Cardinality(Earlier(Listed, EndOf[s]) \ raw) <= offset
<1> DEFINE n == Cardinality(Listed)
<1>1. /\ offset \in Nat /\ PageLimit \in Nat /\ n \in Nat
      /\ Listed \in SUBSET Events /\ IsFiniteSet(Listed)
  BY Types, Constants
<1>2. /\ raw \in SUBSET Listed /\ Cardinality(raw) = PlacesRead(n)
      /\ \A s \in Listed : Cardinality(Earlier(raw, EndOf[s]))
                           = PlacesRead(Cardinality(Earlier(Listed, EndOf[s])))
  BY DEF Pages
<1>3. Parsed(raw) \in SUBSET raw /\ Parsed(raw) \subseteq Events \ Junk
  BY <1>1, <1>2 DEF Parsed
<1>4. IsFiniteSet(raw) /\ Cardinality(raw) \in Nat /\ Cardinality(raw) <= n
  BY <1>1, <1>2, SizeOfPart
<1>5. IsFiniteSet(Parsed(raw)) /\ Cardinality(Parsed(raw)) \in Nat
      /\ Cardinality(Parsed(raw)) <= Cardinality(raw)
  BY <1>3, <1>4, SizeOfPart
<1>6. Cardinality(raw) = IF n <= offset THEN 0
                         ELSE IF n <= offset + PageLimit THEN n - offset ELSE PageLimit
  BY <1>1, <1>2, PlacesReadIs
<1>7. Cardinality(Behind) = IF offset + PageLimit + 1 > n THEN 0
                            ELSE n - (offset + PageLimit + 1) + 1
  <2> DEFINE a == offset + PageLimit + 1
  <2>1. a \in Int /\ n \in Int
    BY <1>1
  <2>2. Behind = a .. n
    BY DEF Behind
  <2> HIDE DEF a, n
  <2>3. Cardinality(a .. n) = IF a > n THEN 0 ELSE n - a + 1
    BY <2>1, FS_Interval
  <2> QED BY <2>2, <2>3 DEF a
<1>8. Cardinality(Listed \ raw) = n - Cardinality(raw)
  <2>1. Listed \cap raw = raw
    BY <1>2
  <2> QED BY <1>1, <2>1, FS_Difference
<1>9. ASSUME NEW s \in raw
      PROVE  Cardinality(Earlier(Listed, EndOf[s]) \ raw) <= offset
  <2> DEFINE A == Earlier(Listed, EndOf[s])
             B == Earlier(raw, EndOf[s])
  <2>1. A \in SUBSET Listed /\ B \in SUBSET raw /\ A \cap raw = B
    BY <1>2 DEF Earlier
  <2>2. s \in raw \ B
    <3>1. EndOf[s] \in Nat
      BY <1>1, <1>2, <1>9, Constants
    <3> QED BY <1>9, <3>1 DEF Earlier
  <2>3. Cardinality(B) = PlacesRead(Cardinality(A))
    BY <1>2
  <2> HIDE DEF A, B
  <2>4. IsFiniteSet(A) /\ Cardinality(A) \in Nat
    BY <1>1, <2>1, SizeOfPart
  <2>5. Cardinality(A \ raw) = Cardinality(A) - Cardinality(B)
    BY <2>1, <2>4, FS_Difference
  <2>6. Cardinality(B) < Cardinality(raw) /\ Cardinality(B) \in Nat
    BY <1>4, <2>1, <2>2, ProperSubsetIsSmaller
  <2>7. Cardinality(B) = IF Cardinality(A) <= offset THEN 0
                         ELSE IF Cardinality(A) <= offset + PageLimit THEN Cardinality(A) - offset ELSE PageLimit
    BY <1>1, <2>3, <2>4, PlacesReadIs
  <2>8. Cardinality(A \ raw) <= offset
    BY <1>1, <1>4, <1>6, <2>4, <2>5, <2>6, <2>7
  <2> QED BY <2>8 DEF A
<1>10. Cardinality(Parsed(raw)) \in 0 .. PageLimit
  BY <1>1, <1>4, <1>5, <1>6
<1>11. Cardinality(Behind) \in Nat /\ Cardinality(Listed \ raw) <= offset + Cardinality(Behind)
  BY <1>1, <1>4, <1>6, <1>7, <1>8
<1> QED BY <1>2, <1>3, <1>4, <1>5, <1>9, <1>10, <1>11

\* The last event of a page.
LEMMA LastOfPage ==
  ASSUME TypeOK, NEW page \in SUBSET Listed, page # {}
  PROVE  \E m \in page : /\ LastEndDate(page) = EndOf[m]
                         /\ \A d \in page : EndOf[d] <= EndOf[m]
<1> DEFINE D == {EndOf[e] : e \in page}
<1>1. page \in SUBSET Events /\ IsFiniteSet(page)
  BY Types, SizeOfPart
<1>2. D \in SUBSET Nat /\ IsFiniteSet(D) /\ D # {}
  <2> DEFINE f == [e \in page |-> EndOf[e]]
  <2>1. f \in Surjection(page, D)
    BY DEF Surjection
  <2>2. IsFiniteSet(D)
    <3> HIDE DEF f, D
    <3> QED BY <1>1, <2>1, FS_Surjection
  <2> QED BY <1>1, <2>2, Constants
<1>3. PICK u \in D : \A d \in D : d <= u
  <2> HIDE DEF D
  <2> QED BY <1>2, GreatestExists
<1>4. \E m \in page : \A d \in page : EndOf[d] <= EndOf[m]
  BY <1>3
<1> QED BY <1>4 DEF LastEndDate

-----------------------------------------------------------------------------
(* The invariant *)

\* Open all along with an earlier endDate, but not given to the caller.
LostBefore(date) == {e \in since \ (Junk \cup yielded) : EndOf[e] < date}

\* What is lost before the cursor is paid for, and enough is left to pay for what the
\* pass goes past: its offset counts what it has seen and what repeated.  Behind an
\* event the pass has seen nothing is lost that is not paid for.
CrawlInv ==
  /\ TypeOK
  /\ \A s \in seen : EndOf[s] >= boundary
  /\ Cardinality(LostBefore(boundary)) + Cardinality(seen \ open) + offset
       <= closings + repeats + Cardinality(seen)
  /\ \A s \in seen : Cardinality(LostBefore(EndOf[s])) <= closings + repeats
  /\ finished = "no" => offset < CursorCap
  /\ MissesArePaidFor
  /\ StallsOnlyOnTies

LEMMA LostFinite ==
  ASSUME TypeOK
  PROVE  \A date : IsFiniteSet(LostBefore(date)) /\ Cardinality(LostBefore(date)) \in Nat
<1>1. \A date : LostBefore(date) \in SUBSET since
  BY DEF LostBefore
<1> QED BY <1>1, Types, SizeOfPart

\* An account: of a part of the list that holds all the pass has seen and is still
\* listed, all but k of it on the page or within the offset, the page leaves no more
\* behind than has been paid for, with what it repeats.
LEMMA Account ==
  ASSUME CrawlInv, NEW raw \in Pages, NEW S \in SUBSET Listed, NEW k \in Nat,
         seen \cap open \subseteq S, Cardinality(S \ raw) <= offset + k,
         NEW M \in SUBSET (LostBefore(boundary) \cup ((S \ raw) \ seen))
  PROVE  /\ IsFiniteSet(M) /\ Cardinality(M) \in Nat
         /\ Cardinality(M) <= closings + (repeats + Cardinality(Parsed(raw) \cap seen)) + k
<1> DEFINE R == S \ raw
           Lost == LostBefore(boundary)
           Gone == seen \ open
           Again == Parsed(raw) \cap seen
<1>1. /\ TypeOK /\ offset \in Nat /\ closings \in Nat /\ repeats \in Nat
      /\ IsFiniteSet(seen) /\ IsFiniteSet(S) /\ IsFiniteSet(Lost) /\ Cardinality(Lost) \in Nat
  <2>1. TypeOK
    BY DEF CrawlInv
  <2>2. IsFiniteSet(S)
    BY <2>1, Types, SizeOfPart
  <2> QED BY <2>1, <2>2, Types, LostFinite
<1>2. IsFiniteSet(R) /\ Cardinality(R) \in Nat /\ IsFiniteSet(Gone) /\ IsFiniteSet(Again)
  BY <1>1, SizeOfPart, R \in SUBSET S, Gone \in SUBSET seen, Again \in SUBSET seen
<1>3. IsFiniteSet(R \ seen) /\ Cardinality(R \ seen) = Cardinality(R) - Cardinality(R \cap seen)
      /\ IsFiniteSet(R \cap seen) /\ Cardinality(R \cap seen) \in Nat
      /\ Cardinality(R \ seen) \in Nat
  <2> HIDE DEF R
  <2> QED BY <1>2, FS_Difference, FS_Intersection, FS_CardinalityType
<1>4. seen \in SUBSET ((R \cap seen) \cup (Gone \cup Again))
  BY <1>1 DEF Parsed, TypeOK
<1> HIDE DEF R, Gone, Again, Lost
<1>5. /\ IsFiniteSet(Gone \cup Again)
      /\ Cardinality(Gone \cup Again) <= Cardinality(Gone) + Cardinality(Again)
      /\ Cardinality(Gone) \in Nat /\ Cardinality(Again) \in Nat /\ Cardinality(Gone \cup Again) \in Nat
  <2>1. IsFiniteSet(Gone \cup Again)
    BY <1>2, FS_Union
  <2> QED BY <1>2, <2>1, SizeOfTwo, Gone \cup Again \in SUBSET (Gone \cup Again)
<1>6. Cardinality(seen) <= Cardinality(R \cap seen) + Cardinality(Gone \cup Again)
      /\ Cardinality(seen) \in Nat
  BY <1>3, <1>4, <1>5, SizeOfTwo
<1>7. M \in SUBSET (Lost \cup (R \ seen))
  BY DEF R, Lost
<1>8. Cardinality(M) <= Cardinality(Lost) + Cardinality(R \ seen) /\ Cardinality(M) \in Nat
  BY <1>1, <1>3, <1>7, SizeOfTwo
<1>9. IsFiniteSet(M)
  <2>1. IsFiniteSet(Lost \cup (R \ seen))
    BY <1>1, <1>3, FS_Union
  <2> QED BY <1>7, <2>1, SizeOfPart
<1>10. /\ Cardinality(Lost) + Cardinality(Gone) + offset <= closings + repeats + Cardinality(seen)
       /\ Cardinality(R) <= offset + k
  BY DEF CrawlInv, Lost, Gone, R
<1>11. Cardinality(M) <= closings + (repeats + Cardinality(Again)) + k
  BY <1>1, <1>2, <1>3, <1>5, <1>6, <1>8, <1>10
<1> QED BY <1>8, <1>9, <1>11 DEF Again

\* What a page leaves behind before one of its events.
LEMMA PagePays ==
  ASSUME CrawlInv, NEW raw \in Pages, NEW s \in Parsed(raw),
         NEW M, M = {e \in since \ (Junk \cup (yielded \cup Parsed(raw))) : EndOf[e] < EndOf[s]}
  PROVE  /\ Cardinality(M) \in Nat
         /\ Cardinality(M) <= closings + (repeats + Cardinality(Parsed(raw) \cap seen))
<1> DEFINE S == Earlier(Listed, EndOf[s])
<1>1. /\ TypeOK /\ boundary \in Nat /\ closings \in Nat /\ repeats \in Nat
      /\ seen \subseteq Events /\ since \subseteq open /\ open \subseteq Events
      /\ IsFiniteSet(seen) /\ offset \in Nat
      /\ s \in raw /\ s \in Events
      /\ Cardinality(S \ raw) <= offset
      /\ \A e \in Events : EndOf[e] \in Nat
  <2>1. TypeOK
    BY DEF CrawlInv
  <2>2. s \in raw /\ s \in Events /\ Cardinality(S \ raw) <= offset
    BY <2>1, PageHolds
  <2> QED BY <2>1, <2>2, Types, Constants DEF TypeOK
<1>2. Cardinality(Parsed(raw) \cap seen) \in Nat
  BY <1>1, SizeOfPart, Parsed(raw) \cap seen \in SUBSET seen
<1>3. CASE \E r \in seen : EndOf[r] >= EndOf[s]
  <2>1. PICK r \in seen : EndOf[r] >= EndOf[s]
    BY <1>3
  <2>2. M \in SUBSET LostBefore(EndOf[r])
    <3>1. ASSUME NEW e \in since, EndOf[e] < EndOf[s] PROVE EndOf[e] < EndOf[r]
      <4>1. EndOf[e] \in Nat /\ EndOf[r] \in Nat /\ EndOf[s] \in Nat
        BY <1>1, <2>1
      <4> QED BY <2>1, <3>1, <4>1
    <3> QED BY <3>1 DEF LostBefore
  <2>3. IsFiniteSet(LostBefore(EndOf[r]))
    BY <1>1, LostFinite
  <2>4. /\ Cardinality(M) \in Nat /\ Cardinality(LostBefore(EndOf[r])) \in Nat
        /\ Cardinality(M) <= Cardinality(LostBefore(EndOf[r]))
    BY <2>2, <2>3, SizeOfPart
  <2>5. Cardinality(LostBefore(EndOf[r])) <= closings + repeats
    BY <2>1 DEF CrawlInv
  <2> QED BY <1>1, <1>2, <2>4, <2>5
<1>4. CASE \A r \in seen : ~ (EndOf[r] >= EndOf[s])
  <2>1. S \in SUBSET Listed
    BY DEF Earlier
  <2>2. seen \cap open \subseteq S
    <3>1. ASSUME NEW r \in seen, r \in open PROVE r \in S
      <4>1. EndOf[r] >= boundary
        BY DEF CrawlInv
      <4>2. EndOf[r] < EndOf[s]
        BY <1>1, <1>4
      <4> QED BY <3>1, <4>1, <4>2 DEF Earlier, Listed
    <3> QED BY <3>1
  <2>3. M \in SUBSET (LostBefore(boundary) \cup ((S \ raw) \ seen))
    <3>1. ASSUME NEW e \in M, ~ (EndOf[e] < boundary) PROVE e \in (S \ raw) \ seen
      <4>1. /\ e \in since /\ e \notin Junk /\ e \notin yielded /\ e \notin Parsed(raw)
            /\ EndOf[e] < EndOf[s]
        OBVIOUS
      <4>2. e \in open /\ EndOf[e] \in Nat
        BY <1>1, <4>1
      <4>3. e \in S
        BY <1>1, <3>1, <4>1, <4>2 DEF Earlier, Listed
      <4>4. e \notin raw /\ e \notin seen
        BY <1>1, <4>1 DEF Parsed, TypeOK
      <4> QED BY <4>3, <4>4
    <3>2. \A e \in M : EndOf[e] < boundary => e \in LostBefore(boundary)
      BY DEF LostBefore
    <3> QED BY <3>1, <3>2
  <2>4. Cardinality(S \ raw) <= offset + 0
    BY <1>1
  <2> HIDE DEF S
  <2>5. Cardinality(M) \in Nat /\ Cardinality(M) <= closings + (repeats + Cardinality(Parsed(raw) \cap seen)) + 0
    BY <2>1, <2>2, <2>3, <2>4, Account
  <2> QED BY <1>1, <1>2, <2>5
<1> QED BY <1>3, <1>4

\* What an empty page leaves behind.
LEMMA EmptyPagePays ==
  ASSUME CrawlInv, NEW raw \in Pages, Parsed(raw) = {}
  PROVE  Cardinality((since \ Junk) \ yielded) <= closings + repeats + Cardinality(Behind)
<1> DEFINE M == (since \ Junk) \ yielded
           k == Cardinality(Behind)
<1>1. TypeOK /\ k \in Nat /\ Cardinality(Listed \ raw) <= offset + k /\ repeats \in Nat
  BY PageHolds, Types DEF CrawlInv
<1>2. seen \cap open \subseteq Listed
  BY DEF CrawlInv, Listed
<1>3. M \in SUBSET (LostBefore(boundary) \cup ((Listed \ raw) \ seen))
  <2>1. ASSUME NEW e \in M, ~ (EndOf[e] < boundary) PROVE e \in (Listed \ raw) \ seen
    <3>1. e \in open /\ EndOf[e] \in Nat /\ boundary \in Nat
      BY <1>1, Types, Constants DEF TypeOK
    <3>2. e \notin raw /\ e \notin seen
      BY <1>1 DEF Parsed, TypeOK
    <3> QED BY <2>1, <3>1, <3>2 DEF Listed
  <2>2. \A e \in M : EndOf[e] < boundary => e \in LostBefore(boundary)
    BY DEF LostBefore
  <2> QED BY <2>1, <2>2
<1> HIDE DEF M, k
<1>4. Cardinality(M) <= closings + (repeats + Cardinality(Parsed(raw) \cap seen)) + k
  BY <1>1, <1>2, <1>3, Account
<1>5. Cardinality(Parsed(raw) \cap seen) = 0
  BY FS_EmptySet
<1>6. repeats + 0 = repeats
  BY <1>1
<1> QED BY <1>4, <1>5, <1>6 DEF M, k

LEMMA InitCrawl == Init => CrawlInv
<1> SUFFICES ASSUME Init PROVE CrawlInv
  OBVIOUS
<1>1. TypeOK
  BY Constants DEF Init, TypeOK
<1>2. LostBefore(boundary) = {}
  <2>1. ASSUME NEW e \in since PROVE ~ (EndOf[e] < boundary)
    BY Constants DEF Init, NoDate
  <2> QED BY <2>1 DEF LostBefore
<1>3. seen = {} /\ seen \ open = {} /\ offset = 0 /\ closings = 0 /\ repeats = 0
  BY DEF Init
<1>4. Cardinality(LostBefore(boundary)) + Cardinality(seen \ open) + offset
        <= closings + repeats + Cardinality(seen)
  <2>1. Cardinality(LostBefore(boundary)) = 0 /\ Cardinality(seen \ open) = 0 /\ Cardinality(seen) = 0
    BY <1>2, <1>3, FS_EmptySet
  <2> QED BY <1>3, <2>1
<1>5. finished = "no" /\ offset < CursorCap
  BY Constants DEF Init
<1> QED BY <1>1, <1>3, <1>4, <1>5 DEF CrawlInv, MissesArePaidFor, StallsOnlyOnTies

LEMMA FinishKeepsCrawl ==
  ASSUME CrawlInv, MaxReached \/ FetchFails \/ EmptyPage
  PROVE  CrawlInv'
<1>1. /\ UNCHANGED <<boundary, offset, pass_count, yielded, seen, repeats, open, since, closings>>
      /\ finished' \in {"maxed", "error", "empty"}
      /\ finished' = "empty" => \E raw \in Pages : Parsed(raw) = {}
  BY DEF MaxReached, FetchFails, EmptyPage, Finish, server
<1>2. TypeOK'
  BY <1>1 DEF CrawlInv, TypeOK, Ends
<1>3. \A date : LostBefore(date)' = LostBefore(date)
  BY <1>1 DEF LostBefore
<1>4. MissesArePaidFor'
  <2>1. finished' = "empty" =>
          Cardinality((since \ Junk) \ yielded) <= closings + repeats + Cardinality(Behind)
    BY <1>1, EmptyPagePays
  <2>2. Behind' = Behind
    BY <1>1 DEF Behind, Listed
  <2> QED BY <1>1, <2>1, <2>2 DEF MissesArePaidFor
<1> QED BY <1>1, <1>2, <1>3, <1>4 DEF CrawlInv, StallsOnlyOnTies

\* A page whose last event stands at the cursor holds no other date, and the offset
\* stands at no place behind that date.
LEMMA TiesFillThePass ==
  ASSUME CrawlInv, NEW raw \in Pages, Parsed(raw) # {}, LastEndDate(Parsed(raw)) = boundary
  PROVE  offset + Cardinality(Parsed(raw)) <= Cardinality({e \in open : EndOf[e] = boundary})
<1> DEFINE page == Parsed(raw)
           T == {e \in open : EndOf[e] = boundary}
           Later == {e \in Listed : EndOf[e] > boundary}
           t == Cardinality(T)
<1>1. /\ TypeOK /\ boundary \in Nat /\ offset \in Nat /\ PageLimit \in Nat
      /\ Listed \in SUBSET Events /\ Listed \in SUBSET open /\ IsFiniteSet(Listed)
      /\ \A e \in Events : EndOf[e] \in Nat
      /\ raw \in SUBSET Listed /\ page \in SUBSET raw /\ IsFiniteSet(raw) /\ IsFiniteSet(page)
  <2>1. TypeOK
    BY DEF CrawlInv
  <2> QED BY <2>1, Types, Constants, PageHolds
<1>2. \A e \in Listed : e \notin Later => EndOf[e] = boundary
  BY <1>1 DEF Listed
<1>3. \A e \in page : EndOf[e] = boundary
  <2>1. PICK m \in page : LastEndDate(page) = EndOf[m] /\ \A d \in page : EndOf[d] <= EndOf[m]
    BY <1>1, LastOfPage
  <2>2. ASSUME NEW e \in page PROVE EndOf[e] <= boundary /\ EndOf[e] >= boundary
    BY <1>1, <2>1 DEF Listed
  <2> QED BY <1>1, <2>2
<1>4. T \in SUBSET Listed /\ IsFiniteSet(T) /\ t \in Nat
  <2>1. T \in SUBSET Listed
    BY <1>1 DEF Listed
  <2> HIDE DEF T
  <2> QED BY <1>1, <2>1, SizeOfPart
<1>5. \E P \in SUBSET raw : page \in SUBSET P /\ Cardinality(P) = PlacesRead(t)
  <2>1. CASE Later = {}
    <3>1. T = Listed
      BY <1>1, <1>2, <1>4, <2>1
    <3>2. Cardinality(raw) = PlacesRead(t)
      BY <3>1 DEF Pages
    <3> QED BY <1>1, <3>2
  <2>2. CASE Later # {}
    <3> DEFINE D == {EndOf[e] : e \in Later}
               f == [e \in Later |-> EndOf[e]]
    <3>1. IsFiniteSet(Later) /\ f \in Surjection(Later, D)
      BY <1>1, SizeOfPart, Later \in SUBSET Listed DEF Surjection
    <3>2. D \in SUBSET Nat /\ D # {} /\ IsFiniteSet(D)
      <4>1. D \in SUBSET Nat /\ D # {}
        BY <1>1, <2>2
      <4> HIDE DEF D, f, Later
      <4> QED BY <3>1, <4>1, FS_Surjection
    <3>3. PICK date \in D : \A d \in D : date <= d
      <4> HIDE DEF D
      <4> QED BY <3>2, LeastExists
    <3>4. PICK l \in Later : EndOf[l] = date
      BY <3>3
    <3>5. Earlier(Listed, date) = T
      <4>1. ASSUME NEW e \in Listed PROVE EndOf[e] < date <=> EndOf[e] = boundary
        <5>1. EndOf[e] \in Nat /\ date \in Nat /\ date > boundary
          BY <1>1, <3>4
        <5>2. e \in Later => date <= EndOf[e]
          BY <3>3
        <5>3. e \in Later => EndOf[e] > boundary
          OBVIOUS
        <5> HIDE DEF Later
        <5> QED BY <1>1, <1>2, <5>1, <5>2, <5>3
      <4> HIDE DEF D, Later
      <4> QED BY <1>1, <1>4, <4>1 DEF Earlier
    <3>6. page \in SUBSET Earlier(raw, date) /\ Earlier(raw, date) \in SUBSET raw
      BY <1>1, <1>3, <3>4 DEF Earlier
    <3>7. Cardinality(Earlier(raw, date)) = PlacesRead(t)
      BY <3>4, <3>5 DEF Pages
    <3> QED BY <3>6, <3>7
  <2> QED BY <2>1, <2>2
<1> HIDE DEF T, Later, page, t
<1>6. PICK P \in SUBSET raw : page \in SUBSET P /\ Cardinality(P) = PlacesRead(t)
  BY <1>5
<1>7. IsFiniteSet(P)
  BY <1>1, <1>6, SizeOfPart
<1>8. Cardinality(page) \in Nat /\ Cardinality(page) <= Cardinality(P) /\ Cardinality(page) # 0
  <2>1. page # {}
    BY DEF page
  <2> QED BY <1>1, <1>6, <1>7, <2>1, SizeOfPart, FS_EmptySet
<1>9. Cardinality(P) = IF t <= offset THEN 0
                       ELSE IF t <= offset + PageLimit THEN t - offset ELSE PageLimit
  BY <1>1, <1>4, <1>6, PlacesReadIs
<1>10. offset + Cardinality(page) <= t
  BY <1>1, <1>4, <1>8, <1>9
<1> QED BY <1>10 DEF page, t, T

\* A page brings the caller all that the pass goes past with it, save what does not
\* parse and what its repeats pay for.
LEMMA YieldKeepsCrawl ==
  ASSUME CrawlInv, Yield
  PROVE  CrawlInv'
<1>1. PICK raw \in Pages : Parsed(raw) # {} /\ Take(Parsed(raw))
  BY DEF Yield
<1> DEFINE page == Parsed(raw)
           n == Cardinality(page)
           again == Cardinality(page \cap seen)
           end == LastEndDate(page)
<1>2. /\ TypeOK /\ finished = "no" /\ pass_count < MaxIterations
      /\ page # {} /\ yielded' = yielded \cup page /\ repeats' = repeats + again
      /\ UNCHANGED <<open, since, closings>>
      /\ \/ /\ offset + n < CursorCap /\ offset' = offset + n /\ seen' = seen \cup page
            /\ UNCHANGED <<boundary, pass_count, finished>>
         \/ /\ offset + n >= CursorCap
            /\ boundary' = end /\ pass_count' = pass_count + 1
            /\ offset' = 0 /\ seen' = {} /\ UNCHANGED finished
         \/ /\ offset + n >= CursorCap /\ end = boundary
            /\ finished' = "stalled" /\ offset' = offset + n /\ seen' = seen \cup page
            /\ UNCHANGED <<boundary, pass_count>>
  BY <1>1 DEF CrawlInv, Yield, Take, NextPass, Stall, CanAdvance, server
<1>3. /\ offset \in Nat /\ offset < CursorCap /\ boundary \in Nat /\ pass_count \in Nat
      /\ closings \in Nat /\ repeats \in Nat
      /\ IsFiniteSet(seen) /\ IsFiniteSet(page) /\ n \in 0 .. PageLimit
      /\ page \in SUBSET Listed /\ Listed \in SUBSET Events /\ Listed \in SUBSET open
      /\ page \subseteq Events \ Junk
      /\ PageLimit \in Nat /\ PageLimit >= 1 /\ CursorCap \in Nat /\ CursorCap >= 1
      /\ MaxIterations \in Nat /\ \A e \in Events : EndOf[e] \in Nat
  BY <1>2, Types, Constants, PageHolds DEF CrawlInv
<1>4. PICK m \in page : end = EndOf[m]
  BY <1>2, <1>3, LastOfPage
<1>5. again \in Nat /\ Cardinality(seen \cup page) = Cardinality(seen) + n - again
      /\ Cardinality(seen) \in Nat
  <2>1. page \cap seen = seen \cap page
    OBVIOUS
  <2> HIDE DEF page
  <2> HIDE DEF n, again
  <2>2. /\ Cardinality(seen) \in Nat /\ Cardinality(seen \cap page) \in Nat
        /\ Cardinality(seen \cup page) = Cardinality(seen) + Cardinality(page) - Cardinality(seen \cap page)
    BY <1>3, SizeOfTwo, {} \in SUBSET (seen \cup page)
  <2> QED BY <2>1, <2>2 DEF n, again
<1>6. \A s \in page : /\ Cardinality(LostBefore(EndOf[s]))' \in Nat
                      /\ Cardinality(LostBefore(EndOf[s]))' <= closings + (repeats + again)
  <2>1. ASSUME NEW s \in page
        PROVE  /\ Cardinality(LostBefore(EndOf[s]))' \in Nat
               /\ Cardinality(LostBefore(EndOf[s]))' <= closings + (repeats + again)
    <3> DEFINE M == {e \in since \ (Junk \cup (yielded \cup Parsed(raw))) : EndOf[e] < EndOf[s]}
    <3>1. LostBefore(EndOf[s])' = M
      BY <1>2 DEF LostBefore
    <3>2. Cardinality(M) \in Nat
          /\ Cardinality(M) <= closings + (repeats + Cardinality(Parsed(raw) \cap seen))
      <4>1. s \in Parsed(raw)
        OBVIOUS
      <4> HIDE DEF page
      <4> QED BY <4>1, PagePays
    <3>3. Cardinality(LostBefore(EndOf[s]))' = Cardinality(M)
      BY <3>1
    <3> QED BY <3>2, <3>3
  <2> QED BY <2>1
<1>7. TypeOK'
  <2> HIDE DEF page, n, again, end
  <2>1. yielded' \subseteq Events \ Junk /\ seen' \subseteq yielded'
    BY <1>2, <1>3 DEF TypeOK
  <2>2. boundary' \in {NoDate} \cup {EndOf[e] : e \in Events}
    BY <1>2, <1>3, <1>4 DEF TypeOK
  <2>3. offset' \in 0 .. CursorCap + PageLimit - 1
    BY <1>2, <1>3
  <2>4. pass_count' \in 0 .. MaxIterations
    BY <1>2, <1>3 DEF TypeOK
  <2>5. repeats' \in Nat
    BY <1>2, <1>3, <1>5
  <2> QED BY <1>2, <2>1, <2>2, <2>3, <2>4, <2>5 DEF TypeOK, Ends
<1>8. \A date : Cardinality(LostBefore(date))' \in Nat
               /\ Cardinality(LostBefore(date))' <= Cardinality(LostBefore(date))
               /\ Cardinality(LostBefore(date)) \in Nat
  <2>1. ASSUME NEW date
        PROVE  Cardinality(LostBefore(date))' \in Nat
               /\ Cardinality(LostBefore(date))' <= Cardinality(LostBefore(date))
               /\ Cardinality(LostBefore(date)) \in Nat
    <3> DEFINE M == {e \in since \ (Junk \cup (yielded \cup page)) : EndOf[e] < date}
    <3>1. M \in SUBSET LostBefore(date)
      BY DEF LostBefore
    <3>2. Cardinality(LostBefore(date))' = Cardinality(M)
      BY <1>2 DEF LostBefore
    <3> HIDE DEF M
    <3>3. IsFiniteSet(LostBefore(date))
      BY <1>2, LostFinite
    <3> QED BY <3>1, <3>2, <3>3, SizeOfPart
  <2> QED BY <2>1
<1>9. CASE boundary' = boundary /\ offset' = offset + n /\ seen' = seen \cup page
  <2>1. \A s \in seen' : EndOf[s] >= boundary'
    BY <1>3, <1>9 DEF CrawlInv, Listed
  <2>2. seen' \ open' = seen \ open
    BY <1>2, <1>3, <1>9
  <2>3. Cardinality(seen \ open) \in Nat
    BY <1>3, SizeOfPart, seen \ open \in SUBSET seen
  <2>4. Cardinality(LostBefore(boundary)) + Cardinality(seen \ open) + offset
          <= closings + repeats + Cardinality(seen)
    BY DEF CrawlInv
  <2>5. /\ Cardinality(LostBefore(boundary)) \in Nat
        /\ Cardinality(LostBefore(boundary)') \in Nat
        /\ Cardinality(LostBefore(boundary)') <= Cardinality(LostBefore(boundary))
    <3>1. Cardinality(LostBefore(boundary)') = Cardinality({e \in since \ (Junk \cup (yielded \cup page)) : EndOf[e] < boundary})
      BY <1>2, <1>9 DEF LostBefore
    <3>2. {e \in since \ (Junk \cup (yielded \cup page)) : EndOf[e] < boundary} \in SUBSET LostBefore(boundary)
      BY DEF LostBefore
    <3>3. IsFiniteSet(LostBefore(boundary))
      BY <1>2, LostFinite
    <3> QED BY <3>1, <3>2, <3>3, SizeOfPart
  <2>6. Cardinality(seen') = Cardinality(seen) + n - again
    BY <1>5, <1>9
  <2>7. Cardinality(LostBefore(boundary)') + Cardinality(seen' \ open') + offset'
          <= closings' + repeats' + Cardinality(seen')
    <3> HIDE DEF n, again, page, end
    <3>1. closings' = closings /\ repeats' = repeats + again /\ offset' = offset + n
          /\ n \in Nat /\ again \in Nat /\ Cardinality(seen) \in Nat
      BY <1>2, <1>3, <1>5, <1>9
    <3>2. Cardinality(seen' \ open') = Cardinality(seen \ open)
      BY <2>2, Zenon
    <3> QED BY <1>3, <2>3, <2>4, <2>5, <2>6, <3>1, <3>2
  <2>8. ASSUME NEW s \in seen'
        PROVE  Cardinality(LostBefore(EndOf[s]))' <= closings' + repeats'
    <3>1. s \in page => Cardinality(LostBefore(EndOf[s]))' <= closings' + repeats'
      BY <1>2, <1>6
    <3>2. s \in seen => Cardinality(LostBefore(EndOf[s]))' <= closings' + repeats'
      <4>1. s \in seen => Cardinality(LostBefore(EndOf[s])) <= closings + repeats
        BY DEF CrawlInv
      <4> HIDE DEF n, again, page, end
      <4> QED BY <1>2, <1>3, <1>5, <1>8, <4>1
    <3> QED BY <1>9, <3>1, <3>2
  <2>9. StallsOnlyOnTies'
    <3> SUFFICES ASSUME finished' = "stalled"
                 PROVE  Cardinality({e \in open : EndOf[e] = boundary}) >= CursorCap
      BY <1>2, <1>9 DEF StallsOnlyOnTies
    <3>1. end = boundary /\ offset + n >= CursorCap
      BY <1>2
    <3>2. offset + n <= Cardinality({e \in open : EndOf[e] = boundary})
      BY <1>2, <3>1, TiesFillThePass
    <3>3. Cardinality({e \in open : EndOf[e] = boundary}) \in Nat
      BY <1>2, Types, SizeOfPart, {e \in open : EndOf[e] = boundary} \in SUBSET open
    <3> HIDE DEF n, page, end
    <3> QED BY <1>3, <3>1, <3>2, <3>3
  <2>10. (finished' = "no" => offset' < CursorCap) /\ finished' # "empty"
    BY <1>2, <1>3, <1>9
  <2> QED BY <1>7, <2>1, <2>7, <2>8, <2>9, <2>10 DEF CrawlInv, MissesArePaidFor
<1>10. CASE boundary' = end /\ offset' = 0 /\ seen' = {} /\ finished' = "no"
  <2>1. Cardinality(LostBefore(boundary)') <= closings' + repeats'
        /\ Cardinality(LostBefore(boundary)') \in Nat
    <3>1. LostBefore(boundary)' = LostBefore(EndOf[m])'
      BY <1>4, <1>10 DEF LostBefore
    <3>2. Cardinality(LostBefore(EndOf[m]))' \in Nat
          /\ Cardinality(LostBefore(EndOf[m]))' <= closings + (repeats + again)
      BY <1>4, <1>6
    <3> QED BY <1>2, <3>1, <3>2
  <2>2. Cardinality(seen' \ open') = 0 /\ Cardinality(seen') = 0
    <3>1. seen' \ open' = {} /\ seen' = {}
      BY <1>10
    <3> QED BY <3>1, FS_EmptySet
  <2>3. Cardinality(LostBefore(boundary)') + Cardinality(seen' \ open') + offset'
          <= closings' + repeats' + Cardinality(seen')
    <3>1. closings' \in Nat /\ repeats' \in Nat
      BY <1>2, <1>3, <1>5
    <3> QED BY <1>10, <2>1, <2>2, <3>1
  <2> QED BY <1>3, <1>7, <1>10, <2>3 DEF CrawlInv, MissesArePaidFor, StallsOnlyOnTies
<1> QED BY <1>2, <1>9, <1>10

\* A new event takes nothing away.
LEMMA OpenKeepsCrawl ==
  ASSUME CrawlInv, NEW e \in Events, Open(e)
  PROVE  CrawlInv'
<1>1. /\ TypeOK /\ finished = "no" /\ open' = open \cup {e}
      /\ UNCHANGED <<since, closings, boundary, offset, pass_count, finished, yielded, seen, repeats>>
  BY DEF CrawlInv, Open, iter
<1>2. TypeOK'
  BY <1>1 DEF TypeOK
<1>3. \A date : LostBefore(date)' = LostBefore(date)
  BY <1>1 DEF LostBefore
<1>4. /\ Cardinality(seen \ open') <= Cardinality(seen \ open)
      /\ Cardinality(seen \ open') \in Nat /\ Cardinality(seen \ open) \in Nat
  <2>1. IsFiniteSet(seen \ open)
    BY <1>1, Types, SizeOfPart, seen \ open \in SUBSET seen
  <2> QED BY <1>1, <2>1, SizeOfPart, seen \ open' \in SUBSET (seen \ open)
<1>5. Cardinality(LostBefore(boundary)') + Cardinality(seen' \ open') + offset'
        <= closings' + repeats' + Cardinality(seen')
  <2>1. Cardinality(LostBefore(boundary)) + Cardinality(seen \ open) + offset
          <= closings + repeats + Cardinality(seen)
    BY DEF CrawlInv
  <2>2. LostBefore(boundary)' = LostBefore(boundary)
    BY <1>1 DEF LostBefore
  <2>3. /\ Cardinality(LostBefore(boundary)) \in Nat /\ Cardinality(seen) \in Nat
        /\ offset \in Nat /\ closings \in Nat /\ repeats \in Nat
    BY <1>1, LostFinite, Types, FS_CardinalityType
  <2> QED BY <1>1, <1>4, <2>1, <2>2, <2>3
<1> QED BY <1>1, <1>2, <1>3, <1>5 DEF CrawlInv, MissesArePaidFor, StallsOnlyOnTies

\* An event that closes is one more that was seen and is gone, at most.
LEMMA CloseKeepsCrawl ==
  ASSUME CrawlInv, NEW e \in Events, Close(e)
  PROVE  CrawlInv'
<1>1. /\ TypeOK /\ finished = "no" /\ open' = open \ {e} /\ since' = since \ {e}
      /\ closings < MaxClosings /\ closings' = closings + 1
      /\ UNCHANGED <<boundary, offset, pass_count, finished, yielded, seen, repeats>>
  BY DEF CrawlInv, Close, iter
<1>2. /\ closings \in Nat /\ offset \in Nat /\ repeats \in Nat /\ MaxClosings \in Nat
      /\ IsFiniteSet(seen) /\ Cardinality(seen) \in Nat
  BY <1>1, Types, Constants, FS_CardinalityType
<1>3. TypeOK'
  <2>1. closings' \in 0 .. MaxClosings
    BY <1>1, <1>2
  <2> QED BY <1>1, <2>1 DEF TypeOK
<1>4. ASSUME NEW date
      PROVE  /\ Cardinality(LostBefore(date)') <= Cardinality(LostBefore(date))
             /\ Cardinality(LostBefore(date)') \in Nat /\ Cardinality(LostBefore(date)) \in Nat
  <2>1. LostBefore(date)' \in SUBSET LostBefore(date)
    BY <1>1 DEF LostBefore
  <2>2. IsFiniteSet(LostBefore(date))
    BY <1>1, LostFinite
  <2> QED BY <2>1, <2>2, SizeOfPart
<1>5. /\ Cardinality(seen \ open') <= Cardinality(seen \ open) + 1
      /\ Cardinality(seen \ open') \in Nat /\ Cardinality(seen \ open) \in Nat
  <2> DEFINE G == seen \ open
  <2>1. IsFiniteSet(G)
    BY <1>2, SizeOfPart, G \in SUBSET seen
  <2>2. seen \ open' \in SUBSET (G \cup {e})
    BY <1>1
  <2> HIDE DEF G
  <2>3. IsFiniteSet(G \cup {e}) /\ Cardinality(G) \in Nat
        /\ Cardinality(G \cup {e}) <= Cardinality(G) + 1
    BY <2>1, OneMore
  <2>4. /\ Cardinality(seen \ open') \in Nat /\ Cardinality(G \cup {e}) \in Nat
        /\ Cardinality(seen \ open') <= Cardinality(G \cup {e})
    BY <2>2, <2>3, SizeOfPart
  <2>5. Cardinality(seen \ open') <= Cardinality(G) + 1
    BY <2>3, <2>4
  <2> QED BY <2>3, <2>4, <2>5 DEF G
<1>6. Cardinality(LostBefore(boundary)') + Cardinality(seen' \ open') + offset'
        <= closings' + repeats' + Cardinality(seen')
  <2>1. Cardinality(LostBefore(boundary)) + Cardinality(seen \ open) + offset
          <= closings + repeats + Cardinality(seen)
    BY DEF CrawlInv
  <2>2. /\ Cardinality(LostBefore(boundary)') <= Cardinality(LostBefore(boundary))
        /\ Cardinality(LostBefore(boundary)') \in Nat /\ Cardinality(LostBefore(boundary)) \in Nat
    <3>1. LostBefore(boundary)' \in SUBSET LostBefore(boundary)
      BY <1>1 DEF LostBefore
    <3>2. IsFiniteSet(LostBefore(boundary))
      BY <1>1, LostFinite
    <3> QED BY <3>1, <3>2, SizeOfPart
  <2> QED BY <1>1, <1>2, <1>5, <2>1, <2>2
<1>7. ASSUME NEW s \in seen
      PROVE  Cardinality(LostBefore(EndOf[s]))' <= closings' + repeats'
  <2>1. Cardinality(LostBefore(EndOf[s])) <= closings + repeats
    BY DEF CrawlInv
  <2>2. /\ Cardinality(LostBefore(EndOf[s])') <= Cardinality(LostBefore(EndOf[s]))
        /\ Cardinality(LostBefore(EndOf[s])') \in Nat /\ Cardinality(LostBefore(EndOf[s])) \in Nat
    BY <1>4
  <2> QED BY <1>1, <1>2, <2>1, <2>2
<1>8. (\A s \in seen' : EndOf[s] >= boundary') /\ (finished' = "no" => offset' < CursorCap)
  BY <1>1 DEF CrawlInv
<1>9. \A s \in seen' : Cardinality(LostBefore(EndOf[s]))' <= closings' + repeats'
  BY <1>1, <1>7
<1> QED BY <1>1, <1>3, <1>6, <1>8, <1>9 DEF CrawlInv, MissesArePaidFor, StallsOnlyOnTies

LEMMA CrawlStep == CrawlInv /\ [Next]_vars => CrawlInv'
<1> SUFFICES ASSUME CrawlInv, [Next]_vars PROVE CrawlInv'
  OBVIOUS
<1>1. CASE MaxReached \/ FetchFails \/ EmptyPage
  BY <1>1, FinishKeepsCrawl
<1>2. CASE Yield
  BY <1>2, YieldKeepsCrawl
<1>3. ASSUME NEW e \in Events, Open(e)
      PROVE  CrawlInv'
  BY <1>3, OpenKeepsCrawl
<1>4. ASSUME NEW e \in Events, Close(e)
      PROVE  CrawlInv'
  BY <1>4, CloseKeepsCrawl
<1>5. CASE UNCHANGED vars
  BY <1>5 DEF vars, iter, server, CrawlInv, TypeOK, LostBefore, Listed, Behind,
              MissesArePaidFor, StallsOnlyOnTies
<1> QED BY <1>1, <1>2, <1>3, <1>4, <1>5 DEF Next, Pull

\* A page that holds an event takes the pass a place further, or ends it.
LEMMA YieldProgresses ==
  ASSUME CrawlInv, Yield
  PROVE  \/ finished' # "no"
         \/ UNCHANGED <<boundary, pass_count>> /\ offset' \in offset + 1 .. CursorCap - 1
         \/ boundary' > boundary /\ pass_count' \in pass_count + 1 .. MaxIterations
<1>1. PICK raw \in Pages : Parsed(raw) # {} /\ Take(Parsed(raw))
  BY DEF Yield
<1> DEFINE page == Parsed(raw)
           n == Cardinality(page)
           end == LastEndDate(page)
<1>2. /\ TypeOK /\ pass_count < MaxIterations /\ page # {}
      /\ \/ /\ offset + n < CursorCap /\ offset' = offset + n
            /\ UNCHANGED <<boundary, pass_count>>
         \/ end # boundary /\ boundary' = end /\ pass_count' = pass_count + 1
         \/ finished' = "stalled"
  BY <1>1 DEF CrawlInv, Yield, Take, NextPass, Stall, CanAdvance
<1>3. /\ offset \in Nat /\ boundary \in Nat /\ pass_count \in Nat
      /\ CursorCap \in Nat /\ MaxIterations \in Nat
      /\ page \in SUBSET Listed /\ Listed \in SUBSET Events /\ IsFiniteSet(page)
  BY <1>2, Types, Constants, PageHolds
<1>4. n \in Nat /\ n >= 1
  BY <1>2, <1>3, FS_EmptySet, FS_CardinalityType
<1>5. end \in Nat /\ end >= boundary
  <2>1. PICK m \in page : end = EndOf[m]
    BY <1>2, <1>3, LastOfPage
  <2> QED BY <1>3, <2>1, Constants DEF Listed
<1> HIDE DEF n, end, page
<1> QED BY <1>2, <1>3, <1>4, <1>5

-----------------------------------------------------------------------------
(* The theorems *)

\* Between any two pages of a pass, however events open and close in between and
\* however the server orders ties: what the pass is past and has not yielded is no
\* more than what has closed and what has repeated.
THEOREM CrawlInvHolds == Spec => []CrawlInv
BY InitCrawl, CrawlStep, PTL DEF Spec

\* OpenEventsIter::next keeps its offset below a page past the cap, never passes
\* its limit of iterations, and yields only what parses.
THEOREM CrawlTypeOK == Spec => []TypeOK
<1>1. CrawlInv => TypeOK
  BY DEF CrawlInv
<1> QED BY <1>1, CrawlInvHolds, PTL

\* Of the events that were open all along a crawl that comes to its empty page
\* misses no more than have closed under it, repeated in one of its passes and stand
\* behind a last page of items that do not parse, whatever page_limit and cursor_cap
\* are and whichever of the tied events a page happens to hold.
THEOREM CrawlMissesArePaidFor == Spec => []MissesArePaidFor
<1>1. CrawlInv => MissesArePaidFor
  BY DEF CrawlInv
<1> QED BY <1>1, CrawlInvHolds, PTL

\* A crawl gives up only at a date that cursor_cap open events or more share.
THEOREM CrawlStallsOnlyOnTies == Spec => []StallsOnlyOnTies
<1>1. CrawlInv => StallsOnlyOnTies
  BY DEF CrawlInv
<1> QED BY <1>1, CrawlInvHolds, PTL

\* A page of a crawl moves the offset on below cursor_cap, or the cursor on to a later
\* endDate and counts a pass, or ends the crawl: next() never asks for a page again.
THEOREM CrawlEveryPageProgresses == Spec => EveryPageProgresses
<1> DEFINE A == Pull => \/ finished' # "no"
                        \/ UNCHANGED <<boundary, pass_count>> /\ offset' \in offset + 1 .. CursorCap - 1
                        \/ boundary' > boundary /\ pass_count' \in pass_count + 1 .. MaxIterations
<1>1. ASSUME CrawlInv, Yield
      PROVE  A
  BY <1>1, YieldProgresses
<1>2. ASSUME MaxReached \/ FetchFails \/ EmptyPage
      PROVE  A
  BY <1>2 DEF MaxReached, FetchFails, EmptyPage, Finish
<1>3. CrawlInv => A
  BY <1>1, <1>2 DEF Pull
<1>4. CrawlInv /\ [Next]_vars => [A]_vars
  BY <1>3
<1> QED BY <1>4, CrawlInvHolds, PTL DEF Spec, EveryPageProgresses
=============================================================================
