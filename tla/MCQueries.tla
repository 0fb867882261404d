----------------------------- MODULE MCQueries -----------------------------
\* The loops on every file of at most MaxLines of the lines of Samples, and the
\* requests on every index they load.
EXTENDS Queries

CONSTANTS MaxLines

\* A line, its length.
Samples ==
  {<<Rec(1, NoEnd), 2>>, <<Rec(1, NoEnd), 1>>, <<Rec(2, NoEnd), 1>>, <<Rec(2, 0), 1>>,
   <<Rec(3, Bad), 1>>, <<Rec(3, NoEnd), 3>>, <<Junk, 1>>, <<Meta(0), 2>>}

\* The lines of s, the last of them torn or not, laid out from byte 0.
LayOut(s, torn) ==
  LET at[j \in 1 .. Len(s)] == IF j = 1 THEN 0 ELSE at[j - 1] + s[j - 1][2] + 1
  IN  [j \in 1 .. Len(s) |-> [line |-> s[j][1], at |-> at[j], len |-> s[j][2],
                              ended |-> ~ torn \/ j < Len(s)]]

MCFiles == {LayOut(s, torn) : s \in UNION {[1 .. n -> Samples] : n \in 0 .. MaxLines},
                              torn \in BOOLEAN}

\* A ticker, one that begins with it, and another.
MCSpelling == <<<<1>>, <<1, 2>>, <<2, 1>>>>
MCStrings == UNION {[1 .. n -> 1 .. 3] : n \in 1 .. 2}

Text(ids) == [form |-> "string", ids |-> ids]
Native(ids) == [form |-> "array", ids |-> ids]
Market(c, p) == [clobTokenIds |-> c, positionIds |-> p]

\* Markets of both protocols, with fields that are missing, empty, no JSON or
\* not only strings; a record without markets.
MCMarkets ==
  << <<Market(Text(<<<<1>>, <<2>>>>), Null),
       Market(Text(<<<<3>>>>), Native(<<<<3>>>>)),
       Market(Text(Null), Native(<<<<1>>>>))>>,
     <<>>,
     <<Market(Text(<<NonText, <<2>>>>), Native(<<<<2>>, NonText, <<3>>>>)),
       Market(Null, Null),
       Market(Text(<<>>), Text(<<<<1>>>>))>> >>
=============================================================================
