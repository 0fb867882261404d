-------------------------- MODULE SocketBindProofs --------------------------
(***************************************************************************)
(* What two or more starts can do to each other at one socket path, for    *)
(* any number of starters: the properties of SocketBind, proved.           *)
(***************************************************************************)
EXTENDS SocketBind, TLAPS

\* A starter that is binding has every other one that runs for a rival.
RivalsKnown ==
  \A p \in Starters :
    Binding(p) => \A q \in Starters \ {p} : Running(q) => q \in rivals[p]

\* Whatever upset the plan of a starter was a rival's doing.
UpsetByRival ==
  \A p \in Starters :
    /\ pc[p] = "remove" => path # NoFile \/ rivals[p] # {}
    /\ pc[p] = "bind" => path = NoFile \/ rivals[p] # {}
    /\ pc[p] = "failed" => rivals[p] # {}

\* A starter that passed its probe met nobody that the path led to, and whoever
\* it met cannot bind again without a crash.
MetKnown ==
  \A p, q \in Starters :
    pc[p] \in {"exists", "remove"} /\ q \in met[p] => pc[q] = "up" /\ path # q

\* The file at the path is a live instance's.
Owned == path # NoFile /\ pc[path] \in {"listen", "up"}

\* Where nobody was killed, a path that a starter removed is bound again by one,
\* and the path of a starter that has failed is somebody's.
PathGoesOn ==
  ~ crashed =>
    \A p \in Starters :
      /\ pc[p] \in {"remove", "failed"} /\ path = NoFile => \E q \in Starters : pc[q] = "bind"
      /\ pc[p] \in {"bind", "failed"} => path = NoFile \/ Owned

BindInv == TypeOK /\ RivalsKnown /\ UpsetByRival /\ MetKnown /\ PathGoesOn

-----------------------------------------------------------------------------

LEMMA InitBind == Init => BindInv
BY DEF Init, BindInv, TypeOK, RivalsKnown, UpsetByRival, MetKnown, PathGoesOn, Binding

\* What every step of a starter that goes on does to the rivals.
LEMMA GoesKeeps ==
  ASSUME BindInv, NEW p \in Starters, Binding(p),
         NEW next \in {"exists", "remove", "bind", "listen", "up", "failed"}, Goes(p, next)
  PROVE  /\ pc' \in [Starters -> {"down", "probe", "exists", "remove", "bind", "listen",
                                  "up", "failed"}]
         /\ rivals' \in [Starters -> SUBSET Starters]
         /\ pc' = [pc EXCEPT ![p] = next]
         /\ \A q \in Starters : rivals[q] \subseteq rivals'[q]
         /\ \A q \in Starters : Binding(q)' =>
              \A r \in Starters \ {q} : Running(r)' => r \in rivals'[q]
BY DEF Goes, BindInv, TypeOK

LEMMA StepKeepsTypes ==
  ASSUME BindInv, NEW p \in Starters,
         \/ Start(p) \/ Probe(p) \/ Exists(p) \/ Remove(p) \/ Bind(p) \/ Listen(p)
         \/ Crash(p) \/ Retry(p)
  PROVE  TypeOK'
<1>1. CASE Start(p) \/ Crash(p) \/ Retry(p)
  <2>1. /\ pc' \in [Starters -> {"down", "probe", "exists", "remove", "bind", "listen",
                                 "up", "failed"}]
        /\ path' = path /\ crashed' \in BOOLEAN
    BY <1>1 DEF Start, Crash, Retry, BindInv, TypeOK
  <2>2. met' \in [Starters -> SUBSET Starters]
    BY <1>1 DEF Start, Crash, Retry, BindInv, TypeOK
  <2>3. rivals' \in [Starters -> SUBSET Starters]
    BY <1>1 DEF Start, Crash, Retry, BindInv, TypeOK
  <2> QED BY <2>1, <2>2, <2>3 DEF BindInv, TypeOK
<1>2. CASE Probe(p) \/ Exists(p) \/ Remove(p) \/ Bind(p) \/ Listen(p)
  <2>1. Binding(p)
    BY <1>2 DEF Probe, Exists, Remove, Bind, Listen, Binding
  <2>2. \E next \in {"exists", "remove", "bind", "listen", "up", "failed"} : Goes(p, next)
    BY <1>2 DEF Probe, Exists, Remove, Bind, Listen
  <2>3. /\ path' \in Starters \cup {NoFile} /\ crashed' \in BOOLEAN
        /\ met' \in [Starters -> SUBSET Starters]
    BY <1>2 DEF Probe, Exists, Remove, Bind, Listen, BindInv, TypeOK
  <2> QED BY <2>1, <2>2, <2>3, GoesKeeps DEF TypeOK
<1> QED BY <1>1, <1>2

LEMMA StepKeepsRivals ==
  ASSUME BindInv, NEW p \in Starters,
         \/ Start(p) \/ Probe(p) \/ Exists(p) \/ Remove(p) \/ Bind(p) \/ Listen(p)
         \/ Crash(p) \/ Retry(p)
  PROVE  RivalsKnown'
<1>1. CASE Start(p)
  BY <1>1 DEF Start, BindInv, TypeOK, RivalsKnown, Binding, Running
<1>2. CASE Crash(p) \/ Retry(p)
  BY <1>2 DEF Crash, Retry, BindInv, TypeOK, RivalsKnown, Binding, Running
<1>3. CASE Probe(p) \/ Exists(p) \/ Remove(p) \/ Bind(p) \/ Listen(p)
  <2>1. Binding(p)
    BY <1>3 DEF Probe, Exists, Remove, Bind, Listen, Binding
  <2>2. \E next \in {"exists", "remove", "bind", "listen", "up", "failed"} : Goes(p, next)
    BY <1>3 DEF Probe, Exists, Remove, Bind, Listen
  <2> QED BY <2>1, <2>2, GoesKeeps DEF RivalsKnown
<1> QED BY <1>1, <1>2, <1>3

\* A starter whose probe is refused, whose file is gone or whose bind fails finds
\* what a rival has done since it started.
LEMMA StepKeepsPlan ==
  ASSUME BindInv, NEW p \in Starters,
         \/ Start(p) \/ Probe(p) \/ Exists(p) \/ Remove(p) \/ Bind(p) \/ Listen(p)
         \/ Crash(p) \/ Retry(p)
  PROVE  UpsetByRival'
<1> USE DEF BindInv
<1>1. CASE Start(p) \/ Crash(p) \/ Retry(p)
  <2>1. /\ path' = path
        /\ \A q \in Starters \ {p} : pc'[q] = pc[q] /\ rivals[q] \subseteq rivals'[q]
        /\ pc'[p] \in {"probe", "down"}
    BY <1>1 DEF Start, Crash, Retry, TypeOK
  <2> QED BY <2>1 DEF UpsetByRival
<1>2. CASE Probe(p) \/ Exists(p) \/ Remove(p) \/ Bind(p) \/ Listen(p)
  <2>1. Binding(p)
    BY <1>2 DEF Probe, Exists, Remove, Bind, Listen, Binding
  <2>2. \A q \in Starters \ {p} : Binding(q) => p \in rivals[q]
    BY <2>1 DEF RivalsKnown, Running
  <2>3. PICK next \in {"exists", "remove", "bind", "listen", "up", "failed"} : Goes(p, next)
    BY <1>2 DEF Probe, Exists, Remove, Bind, Listen
  <2>4. /\ \A q \in Starters : rivals[q] \subseteq rivals'[q]
        /\ \A q \in Starters \ {p} : pc'[q] = pc[q]
        /\ pc'[p] = next
    BY <2>1, <2>3, GoesKeeps DEF TypeOK
  <2>5. ASSUME NEW q \in Starters \ {p}
        PROVE  /\ pc'[q] = "remove" => path' # NoFile \/ rivals'[q] # {}
               /\ pc'[q] = "bind" => path' = NoFile \/ rivals'[q] # {}
               /\ pc'[q] = "failed" => rivals'[q] # {}
    <3>1. pc'[q] \in {"remove", "bind"} => rivals'[q] # {}
      BY <2>2, <2>4 DEF Binding
    <3> QED BY <2>4, <3>1 DEF UpsetByRival
  <2>6. /\ pc'[p] = "remove" => path' # NoFile
        /\ pc'[p] = "bind" => path' = NoFile
    BY <1>2, <2>3, <2>4 DEF Probe, Exists, Remove, Bind, Listen, Goes, TypeOK
  <2>7. pc'[p] = "failed" => rivals'[p] # {}
    <3>1. CASE Probe(p)
      <4>1. Listening => path \in Starters \ {p} /\ Running(path)
        BY <3>1 DEF Probe, Listening, TypeOK, Running
      <4>2. pc'[p] = "failed" => Listening
        BY <3>1 DEF Probe, Goes, TypeOK
      <4> QED BY <2>1, <2>4, <4>1, <4>2 DEF RivalsKnown
    <3>2. CASE Remove(p) \/ Bind(p)
      <4>1. pc'[p] = "failed" => rivals[p] # {}
        BY <3>2 DEF Remove, Bind, Goes, TypeOK, UpsetByRival
      <4> QED BY <2>4, <4>1
    <3>3. CASE Exists(p) \/ Listen(p)
      BY <3>3 DEF Exists, Listen, Goes, TypeOK
    <3> QED BY <1>2, <3>1, <3>2, <3>3
  <2> QED BY <2>5, <2>6, <2>7 DEF UpsetByRival
<1> QED BY <1>1, <1>2

LEMMA StepKeepsMet ==
  ASSUME BindInv, NEW p \in Starters,
         \/ Start(p) \/ Probe(p) \/ Exists(p) \/ Remove(p) \/ Bind(p) \/ Listen(p)
         \/ Crash(p) \/ Retry(p)
  PROVE  MetKnown'
<1> USE NoFileIsNoStarter DEF BindInv, TypeOK, MetKnown
<1>1. CASE Start(p) \/ Retry(p)
  BY <1>1 DEF Start, Retry
<1>2. CASE Crash(p)
  BY <1>2 DEF Crash
<1>3. CASE Probe(p)
  BY <1>3 DEF Probe, Goes, Listening
<1>4. CASE Exists(p) \/ Listen(p)
  BY <1>4 DEF Exists, Listen, Goes
<1>5. CASE Remove(p)
  BY <1>5 DEF Remove, Goes
<1>6. CASE Bind(p)
  BY <1>6 DEF Bind, Goes
<1> QED BY <1>1, <1>2, <1>3, <1>4, <1>5, <1>6

LEMMA StepKeepsPath ==
  ASSUME BindInv, NEW p \in Starters,
         \/ Start(p) \/ Probe(p) \/ Exists(p) \/ Remove(p) \/ Bind(p) \/ Listen(p)
         \/ Crash(p) \/ Retry(p)
  PROVE  PathGoesOn'
<1> USE NoFileIsNoStarter DEF BindInv, TypeOK, PathGoesOn, Owned
<1>1. CASE Start(p) \/ Retry(p)
  BY <1>1 DEF Start, Retry
<1>2. CASE Crash(p)
  BY <1>2 DEF Crash
<1>3. CASE Probe(p)
  BY <1>3 DEF Probe, Goes, Listening
<1>4. CASE Exists(p) \/ Listen(p)
  BY <1>4 DEF Exists, Listen, Goes
<1>5. CASE Remove(p)
  BY <1>5 DEF Remove, Goes
<1>6. CASE Bind(p)
  BY <1>6 DEF Bind, Goes
<1> QED BY <1>1, <1>2, <1>3, <1>4, <1>5, <1>6

\* The invariant holds throughout.
THEOREM BindInvHolds == Spec => []BindInv
<1>1. ASSUME BindInv, [Next]_vars PROVE BindInv'
  <2>1. CASE UNCHANGED vars
    BY <1>1, <2>1 DEF vars, BindInv, TypeOK, RivalsKnown, UpsetByRival, MetKnown, PathGoesOn, Owned,
       Binding, Running
  <2>2. CASE Next
    BY <1>1, <2>2, StepKeepsTypes, StepKeepsRivals, StepKeepsPlan, StepKeepsMet, StepKeepsPath DEF Next, BindInv
  <2> QED BY <1>1, <2>1, <2>2
<1> QED BY InitBind, <1>1, PTL DEF Spec

\* The path leads to no file or to one that a starter has bound, whatever is
\* removed and bound behind each other's back.
THEOREM SocketTypeOK == Spec => []TypeOK
<1>1. BindInv => TypeOK
  BY DEF BindInv
<1> QED BY <1>1, BindInvHolds, PTL

\* A start fails only if another instance ran at the same time: the socket file
\* that a killed instance left behind never keeps the next one from starting.
THEOREM SocketStaleFileNeverBlocks == Spec => []StaleFileNeverBlocks
<1>1. BindInv => StaleFileNeverBlocks
  BY DEF BindInv, UpsetByRival, StaleFileNeverBlocks
<1> QED BY BindInvHolds, <1>1, PTL

\* However many instances start at once, they do not all fail each other: where
\* none was killed and one has failed, the path leads to one that accepts.
THEOREM SocketSomebodyServes == Spec => []SomebodyServes
<1>1. BindInv => SomebodyServes
  BY DEF BindInv, TypeOK, PathGoesOn, Owned, SomebodyServes, Listening, Binding
<1> QED BY BindInvHolds, <1>1, PTL

\* The socket that a starter removes never belongs to a listener that was up when
\* it probed: only starts that overlap can take the path from each other.
THEOREM SocketOnlyRacesSteal == Spec => OnlyRacesSteal
<1>1. BindInv /\ [Next]_vars
        => [\A p, q \in Starters :
              pc[p] = "remove" /\ pc'[p] = "bind" /\ path = q /\ pc[q] = "up"
                => q \notin met[p]]_vars
  BY DEF BindInv, MetKnown
<1> QED BY BindInvHolds, <1>1, PTL DEF Spec, OnlyRacesSteal
=============================================================================
