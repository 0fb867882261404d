------------------------------ MODULE AtomicDb ------------------------------
(***************************************************************************)
(* What the store promises to whoever reads it: the database is one value, *)
(* a map from tickers to payloads, that is replaced as a whole.  There are *)
(* no files, inodes or crawls in progress here, and no torn or mixed map.  *)
(***************************************************************************)
EXTENDS Naturals

CONSTANTS Readers, Bad, Grace

VARIABLES disk,     \* what a restart would load
          durable,  \* what a restart would load after a power loss
          served,   \* what requests are answered from
          view,     \* reader -> the map its request or transfer works on
          clock

avars == <<disk, durable, served, view, clock>>

None == [has |-> FALSE, map |-> [t \in {} |-> 0]]

Some(map) == [has |-> TRUE, map |-> map]

\* The map carries forward from base every ticker that may not be dropped.
Keeps(base, map) ==
  \A t \in DOMAIN base :
    \/ t \in DOMAIN map
    \/ base[t] = Bad
    \/ base[t] \in Nat /\ clock > base[t] + Grace

Base == IF served.has THEN served ELSE disk

\* A crawl is merged with the map served (at boot: with the file) and put on
\* disk.  With nothing to merge with, the crawl must have found something.
Commit ==
  /\ disk'.has
  /\ IF Base.has THEN Keeps(Base.map, disk'.map) ELSE DOMAIN disk'.map # {}
  /\ UNCHANGED <<durable, served, view, clock>>

\* What is on disk becomes what is served.
Adopt ==
  /\ disk.has
  /\ served' = disk
  /\ UNCHANGED <<disk, durable, view, clock>>

\* A boot may take over a peer's database as it is.
Pull ==
  /\ ~ served.has
  /\ disk'.has /\ served' = disk'
  /\ UNCHANGED <<durable, view, clock>>

Stop ==
  /\ served' = None /\ view' = [r \in Readers |-> None]
  /\ \/ UNCHANGED <<disk, durable>>
     \/ disk' = durable /\ UNCHANGED durable
     \/ durable' = disk /\ UNCHANGED disk
  /\ UNCHANGED clock

Harden == durable' = disk /\ UNCHANGED <<disk, served, view, clock>>

Look(r) ==
  /\ served.has /\ view' = [view EXCEPT ![r] = served]
  /\ UNCHANGED <<disk, durable, served, clock>>

Leave(r) ==
  /\ view' = [view EXCEPT ![r] = None]
  /\ UNCHANGED <<disk, durable, served, clock>>

Pass == clock' = clock + 1 /\ UNCHANGED <<disk, durable, served, view>>

AInit ==
  /\ durable = disk /\ served = None
  /\ view = [r \in Readers |-> None]
  /\ clock = 0

ANext ==
  \/ Commit \/ Adopt \/ Pull \/ Stop \/ Harden \/ Pass
  \/ \E r \in Readers : Look(r) \/ Leave(r)

ASpec == AInit /\ [][ANext]_avars
=============================================================================
