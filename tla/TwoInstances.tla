---------------------------- MODULE TwoInstances ----------------------------
(***************************************************************************)
(* Two daemons started with the same db_path and bind address: two copies  *)
(* of Store over one directory.  Whoever comes second to server::bind      *)
(* exits, but by then it has booted: it may have crawled into db_path.tmp. *)
(***************************************************************************)
EXTENDS LogFile

CONSTANTS Peers, Readers, CrawlEnds, InitFiles, PeerFiles, Proxies,
          NullDisabled, Interval, Grace, MaxNow, MaxEvents, MaxInodes

VARIABLES now, content, synced, dbIno, durDb, tmpIno, nextIno, pin,
          pcA, curA, oldA, freshA, offsetA, todoA, asOfA, candsA, srcA, agentA, wakeA,
          pcB, curB, oldB, freshB, offsetB, todoB, asOfB, candsB, srcB, agentB, wakeB

processA == <<pcA, curA, oldA, freshA, offsetA, todoA, asOfA, candsA, srcA, agentA, wakeA>>
processB == <<pcB, curB, oldB, freshB, offsetB, todoB, asOfB, candsB, srcB, agentB, wakeB>>
files == <<content, synced, dbIno, durDb, tmpIno, nextIno>>

A == INSTANCE Store WITH
       pc <- pcA, cur <- curA, old <- oldA, fresh <- freshA, offset <- offsetA,
       todo <- todoA, asOf <- asOfA, cands <- candsA, src <- srcA,
       agent <- agentA, wake <- wakeA

B == INSTANCE Store WITH
       pc <- pcB, cur <- curB, old <- oldB, fresh <- freshB, offset <- offsetB,
       todo <- todoB, asOf <- asOfB, cands <- candsB, src <- srcB,
       agent <- agentB, wake <- wakeB

\* server::bind finds the other daemon listening, and main's expect exits.
TurnedAwayA == pcA = "idle" /\ pcB = "idle" /\ A!ProcessGone /\ UNCHANGED <<now, files>>
TurnedAwayB == pcB = "idle" /\ pcA = "idle" /\ B!ProcessGone /\ UNCHANGED <<now, files>>

StepA ==
  /\ A!Boot \/ A!Progress \/ A!Failure \/ A!Kill \/ TurnedAwayA
  /\ UNCHANGED processB

StepB ==
  /\ B!Boot \/ B!Progress \/ B!Failure \/ B!Kill \/ TurnedAwayB
  /\ UNCHANGED processA

Init == A!Init /\ B!Init

Next == StepA \/ StepB \/ (A!Tick /\ UNCHANGED processB)

Spec == Init /\ [][Next]_<<now, files, pin, processA, processB>>

\* database.rs, Snapshot: "a reader holding an Arc<Snapshot> keeps working
\* correctly for the lifetime of that Arc, regardless of what refresh does to
\* the path afterward": an entry of a served index leads to that ticker's line.
ServedEntriesAreTheirTickers ==
  \A s \in {curA, curB} : \A t \in DOMAIN s.index :
    /\ s.index[t] \in DOMAIN content[s.ino]
    /\ IsRecOf(content[s.ino][s.index[t]], t)
=============================================================================
