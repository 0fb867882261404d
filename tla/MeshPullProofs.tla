--------------------------- MODULE MeshPullProofs ---------------------------
(***************************************************************************)
(* One transfer at a time, an honest `ok`, and a file from one snapshot,   *)
(* for any number of attempts, addresses, pieces and refreshes.            *)
(***************************************************************************)
EXTENDS MeshPull, TLAPS, SequenceTheorems

Holding == {"locked", "accepting", "streaming"}

\* What OneTransfer rests on: whoever is past the lock holds it, and the port is
\* bound by exactly the handler that accepts on it; a pull has no handler before
\* it is asked for.
LockInv ==
  /\ hpc \in [Attempts -> HandlerPhases]
  /\ listener \in Attempts \cup {Free}
  /\ \A a \in Attempts : hpc[a] \in Holding => sending = a
  /\ \A a \in Attempts : hpc[a] = "accepting" <=> listener = a
  /\ rpc \in [Attempts -> RequesterPhases]
  /\ \A a \in Attempts : rpc[a] \in {"idle", "candidate"} => hpc[a] = "none"

\* The handler of every attempt starts outside the lock, with no port bound.
LEMMA LockInit == Init => LockInv
<1> SUFFICES ASSUME Init PROVE LockInv
  OBVIOUS
<1>1. hpc = [a \in Attempts |-> "none"] /\ rpc = [a \in Attempts |-> "idle"] /\ listener = Free
  BY DEF Init
<1>2. \A a \in Attempts : hpc[a] = "none" /\ listener # a
  BY <1>1, MeshAssumption
<1>3. QED  BY <1>1, <1>2 DEF LockInv, Holding, HandlerPhases, Working, RequesterPhases

\* A step that leaves the handlers, the lock and the port alone keeps the
\* invariant: every step of a requester does, and so does a refresh.
LEMMA RequesterKeepsLock ==
  ASSUME LockInv,
         \/ \E a \in Attempts :
              \/ Query(a) \/ HearReply(a) \/ ReplyTimesOut(a) \/ ConnectRaw(a)
              \/ ReadPiece(a) \/ EndOfStream(a) \/ ReadTimesOut(a) \/ Dies(a)
              \/ SendPiece(a)
         \/ Refresh
         \/ UNCHANGED vars
  PROVE  LockInv'
<1>1. UNCHANGED <<hpc, sending, listener>>
  BY DEF Query, HearReply, ReplyTimesOut, ConnectRaw, ReadPiece, EndOfStream,
         ReadTimesOut, Dies, SendPiece, Refresh, vars, sender
<1>2. \/ UNCHANGED rpc
      \/ \E a \in Attempts, next \in RequesterPhases :
           /\ rpc' = [rpc EXCEPT ![a] = next]
           /\ next \in {"idle", "candidate"} => rpc[a] = "idle"
  <2>1. CASE UNCHANGED vars \/ Refresh \/ \E a \in Attempts : ReadPiece(a) \/ SendPiece(a)
    BY <2>1 DEF Refresh, ReadPiece, SendPiece, vars, requester
  <2>2. ASSUME NEW a \in Attempts,
               \/ Query(a) \/ HearReply(a) \/ ReplyTimesOut(a) \/ ConnectRaw(a)
               \/ EndOfStream(a) \/ ReadTimesOut(a) \/ Dies(a)
        PROVE  \E next \in RequesterPhases :
                 /\ rpc' = [rpc EXCEPT ![a] = next]
                 /\ next \in {"idle", "candidate"} => rpc[a] = "idle"
    BY <2>2 DEF Query, HearReply, ReplyTimesOut, ConnectRaw, EndOfStream, ReadTimesOut,
                Dies, RequesterGoes, RequesterPhases, Ended
  <2>3. QED  BY <2>1, <2>2
<1>3. QED  BY <1>1, <1>2 DEF LockInv

\* A handler that leaves was the only one past the lock.
LEMMA LeaveKeepsLock ==
  ASSUME LockInv, NEW a \in Attempts, NEW how \in HandlerPhases \ Working,
         hpc[a] \in Holding, Leave(a, how),
         UNCHANGED rpc,
         IF hpc[a] = "accepting" THEN listener' = Free ELSE listener' = listener
  PROVE  LockInv'
<1>1. hpc' = [hpc EXCEPT ![a] = how] /\ how \notin Holding /\ how # "accepting"
  BY DEF Leave, HandlerGoes, Working, Holding
<1>2. \A b \in Attempts : b # a => hpc[b] \notin Holding
  BY DEF LockInv
<1>3. \A b \in Attempts : hpc'[b] \notin Holding
  BY <1>1, <1>2 DEF LockInv
<1>4. listener' \notin Attempts /\ listener' \in Attempts \cup {Free}
  <2>1. CASE hpc[a] = "accepting"
    BY <2>1, MeshAssumption
  <2>2. CASE hpc[a] # "accepting"
    BY <2>2, <1>2 DEF LockInv, Holding
  <2>3. QED  BY <2>1, <2>2
<1>5. QED  BY <1>1, <1>3, <1>4 DEF LockInv, Holding, Working

\* Every step of a handler keeps it.
LEMMA HandlerKeepsLock ==
  ASSUME LockInv, NEW a \in Attempts, Ask(a) \/ Handle(a)
  PROVE  LockInv'
<1> USE MeshAssumption
<1>1. CASE Ask(a)
  BY <1>1 DEF Ask, RequesterGoes, LockInv, Holding, HandlerPhases, Working, RequesterPhases, Ended
<1>2. CASE TryLock(a)
  BY <1>2 DEF TryLock, requester, HandlerGoes, LockInv, Holding, HandlerPhases, Working
<1>3. CASE BindRaw(a)
  <2>1. CASE Leave(a, "no") /\ UNCHANGED listener
    BY <1>3, <2>1, LeaveKeepsLock DEF BindRaw, requester, Holding, HandlerPhases, Working
  <2>2. CASE listener = Free /\ HandlerGoes(a, "accepting") /\ listener' = a /\ UNCHANGED sending
    BY <1>3, <2>2 DEF BindRaw, requester, HandlerGoes, LockInv, Holding, HandlerPhases, Working
  <2>3. QED  BY <1>3, <2>1, <2>2 DEF BindRaw
<1>4. CASE Accept(a)
  BY <1>4 DEF Accept, requester, HandlerGoes, LockInv, Holding, HandlerPhases, Working
<1>5. CASE Deadline(a)
  BY <1>5, LeaveKeepsLock DEF Deadline, requester, Holding, HandlerPhases, Working
<1>6. CASE SendPiece(a)
  BY <1>6, RequesterKeepsLock
<1>7. CASE Finish(a)
  BY <1>7, LeaveKeepsLock DEF Finish, requester, Holding, HandlerPhases, Working
<1>8. CASE StreamFails(a)
  BY <1>8, LeaveKeepsLock DEF StreamFails, requester, Holding, HandlerPhases, Working
<1>9. QED  BY <1>1, <1>2, <1>3, <1>4, <1>5, <1>6, <1>7, <1>8 DEF Handle

\* A restart ends every handler and closes the port.
LEMMA RestartKeepsLock ==
  ASSUME LockInv, Restart
  PROVE  LockInv'
<1>1. \A a \in Attempts :
        /\ hpc'[a] = IF hpc[a] \in Working THEN "over" ELSE hpc[a]
        /\ listener' # a
  BY MeshAssumption DEF Restart
<1>2. hpc' \in [Attempts -> HandlerPhases] /\ listener' = Free /\ rpc' = rpc
  BY DEF Restart, requester, LockInv, HandlerPhases
<1>3. QED  BY <1>1, <1>2 DEF LockInv, Holding, Working

\* The invariant holds throughout.
THEOREM LockInvHolds == Spec => []LockInv
<1>1. ASSUME LockInv, [Next]_vars PROVE LockInv'
  <2>1. CASE UNCHANGED vars \/ Refresh
    BY <1>1, <2>1, RequesterKeepsLock
  <2>2. CASE Restart
    BY <1>1, <2>2, RestartKeepsLock
  <2>3. ASSUME NEW a \in Attempts, Query(a) \/ Pull(a) \/ Handle(a) \/ Dies(a)
        PROVE  LockInv'
    <3>1. CASE Ask(a) \/ Handle(a)
      BY <1>1, <3>1, HandlerKeepsLock
    <3>2. CASE ~(Ask(a) \/ Handle(a))
      BY <1>1, <2>3, <3>2, RequesterKeepsLock DEF Pull
    <3>3. QED  BY <3>1, <3>2
  <2>4. QED  BY <1>1, <2>1, <2>2, <2>3 DEF Next
<1>2. QED  BY LockInit, <1>1, PTL DEF Spec

\* However many requesters ask at once, whatever times out, fails or restarts, one
\* handler at most is past the lock, and the raw port is bound by that handler.
THEOREM MeshOneTransfer == Spec => []OneTransfer
<1>1. LockInv => OneTransfer
  BY MeshAssumption DEF LockInv, OneTransfer, Holding, Working
<1>2. QED  BY LockInvHolds, <1>1, PTL

-----------------------------------------------------------------------------
(* Types *)

\* TypeOK, in the parts that one action or another leaves alone.
DaemonTypes ==
  /\ ip \in [Attempts -> Hosts] /\ served \in 0 .. MaxVersion
  /\ sending \in Attempts \cup {Free} /\ listener \in Attempts \cup {Free}
  /\ backlog \in Seq(Attempts)
HandlerTypes ==
  /\ hpc \in [Attempts -> HandlerPhases]
  /\ snap \in [Attempts -> 0 .. MaxVersion] /\ sent \in [Attempts -> 0 .. FileLen]
ReplyTypes ==
  /\ reply \in [Attempts -> {"none", "ok", "error"}]
  /\ to \in [Attempts -> Attempts \cup {Free}]
PullTypes ==
  /\ rpc \in [Attempts -> RequesterPhases] /\ reported \in [Attempts -> 0 .. MaxVersion]
EndTypes == end \in [Attempts -> {"open", "trailer", "cut"}]
StreamTypes == wire \in [Attempts -> Seq(Piece)] /\ got \in [Attempts -> Seq(Piece)]

AllParts ==
  /\ DaemonTypes /\ HandlerTypes /\ ReplyTypes
  /\ PullTypes /\ EndTypes /\ StreamTypes

LEMMA TypeParts == (TypeOK <=> AllParts) /\ (TypeOK' <=> AllParts')
BY DEF TypeOK, AllParts, DaemonTypes, HandlerTypes, ReplyTypes, PullTypes, EndTypes, StreamTypes

\* A step that changes no variable of a part keeps the part.
LEMMA PartsStay ==
  /\ UNCHANGED <<ip, served, sending, listener, backlog>> => (DaemonTypes <=> DaemonTypes')
  /\ UNCHANGED <<hpc, snap, sent>> => (HandlerTypes <=> HandlerTypes')
  /\ UNCHANGED <<reply, to>> => (ReplyTypes <=> ReplyTypes')
  /\ UNCHANGED <<rpc, reported>> => (PullTypes <=> PullTypes')
  /\ UNCHANGED end => (EndTypes <=> EndTypes')
  /\ UNCHANGED <<wire, got>> => (StreamTypes <=> StreamTypes')
BY DEF DaemonTypes, HandlerTypes, ReplyTypes, PullTypes, EndTypes, StreamTypes

LEMMA TypeInit == Init => TypeOK
<1> SUFFICES ASSUME Init PROVE AllParts
  BY TypeParts
<1>1. DaemonTypes /\ HandlerTypes
  BY MeshAssumption DEF Init, DaemonTypes, HandlerTypes, HandlerPhases
<1>2. ReplyTypes /\ PullTypes /\ EndTypes
  BY MeshAssumption DEF Init, ReplyTypes, PullTypes, EndTypes, RequesterPhases
<1>3. StreamTypes
  BY DEF Init, StreamTypes
<1>4. QED  BY <1>1, <1>2, <1>3 DEF AllParts

LEMMA HangUpKeepsType ==
  ASSUME StreamTypes, NEW a \in Attempts, HangUp(a) \/ UNCHANGED <<wire, got>>
  PROVE  StreamTypes'
<1>1. <<>> \in Seq(Piece)
  OBVIOUS
<1>2. CASE HangUp(a)
  BY <1>1, <1>2 DEF StreamTypes, HangUp
<1>3. CASE UNCHANGED <<wire, got>>
  BY <1>3 DEF StreamTypes
<1>4. QED  BY <1>2, <1>3

LEMMA RequesterKeepsType ==
  ASSUME TypeOK, NEW a \in Attempts,
         Query(a) \/ Pull(a) \/ Dies(a)
  PROVE  TypeOK'
<1> USE TypeParts, PartsStay
<1> USE DEF AllParts, sender, requester, raw
<1>1. CASE Query(a)
  <2>1. PullTypes'
    BY <1>1 DEF Query, RequesterGoes, RequesterPhases, PullTypes, DaemonTypes
  <2>2. QED  BY <1>1, <2>1 DEF Query
<1>2. CASE Ask(a)
  <2>1. PullTypes'
    BY <1>2 DEF Ask, RequesterGoes, RequesterPhases, PullTypes
  <2>2. HandlerTypes'
    BY <1>2 DEF Ask, HandlerTypes, HandlerPhases, Working
  <2>3. QED  BY <1>2, <2>1, <2>2 DEF Ask
<1>3. CASE HearReply(a) \/ ReplyTimesOut(a)
  <2>1. PullTypes'
    BY <1>3 DEF HearReply, ReplyTimesOut, RequesterGoes, RequesterPhases, Ended, PullTypes
  <2>2. ReplyTypes'
    BY <1>3 DEF HearReply, ReplyTimesOut, ReplyTypes
  <2>3. QED  BY <1>3, <2>1, <2>2 DEF HearReply, ReplyTimesOut
<1>4. CASE ConnectRaw(a)
  <2>1. PullTypes'
    BY <1>4 DEF ConnectRaw, RequesterGoes, RequesterPhases, Ended, PullTypes
  <2>2. DaemonTypes'
    BY <1>4 DEF ConnectRaw, DaemonTypes
  <2>3. QED  BY <1>4, <2>1, <2>2 DEF ConnectRaw
<1>5. CASE ReadPiece(a)
  <2>1. Head(wire[a]) \in Piece /\ Tail(wire[a]) \in Seq(Piece)
    BY <1>5 DEF ReadPiece, StreamTypes
  <2>2. Append(got[a], Head(wire[a])) \in Seq(Piece)
    BY <2>1 DEF StreamTypes
  <2>3. StreamTypes'
    BY <1>5, <2>1, <2>2 DEF ReadPiece, StreamTypes
  <2>4. QED  BY <1>5, <2>3 DEF ReadPiece
<1>6. CASE EndOfStream(a) \/ ReadTimesOut(a) \/ Dies(a)
  <2>1. StreamTypes'
    BY <1>6, HangUpKeepsType DEF EndOfStream, ReadTimesOut, Dies
  <2>2. PullTypes'
    BY <1>6 DEF EndOfStream, ReadTimesOut, Dies, RequesterGoes, RequesterPhases, Ended, PullTypes
  <2>3. QED  BY <1>6, <2>1, <2>2 DEF EndOfStream, ReadTimesOut, Dies
<1>7. QED  BY <1>1, <1>2, <1>3, <1>4, <1>5, <1>6 DEF Pull

LEMMA LeaveKeepsType ==
  ASSUME TypeOK, NEW a \in Attempts, NEW how \in HandlerPhases, Leave(a, how)
  PROVE  HandlerTypes'
BY TypeParts, MeshAssumption DEF AllParts, Leave, HandlerGoes, HandlerTypes

LEMMA SenderKeepsType ==
  ASSUME TypeOK,
         (\E a \in Attempts : Handle(a)) \/ Refresh \/ Restart \/ UNCHANGED vars
  PROVE  TypeOK'
<1> USE TypeParts, PartsStay
<1> USE DEF AllParts, sender, requester, raw
<1>1. ASSUME NEW a \in Attempts, TryLock(a)
      PROVE  TypeOK'
  <2>1. HandlerTypes'
    BY <1>1 DEF TryLock, HandlerGoes, HandlerTypes, HandlerPhases, Working, DaemonTypes
  <2>2. ReplyTypes'
    BY <1>1 DEF TryLock, Reply, ReplyTypes
  <2>3. DaemonTypes'
    BY <1>1 DEF TryLock, DaemonTypes
  <2>4. QED  BY <1>1, <2>1, <2>2, <2>3 DEF TryLock
<1>2. ASSUME NEW a \in Attempts, BindRaw(a)
      PROVE  TypeOK'
  <2>1. HandlerTypes'
    <3>1. CASE Leave(a, "no")
      BY <3>1, LeaveKeepsType DEF HandlerPhases
    <3>2. CASE HandlerGoes(a, "accepting") /\ UNCHANGED <<snap, sent>>
      BY <3>2 DEF HandlerGoes, HandlerTypes, HandlerPhases, Working
    <3>3. QED  BY <1>2, <3>1, <3>2 DEF BindRaw
  <2>2. ReplyTypes'
    BY <1>2 DEF BindRaw, Reply, ReplyTypes
  <2>3. DaemonTypes'
    BY <1>2 DEF BindRaw, Leave, DaemonTypes
  <2>4. QED  BY <1>2, <2>1, <2>2, <2>3 DEF BindRaw
<1>3. ASSUME NEW a \in Attempts, Accept(a)
      PROVE  TypeOK'
  <2>1. Head(backlog) \in Attempts /\ Tail(backlog) \in Seq(Attempts)
    BY <1>3 DEF Accept, DaemonTypes
  <2>2. EndTypes'
    BY <1>3 DEF Accept, Reset, EndTypes
  <2>3. <<>> \in Seq(Attempts)
    OBVIOUS
  <2>4. DaemonTypes'
    BY <1>3, <2>1, <2>3 DEF Accept, DaemonTypes
  <2>5. ReplyTypes'
    BY <1>3, <2>1 DEF Accept, ReplyTypes
  <2>6. HandlerTypes'
    BY <1>3 DEF Accept, HandlerGoes, HandlerTypes, HandlerPhases, Working
  <2>7. QED  BY <1>3, <2>2, <2>4, <2>5, <2>6 DEF Accept
<1>4. ASSUME NEW a \in Attempts, Deadline(a)
      PROVE  TypeOK'
  <2>1. HandlerTypes'
    BY <1>4, LeaveKeepsType DEF Deadline, HandlerPhases
  <2>2. DaemonTypes'
    BY <1>4 DEF Deadline, Leave, DaemonTypes
  <2>3. QED  BY <1>4, <2>1, <2>2 DEF Deadline
<1>5. ASSUME NEW a \in Attempts, SendPiece(a)
      PROVE  TypeOK'
  <2>1. <<snap[a], sent[a] + 1>> \in Piece /\ sent[a] + 1 \in 0 .. FileLen
    BY <1>5, MeshAssumption DEF SendPiece, Piece, HandlerTypes
  <2>2. StreamTypes'
    BY <1>5, <2>1 DEF SendPiece, StreamTypes
  <2>3. HandlerTypes'
    BY <1>5, <2>1 DEF SendPiece, HandlerTypes
  <2>4. QED  BY <1>5, <2>2, <2>3 DEF SendPiece
<1>6. ASSUME NEW a \in Attempts, Finish(a) \/ StreamFails(a)
      PROVE  TypeOK'
  <2>1. HandlerTypes'
    BY <1>6, LeaveKeepsType DEF Finish, StreamFails, HandlerPhases
  <2>2. DaemonTypes'
    BY <1>6 DEF Finish, StreamFails, Leave, DaemonTypes
  <2>3. EndTypes'
    BY <1>6 DEF Finish, StreamFails, EndTypes
  <2>4. QED  BY <1>6, <2>1, <2>2, <2>3 DEF Finish, StreamFails
<1>7. CASE Refresh
  <2>1. DaemonTypes'
    BY <1>7, MeshAssumption DEF Refresh, DaemonTypes
  <2>2. QED  BY <1>7, <2>1 DEF Refresh
<1>8. CASE Restart
  <2>1. EndTypes'
    BY <1>8 DEF Restart, Reset, EndTypes
  <2>2. HandlerTypes'
    BY <1>8, MeshAssumption DEF Restart, HandlerTypes, HandlerPhases
  <2>3. DaemonTypes'
    BY <1>8 DEF Restart, DaemonTypes
  <2>4. QED  BY <1>8, <2>1, <2>2, <2>3 DEF Restart
<1>9. CASE UNCHANGED vars
  BY <1>9 DEF vars
<1>10. QED  BY <1>1, <1>2, <1>3, <1>4, <1>5, <1>6, <1>7, <1>8, <1>9 DEF Handle

LEMMA NextKeepsType ==
  ASSUME TypeOK, [Next]_vars
  PROVE  TypeOK'
<1>1. CASE \E a \in Attempts : Query(a) \/ Pull(a) \/ Dies(a)
  BY <1>1, RequesterKeepsType
<1>2. CASE (\E a \in Attempts : Handle(a)) \/ Refresh \/ Restart \/ UNCHANGED vars
  BY <1>2, SenderKeepsType
<1>3. QED  BY <1>1, <1>2 DEF Next

\* Whatever is asked, streamed, lost or restarted, every variable keeps its type:
\* no handler streams past the end of its file, and none pins a snapshot that was
\* never served.
THEOREM MeshTypeOK == Spec => []TypeOK
BY TypeInit, NextKeepsType, PTL DEF Spec

-----------------------------------------------------------------------------
(* "ok" is honest *)

Past == {"accepting", "streaming", "failed", "over"}

\* "ok" is only said by a handler that accepts, and no handler goes back.
OkIsHonest ==
  /\ \A c \in Attempts : reply[c] = "ok" => hpc[c] \in Past
  /\ \A c \in Attempts : rpc[c] \in {"told", "receiving", "refused"} => hpc[c] \in Past

\* A handler that has accepted or ended never starts again.
LEMMA PastStays ==
  ASSUME TypeOK, LockInv, [Next]_vars, NEW c \in Attempts, hpc[c] \in Past
  PROVE  hpc'[c] \in Past
<1> USE DEF LockInv, Past
<1>1. ASSUME NEW a \in Attempts, Query(a) \/ Pull(a) \/ Dies(a)
      PROVE  hpc'[c] \in Past
  <2>1. CASE Ask(a)
    BY <2>1 DEF Ask
  <2>2. CASE ~ Ask(a)
    BY <1>1, <2>2 DEF Query, Pull, HearReply, ReplyTimesOut, ConnectRaw, ReadPiece,
                      EndOfStream, ReadTimesOut, Dies, sender
  <2>3. QED  BY <2>1, <2>2
<1>2. ASSUME NEW a \in Attempts, Handle(a)
      PROVE  hpc'[c] \in Past
  <2>1. CASE TryLock(a) \/ BindRaw(a)
    BY <2>1 DEF TryLock, BindRaw, HandlerGoes, Leave
  <2>2. CASE Accept(a) \/ Deadline(a)
    BY <2>2 DEF Accept, Deadline, HandlerGoes, Leave
  <2>3. CASE SendPiece(a) \/ Finish(a) \/ StreamFails(a)
    BY <2>3 DEF SendPiece, Finish, StreamFails, HandlerGoes, Leave
  <2>4. QED  BY <1>2, <2>1, <2>2, <2>3 DEF Handle
<1>3. CASE Refresh \/ Restart \/ UNCHANGED vars
  BY <1>3 DEF Refresh, Restart, vars, sender, Working
<1>4. QED  BY <1>1, <1>2, <1>3 DEF Next

LEMMA NextKeepsOk ==
  ASSUME TypeOK, LockInv, OkIsHonest, [Next]_vars
  PROVE  OkIsHonest'
<1> USE PastStays
<1> USE DEF OkIsHonest
<1>1. CASE UNCHANGED <<reply, rpc>>
  BY <1>1
<1>2. ASSUME NEW a \in Attempts, HearReply(a)
      PROVE  OkIsHonest'
  BY <1>2 DEF HearReply, RequesterGoes, TypeOK
<1>3. ASSUME NEW a \in Attempts, ConnectRaw(a)
      PROVE  OkIsHonest'
  BY <1>3 DEF ConnectRaw, RequesterGoes, TypeOK
<1>4. ASSUME NEW a \in Attempts,
             \/ Query(a) \/ Ask(a) \/ ReplyTimesOut(a)
             \/ EndOfStream(a) \/ ReadTimesOut(a) \/ Dies(a)
      PROVE  OkIsHonest'
  BY <1>4 DEF Query, Ask, ReplyTimesOut, EndOfStream, ReadTimesOut, Dies, RequesterGoes, TypeOK
<1>5. ASSUME NEW a \in Attempts, TryLock(a) \/ BindRaw(a)
      PROVE  OkIsHonest'
  <2>1. UNCHANGED rpc
    BY <1>5 DEF TryLock, BindRaw, requester
  <2>2. \A c \in Attempts : reply'[c] = "ok" => reply[c] = "ok" \/ hpc'[c] \in Past
    BY <1>5 DEF TryLock, BindRaw, Reply, HandlerGoes, Past, TypeOK
  <2>3. QED  BY <2>1, <2>2
<1>6. ASSUME NEW a \in Attempts,
             \/ ReadPiece(a) \/ Accept(a) \/ Deadline(a)
             \/ SendPiece(a) \/ Finish(a) \/ StreamFails(a)
      PROVE  UNCHANGED <<reply, rpc>>
  BY <1>6 DEF ReadPiece, Accept, Deadline, SendPiece, Finish, StreamFails, requester
<1>7. CASE Refresh \/ Restart \/ UNCHANGED vars
  BY <1>1, <1>7 DEF Refresh, Restart, vars, requester
<1>8. QED  BY <1>1, <1>2, <1>3, <1>4, <1>5, <1>6, <1>7 DEF Next, Pull, Handle

LEMMA OkIsHonestHolds == Spec => []OkIsHonest
<1>1. Init => OkIsHonest
  BY DEF Init, OkIsHonest
<1>2. QED  BY <1>1, NextKeepsOk, MeshTypeOK, LockInvHolds, PTL DEF Spec

\* ConnectRaw is refused only by a port that is not bound, and the handler that
\* said "ok" to this requester has it bound until it accepts or gives up.
LEMMA NextKeepsRefused ==
  ASSUME TypeOK, LockInv, OkIsHonest, RefusedOnlyAfterDeadline, [Next]_vars
  PROVE  RefusedOnlyAfterDeadline'
<1> SUFFICES ASSUME NEW c \in Attempts, rpc'[c] = "refused"
             PROVE  hpc'[c] \in {"streaming", "failed", "over"}
  BY DEF RefusedOnlyAfterDeadline
<1>1. CASE rpc[c] = "refused"
  <2>1. hpc[c] \in {"streaming", "failed", "over"} /\ hpc'[c] \in Past
    BY <1>1, PastStays DEF RefusedOnlyAfterDeadline, Past
  <2>2. hpc'[c] = "accepting" => hpc[c] \in {"accepting", "locked"}
    <3>1. ASSUME NEW a \in Attempts, Ask(a) \/ TryLock(a) \/ BindRaw(a) \/ Accept(a)
          PROVE  hpc'[c] = "accepting" => hpc[c] \in {"accepting", "locked"}
      BY <3>1 DEF Ask, TryLock, BindRaw, Accept, HandlerGoes, Leave, TypeOK
    <3>2. ASSUME NEW a \in Attempts, Deadline(a) \/ SendPiece(a) \/ Finish(a) \/ StreamFails(a)
          PROVE  hpc'[c] = "accepting" => hpc[c] \in {"accepting", "locked"}
      BY <3>2 DEF Deadline, SendPiece, Finish, StreamFails, HandlerGoes, Leave, TypeOK
    <3>3. ASSUME NEW a \in Attempts,
                 \/ Query(a) \/ HearReply(a) \/ ReplyTimesOut(a) \/ ConnectRaw(a)
                 \/ ReadPiece(a) \/ EndOfStream(a) \/ ReadTimesOut(a) \/ Dies(a)
          PROVE  UNCHANGED hpc
      BY <3>3 DEF Query, HearReply, ReplyTimesOut, ConnectRaw, ReadPiece, EndOfStream,
                  ReadTimesOut, Dies, sender
    <3>4. CASE Refresh \/ Restart \/ UNCHANGED vars
      BY <3>4 DEF Refresh, Restart, vars, sender
    <3>5. QED  BY <3>1, <3>2, <3>3, <3>4 DEF Next, Pull, Handle
  <2>3. QED  BY <2>1, <2>2 DEF Past
<1>2. CASE rpc[c] # "refused"
  <2>1. ConnectRaw(c) /\ listener = Free
    <3>1. ASSUME NEW a \in Attempts, ConnectRaw(a)
          PROVE  a = c /\ listener = Free
      BY <1>2, <3>1 DEF ConnectRaw, RequesterGoes, TypeOK
    <3>2. ASSUME NEW a \in Attempts,
                 \/ Query(a) \/ Ask(a) \/ HearReply(a) \/ ReplyTimesOut(a)
                 \/ EndOfStream(a) \/ ReadTimesOut(a) \/ Dies(a)
          PROVE  FALSE
      BY <1>2, <3>2 DEF Query, Ask, HearReply, ReplyTimesOut, EndOfStream, ReadTimesOut,
                        Dies, RequesterGoes, TypeOK
    <3>3. ASSUME NEW a \in Attempts, ReadPiece(a) \/ Handle(a)
          PROVE  FALSE
      BY <1>2, <3>3 DEF ReadPiece, Handle, TryLock, BindRaw, Accept, Deadline, SendPiece,
                        Finish, StreamFails, requester
    <3>4. ~ (Refresh \/ Restart \/ UNCHANGED vars)
      BY <1>2 DEF Refresh, Restart, vars, requester
    <3>5. QED  BY <3>1, <3>2, <3>3, <3>4 DEF Next, Pull
  <2>2. hpc'[c] = hpc[c] /\ hpc[c] \in Past
    BY <2>1 DEF ConnectRaw, OkIsHonest
  <2>3. hpc[c] # "accepting"
    BY <2>1, MeshAssumption DEF LockInv
  <2>4. QED  BY <2>2, <2>3 DEF Past
<1>3. QED  BY <1>1, <1>2

\* "saying ok is honest": a requester that was told "ok" finds the port closed
\* only if its own handler waited in vain, gave the stream to another connection
\* of the address, or died, for any number of attempts that compete for the port.
THEOREM MeshOkIsHonest == Spec => []RefusedOnlyAfterDeadline
<1>1. Init => RefusedOnlyAfterDeadline
  BY DEF Init, RefusedOnlyAfterDeadline
<1>2. QED  BY <1>1, NextKeepsRefused, OkIsHonestHolds, MeshTypeOK, LockInvHolds, PTL DEF Spec

-----------------------------------------------------------------------------
(* The snapshot a stream is cut from *)

\* The snapshot in use was pinned after every other attempt that was let through
\* had its answer to db_info.
PinnedNotOlder ==
  /\ \A c \in Attempts : reported[c] <= served
  /\ \A b, c \in Attempts :
       hpc[b] \in Holding /\ hpc[c] \in Past \cup {"locked"} => reported[c] <= snap[b]

LEMMA NextKeepsPinned ==
  ASSUME TypeOK, LockInv, PinnedNotOlder, [Next]_vars
  PROVE  PinnedNotOlder'
<1>1. /\ reported \in [Attempts -> Nat] /\ snap \in [Attempts -> Nat] /\ served \in Nat
      /\ hpc \in [Attempts -> HandlerPhases]
  BY MeshAssumption DEF TypeOK
<1> USE <1>1 DEF PinnedNotOlder
<1>2. CASE UNCHANGED <<reported, served, hpc, snap>>
  BY <1>2
<1>3. ASSUME NEW a \in Attempts, Query(a)
      PROVE  PinnedNotOlder'
  <2>1. hpc[a] = "none"
    BY <1>3 DEF Query, LockInv
  <2>2. UNCHANGED <<served, hpc, snap>> /\ reported' = [reported EXCEPT ![a] = served]
    BY <1>3 DEF Query, sender
  <2>3. QED  BY <2>1, <2>2 DEF Past
<1>4. ASSUME NEW a \in Attempts, Ask(a)
      PROVE  PinnedNotOlder'
  BY <1>4 DEF Ask, Past, Holding
<1>5. ASSUME NEW a \in Attempts, TryLock(a)
      PROVE  PinnedNotOlder'
  <2>1. UNCHANGED <<served, reported>>
    BY <1>5 DEF TryLock, requester
  <2>2. CASE sending = Free
    <3>1. hpc' = [hpc EXCEPT ![a] = "locked"] /\ snap' = [snap EXCEPT ![a] = served]
      BY <1>5, <2>2 DEF TryLock, HandlerGoes
    <3>2. \A b \in Attempts : hpc[b] \notin Holding
      BY <2>2, MeshAssumption DEF LockInv
    <3>3. QED  BY <2>1, <3>1, <3>2
  <2>3. CASE sending # Free
    <3>1. hpc' = [hpc EXCEPT ![a] = "no"] /\ UNCHANGED snap
      BY <1>5, <2>3 DEF TryLock, HandlerGoes
    <3>2. QED  BY <2>1, <3>1 DEF Past, Holding
  <2>4. QED  BY <2>2, <2>3
<1>6. ASSUME NEW a \in Attempts, NEW how \in {"no", "over", "failed"},
             hpc[a] \in Holding, Leave(a, how), UNCHANGED <<reported, served>>
      PROVE  PinnedNotOlder'
  BY <1>6 DEF Leave, HandlerGoes, LockInv, Holding
<1>7. ASSUME NEW a \in Attempts, BindRaw(a)
      PROVE  PinnedNotOlder'
  <2>1. CASE Leave(a, "no")
    BY <1>6, <1>7, <2>1 DEF BindRaw, requester, Holding
  <2>2. CASE HandlerGoes(a, "accepting") /\ UNCHANGED snap
    BY <1>7, <2>2 DEF BindRaw, HandlerGoes, requester, Past, Holding
  <2>3. QED  BY <1>7, <2>1, <2>2 DEF BindRaw
<1>8. ASSUME NEW a \in Attempts, Accept(a)
      PROVE  PinnedNotOlder'
  BY <1>8 DEF Accept, HandlerGoes, requester, Past, Holding
<1>9. ASSUME NEW a \in Attempts, Deadline(a) \/ Finish(a) \/ StreamFails(a)
      PROVE  PinnedNotOlder'
  BY <1>6, <1>9 DEF Deadline, Finish, StreamFails, requester, Holding
<1>10. ASSUME NEW a \in Attempts,
              \/ HearReply(a) \/ ReplyTimesOut(a) \/ ConnectRaw(a) \/ ReadPiece(a)
              \/ EndOfStream(a) \/ ReadTimesOut(a) \/ Dies(a) \/ SendPiece(a)
       PROVE  UNCHANGED <<reported, served, hpc, snap>>
  BY <1>10 DEF HearReply, ReplyTimesOut, ConnectRaw, ReadPiece, EndOfStream, ReadTimesOut,
               Dies, SendPiece, sender, requester
<1>11. CASE Refresh
  BY <1>11 DEF Refresh, requester
<1>12. CASE Restart
  BY <1>12 DEF Restart, requester, Working, Holding
<1>13. CASE UNCHANGED vars
  BY <1>2, <1>13 DEF vars, sender, requester
<1>14. QED  BY <1>2, <1>3, <1>4, <1>5, <1>7, <1>8, <1>9, <1>10, <1>11, <1>12, <1>13
            DEF Next, Pull, Handle

LEMMA PinnedNotOlderHolds == Spec => []PinnedNotOlder
<1>1. Init => PinnedNotOlder
  BY DEF Init, PinnedNotOlder, Holding
<1>2. QED  BY <1>1, NextKeepsPinned, MeshTypeOK, LockInvHolds, PTL DEF Spec

-----------------------------------------------------------------------------
(* Who has a raw connection *)

Early == {"idle", "candidate", "waiting", "told"}
Streaming(a) == hpc[a] = "streaming"

\* Nothing was sent on c's connection, and no handler took it.
Untouched(c) ==
  /\ end[c] = "open" /\ got[c] = <<>> /\ wire[c] = <<>>
  /\ \A a \in Attempts : to[a] # c

EarlyUntouched == \A c \in Attempts : rpc[c] \in Early => Untouched(c)
QueuedUntouched ==
  \A k \in DOMAIN backlog : Untouched(backlog[k]) /\ rpc[backlog[k]] \notin Early
QueuedOnce == \A j, k \in DOMAIN backlog : backlog[j] = backlog[k] => j = k
TakenOnce == \A a, b \in Attempts : to[a] = to[b] /\ to[a] # Free => a = b
StreamOpen ==
  \A a \in Attempts :
    IF Streaming(a) THEN to[a] \in Attempts /\ end[to[a]] = "open"
                    ELSE sent[a] = 0

\* A raw connection is in one place: with its requester, in the backlog, or with
\* the one handler that took it; and until then nothing is on it.
OneOwner == EarlyUntouched /\ QueuedUntouched /\ QueuedOnce /\ TakenOnce /\ StreamOpen

\* What is left of the backlog was in it, and the head is not in its tail.
LEMMA QueueTail ==
  ASSUME NEW q \in Seq(Attempts), q # <<>>, \A j, k \in DOMAIN q : q[j] = q[k] => j = k
  PROVE  /\ 1 \in DOMAIN q /\ Head(q) = q[1] /\ Head(q) \in Attempts
         /\ \A k \in DOMAIN Tail(q) :
              /\ k + 1 \in DOMAIN q /\ Tail(q)[k] = q[k + 1] /\ q[k + 1] # Head(q)
  OBVIOUS
\* What is enough, for a step that takes no connection and queues none.
LEMMA OwnerFrame ==
  ASSUME TypeOK, OneOwner, StreamOpen', UNCHANGED <<backlog, to>>,
         \A c \in Attempts : Untouched(c) => Untouched(c)',
         \A c \in Attempts : rpc'[c] \in Early => rpc[c] \in Early
  PROVE  OneOwner'
<1>1. \A k \in DOMAIN backlog : backlog[k] \in Attempts
  BY DEF TypeOK
<1>2. EarlyUntouched'
  BY DEF OneOwner, EarlyUntouched
<1>3. QueuedUntouched'
  BY <1>1 DEF OneOwner, QueuedUntouched
<1>4. QueuedOnce' /\ TakenOnce'
  BY DEF OneOwner, QueuedOnce, TakenOnce
<1>5. QED  BY <1>2, <1>3, <1>4 DEF OneOwner

\* A requester's own step: whatever it did with its connection, no other attempt's
\* is touched, and a connection of which nobody has heard is not read.
LEMMA RequesterKeepsOwner ==
  ASSUME TypeOK, LockInv, OneOwner, NEW a \in Attempts, Query(a) \/ Pull(a) \/ Dies(a)
  PROVE  OneOwner'
<1>1. /\ rpc \in [Attempts -> RequesterPhases] /\ backlog \in Seq(Attempts)
      /\ wire \in [Attempts -> Seq(Piece)] /\ got \in [Attempts -> Seq(Piece)]
      /\ hpc \in [Attempts -> HandlerPhases]
  BY DEF TypeOK
<1>2. CASE Query(a) \/ HearReply(a) \/ ReplyTimesOut(a)
  <2>1. /\ UNCHANGED <<end, got, wire, to, backlog, hpc, sent>>
        /\ rpc[a] \in Early
        /\ \A c \in Attempts : c # a => rpc'[c] = rpc[c]
    BY <1>1, <1>2 DEF Query, HearReply, ReplyTimesOut, RequesterGoes, sender, raw, Early
  <2>2. StreamOpen'
    BY <2>1 DEF OneOwner, StreamOpen, Streaming
  <2>3. \A c \in Attempts : Untouched(c) => Untouched(c)'
    BY <2>1 DEF Untouched
  <2>4. QED  BY <2>1, <2>2, <2>3, OwnerFrame
<1>3. CASE Ask(a)
  <2>1. /\ UNCHANGED <<end, got, wire, to, backlog, sent>>
        /\ rpc[a] \in Early
        /\ \A c \in Attempts : c # a => rpc'[c] = rpc[c] /\ hpc'[c] = hpc[c]
        /\ hpc[a] = "none" /\ hpc'[a] = "asked"
    BY <1>1, <1>3 DEF Ask, RequesterGoes, raw, Early, LockInv
  <2>2. StreamOpen'
    BY <2>1 DEF OneOwner, StreamOpen, Streaming
  <2>3. \A c \in Attempts : Untouched(c) => Untouched(c)'
    BY <2>1 DEF Untouched
  <2>4. QED  BY <2>1, <2>2, <2>3, OwnerFrame
<1>4. CASE ConnectRaw(a)
  <2>1. /\ UNCHANGED <<end, got, wire, to, hpc, sent>>
        /\ rpc[a] = "told" /\ rpc'[a] \in {"refused", "receiving"}
        /\ \A c \in Attempts : c # a => rpc'[c] = rpc[c]
        /\ backlog' = backlog \/ backlog' = Append(backlog, a)
    BY <1>1, <1>4 DEF ConnectRaw, RequesterGoes, raw
  <2>2. Untouched(a) /\ \A k \in DOMAIN backlog : backlog[k] \in Attempts \ {a}
    BY <1>1, <2>1 DEF OneOwner, EarlyUntouched, QueuedUntouched, Early
  <2>3. /\ \A c \in Attempts : Untouched(c) => Untouched(c)'
        /\ \A c \in Attempts : rpc'[c] \in Early => rpc[c] \in Early
    BY <2>1 DEF Untouched, Early
  <2>4. StreamOpen' /\ TakenOnce' /\ EarlyUntouched'
    BY <2>1, <2>3 DEF OneOwner, EarlyUntouched, TakenOnce, StreamOpen, Streaming
  <2>5. CASE backlog' = backlog
    BY <2>1, <2>3, <2>4, <2>5, OwnerFrame
  <2>6. CASE backlog' = Append(backlog, a)
    <3>1. /\ DOMAIN backlog' = 1 .. Len(backlog) + 1 /\ DOMAIN backlog = 1 .. Len(backlog)
          /\ backlog'[Len(backlog) + 1] = a /\ Len(backlog) \in Nat
          /\ \A k \in 1 .. Len(backlog) : backlog'[k] = backlog[k]
      BY <1>1, <2>6
    <3>2. QueuedOnce'
      BY <2>2, <3>1 DEF OneOwner, QueuedOnce
    <3>3. QueuedUntouched'
      <4> SUFFICES ASSUME NEW k \in DOMAIN backlog'
                   PROVE  Untouched(backlog[k])' /\ rpc'[backlog'[k]] \notin Early
        BY DEF QueuedUntouched
      <4>1. CASE k \in 1 .. Len(backlog)
        <5>1. backlog'[k] \in Attempts \ {a} /\ Untouched(backlog'[k]) /\ rpc[backlog'[k]] \notin Early
          BY <2>2, <3>1, <4>1 DEF OneOwner, QueuedUntouched
        <5>2. QED  BY <2>1, <5>1 DEF Untouched
      <4>2. CASE k = Len(backlog) + 1
        BY <2>1, <2>2, <3>1, <4>2 DEF Early, Untouched
      <4>3. QED  BY <3>1, <4>1, <4>2
    <3>4. QED  BY <2>4, <3>2, <3>3 DEF OneOwner
  <2>7. QED  BY <2>1, <2>5, <2>6
<1>5. CASE ReadPiece(a) \/ EndOfStream(a) \/ ReadTimesOut(a) \/ Dies(a)
  <2>1. /\ UNCHANGED <<end, to, backlog, hpc, sent>>
        /\ rpc'[a] \notin Early
        /\ \A c \in Attempts : c # a => /\ rpc'[c] = rpc[c]
                                        /\ got'[c] = got[c] /\ wire'[c] = wire[c]
    BY <1>1, <1>5 DEF ReadPiece, EndOfStream, ReadTimesOut, Dies, RequesterGoes, HangUp, sender,
                      Early, Ended
  <2>2. wire[a] = <<>> /\ got[a] = <<>> => wire'[a] = <<>> /\ got'[a] = <<>>
    BY <1>1, <1>5 DEF ReadPiece, EndOfStream, ReadTimesOut, Dies, HangUp
  <2>3. StreamOpen'
    BY <2>1 DEF OneOwner, StreamOpen, Streaming
  <2>4. \A c \in Attempts : Untouched(c) => Untouched(c)'
    BY <2>1, <2>2 DEF Untouched
  <2>5. \A c \in Attempts : rpc'[c] \in Early => rpc[c] \in Early
    BY <2>1
  <2>6. QED  BY <2>1, <2>3, <2>4, <2>5, OwnerFrame
<1>6. QED  BY <1>2, <1>3, <1>4, <1>5 DEF Pull

\* Accepting takes the head of the backlog, which no handler has, and cuts off the
\* others, or cuts off the head.
LEMMA AcceptKeepsOwner ==
  ASSUME TypeOK, LockInv, OneOwner, NEW a \in Attempts, Accept(a)
  PROVE  OneOwner'
<1> DEFINE c == Head(backlog)
<1>1. /\ backlog \in Seq(Attempts) /\ backlog # <<>>
      /\ to \in [Attempts -> Attempts \cup {Free}] /\ hpc \in [Attempts -> HandlerPhases]
      /\ UNCHANGED <<rpc, got, wire, sent>>
  BY DEF TypeOK, Accept, requester
<1>2. /\ 1 \in DOMAIN backlog /\ c = backlog[1] /\ c \in Attempts
      /\ \A k \in DOMAIN Tail(backlog) :
           /\ k + 1 \in DOMAIN backlog
           /\ Tail(backlog)[k] = backlog[k + 1] /\ backlog[k + 1] # c
  BY <1>1, QueueTail DEF OneOwner, QueuedOnce
<1>3. /\ Untouched(c) /\ rpc[c] \notin Early
      /\ \A d \in Attempts : d \in Queued => Untouched(d) /\ rpc[d] \notin Early
      /\ c \in Queued
  BY <1>2 DEF OneOwner, QueuedUntouched, Queued
<1>4. hpc[a] = "accepting" /\ \A b \in Attempts : Streaming(b) => FALSE
  BY DEF Accept, LockInv, Streaming, Holding
<1>5. sent[a] = 0 /\ \A b \in Attempts : sent[b] = 0
  BY <1>4 DEF OneOwner, StreamOpen, Streaming
<1>6. CASE ip[c] = ip[a]
  <2>1. /\ hpc' = [hpc EXCEPT ![a] = "streaming"] /\ to' = [to EXCEPT ![a] = c]
        /\ backlog' = <<>>
        /\ end' = [d \in Attempts |-> IF d \in Queued \ {c} THEN "cut" ELSE end[d]]
    BY <1>6 DEF Accept, HandlerGoes, Reset
  <2>2. StreamOpen'
    <3>1. to'[a] = c /\ end'[c] = "open" /\ \A b \in Attempts : b # a => ~ Streaming(b)'
      BY <1>1, <1>2, <1>3, <1>4, <2>1 DEF Untouched, Streaming
    <3>2. QED  BY <1>1, <1>2, <1>5, <3>1 DEF StreamOpen
  <2>3. TakenOnce'
    <3>1. \A b \in Attempts : to[b] # c
      BY <1>3 DEF Untouched
    <3>2. \A b \in Attempts : to'[b] = IF b = a THEN c ELSE to[b]
      BY <1>1, <2>1
    <3>3. QED  BY <3>1, <3>2 DEF OneOwner, TakenOnce
  <2>4. EarlyUntouched'
    <3>1. ASSUME NEW d \in Attempts, rpc'[d] \in Early
          PROVE  Untouched(d)'
      <4>1. Untouched(d) /\ d \notin Queued /\ d # c
        BY <1>1, <1>3, <3>1 DEF OneOwner, EarlyUntouched
      <4>2. QED  BY <1>1, <2>1, <4>1 DEF Untouched
    <3>2. QED  BY <3>1 DEF EarlyUntouched
  <2>5. QueuedUntouched' /\ QueuedOnce'
    BY <2>1 DEF QueuedUntouched, QueuedOnce
  <2>6. QED  BY <2>2, <2>3, <2>4, <2>5 DEF OneOwner
<1>7. CASE ip[c] # ip[a]
  <2>1. /\ UNCHANGED <<hpc, to>> /\ backlog' = Tail(backlog)
        /\ end' = [d \in Attempts |-> IF d = c THEN "cut" ELSE end[d]]
    BY <1>7 DEF Accept, Reset
  <2>2. StreamOpen'
    BY <1>1, <1>4, <1>5, <2>1 DEF StreamOpen, Streaming
  <2>3. \A d \in Attempts : d # c /\ Untouched(d) => Untouched(d)'
    BY <1>1, <2>1 DEF Untouched
  <2>4. EarlyUntouched'
    BY <1>1, <1>3, <2>3 DEF OneOwner, EarlyUntouched
  <2>5. QueuedUntouched'
    <3> SUFFICES ASSUME NEW k \in DOMAIN backlog'
                 PROVE  Untouched(backlog[k])' /\ rpc'[backlog'[k]] \notin Early
      BY DEF QueuedUntouched
    <3>1. /\ backlog'[k] \in Attempts /\ backlog'[k] # c
          /\ Untouched(backlog'[k]) /\ rpc[backlog'[k]] \notin Early
      <4>1. k + 1 \in DOMAIN backlog /\ backlog'[k] = backlog[k + 1] /\ backlog[k + 1] # c
        BY <1>2, <2>1
      <4>2. backlog[k + 1] \in Attempts
        BY <1>1, <4>1
      <4>3. QED  BY <4>1, <4>2 DEF OneOwner, QueuedUntouched
    <3>2. Untouched(backlog[k])'
      BY <1>1, <2>1, <3>1 DEF Untouched
    <3>3. QED  BY <1>1, <3>1, <3>2
  <2>6. QueuedOnce'
    <3>1. ASSUME NEW j \in DOMAIN backlog', NEW k \in DOMAIN backlog', backlog'[j] = backlog'[k]
          PROVE  j = k
      <4>1. backlog[j + 1] = backlog[k + 1] /\ {j + 1, k + 1} \subseteq DOMAIN backlog
        BY <1>2, <2>1, <3>1
      <4>2. j \in Nat /\ k \in Nat
        BY <1>1, <2>1
      <4>3. j + 1 = k + 1
        BY <4>1 DEF OneOwner, QueuedOnce
      <4>4. QED  BY <4>2, <4>3
    <3>2. QED  BY <3>1 DEF QueuedOnce
  <2>7. TakenOnce'
    BY <2>1 DEF OneOwner, TakenOnce
  <2>8. QED  BY <2>2, <2>4, <2>5, <2>6, <2>7 DEF OneOwner
<1>8. QED  BY <1>6, <1>7

\* The other steps of the sender touch the connections that have been taken, and
\* when it restarts those in the backlog.
LEMMA SenderKeepsOwner ==
  ASSUME TypeOK, LockInv, OneOwner,
         (\E a \in Attempts : Handle(a)) \/ Refresh \/ Restart \/ UNCHANGED vars
  PROVE  OneOwner'
<1>1. /\ hpc \in [Attempts -> HandlerPhases] /\ sent \in [Attempts -> 0 .. FileLen]
      /\ wire \in [Attempts -> Seq(Piece)] /\ to \in [Attempts -> Attempts \cup {Free}]
      /\ end \in [Attempts -> {"open", "trailer", "cut"}]
  BY DEF TypeOK
<1>2. ASSUME UNCHANGED <<rpc, backlog, to, end, got, wire>>, StreamOpen'
      PROVE  OneOwner'
  BY <1>2, OwnerFrame DEF Untouched
<1>3. ASSUME NEW a \in Attempts, TryLock(a) \/ BindRaw(a) \/ Deadline(a)
      PROVE  OneOwner'
  <2>1. /\ UNCHANGED <<rpc, backlog, to, end, got, wire>>
        /\ \A b \in Attempts : b # a => hpc'[b] = hpc[b] /\ sent'[b] = sent[b]
        /\ hpc[a] # "streaming" /\ hpc'[a] # "streaming" /\ sent'[a] \in {0, sent[a]}
    BY <1>1, <1>3 DEF TryLock, BindRaw, Deadline, HandlerGoes, Leave, requester, raw
  <2>2. StreamOpen'
    BY <2>1 DEF OneOwner, StreamOpen, Streaming
  <2>3. QED  BY <1>2, <2>1, <2>2
<1>4. ASSUME NEW a \in Attempts, SendPiece(a)
      PROVE  OneOwner'
  <2>1. /\ UNCHANGED <<rpc, backlog, to, end, got, hpc>>
        /\ Streaming(a) /\ \A c \in Attempts : c # to[a] => wire'[c] = wire[c]
        /\ \A b \in Attempts : b # a => sent'[b] = sent[b]
    BY <1>1, <1>4 DEF SendPiece, Streaming, requester
  <2>2. StreamOpen'
    BY <2>1 DEF OneOwner, StreamOpen, Streaming
  <2>3. \A c \in Attempts : Untouched(c) => Untouched(c)'
    BY <2>1 DEF Untouched
  <2>4. QED  BY <2>1, <2>2, <2>3, OwnerFrame
<1>5. ASSUME NEW a \in Attempts, Finish(a) \/ StreamFails(a)
      PROVE  OneOwner'
  <2>1. /\ UNCHANGED <<rpc, backlog, to, got, wire>>
        /\ Streaming(a) /\ \A c \in Attempts : c # to[a] => end'[c] = end[c]
        /\ \A b \in Attempts : b # a => hpc'[b] = hpc[b] /\ sent'[b] = sent[b]
        /\ hpc'[a] # "streaming" /\ sent'[a] = 0
    BY <1>1, <1>5 DEF Finish, StreamFails, HandlerGoes, Leave, Streaming, requester
  <2>2. \A b \in Attempts : ~ Streaming(b)'
    BY <2>1 DEF LockInv, Streaming, Holding
  <2>3. \A b \in Attempts : sent'[b] = 0
    BY <2>1, <2>2 DEF OneOwner, StreamOpen, Streaming
  <2>4. StreamOpen'
    BY <2>2, <2>3 DEF StreamOpen
  <2>5. \A c \in Attempts : Untouched(c) => Untouched(c)'
    BY <2>1 DEF Untouched
  <2>6. QED  BY <2>1, <2>4, <2>5, OwnerFrame
<1>6. CASE Restart
  <2>1. /\ UNCHANGED <<rpc, to, got, wire>> /\ backlog' = <<>>
        /\ \A b \in Attempts : hpc'[b] # "streaming" /\ sent'[b] = 0
        /\ \A d \in Attempts : \/ end'[d] = end[d]
                               \/ d \in Queued
                               \/ \E b \in Attempts : to[b] = d
    BY <1>1, <1>6 DEF Restart, Reset, requester, Working
  <2>2. StreamOpen'
    BY <2>1 DEF StreamOpen, Streaming
  <2>3. EarlyUntouched'
    <3>1. ASSUME NEW d \in Attempts, rpc'[d] \in Early
          PROVE  Untouched(d)'
      <4>1. Untouched(d) /\ d \notin Queued
        BY <2>1, <3>1 DEF OneOwner, EarlyUntouched, QueuedUntouched, Queued
      <4>2. QED  BY <2>1, <4>1 DEF Untouched
    <3>2. QED  BY <3>1 DEF EarlyUntouched
  <2>4. QueuedUntouched' /\ QueuedOnce' /\ TakenOnce'
    BY <2>1 DEF OneOwner, QueuedUntouched, QueuedOnce, TakenOnce
  <2>5. QED  BY <2>2, <2>3, <2>4 DEF OneOwner
<1>7. CASE Refresh \/ UNCHANGED vars
  <2>1. UNCHANGED <<rpc, backlog, to, end, got, wire, hpc, sent>>
    BY <1>7 DEF Refresh, vars, sender, requester, raw
  <2>2. StreamOpen'
    BY <2>1 DEF OneOwner, StreamOpen, Streaming
  <2>3. QED  BY <1>2, <2>1, <2>2
<1>8. QED  BY <1>3, <1>4, <1>5, <1>6, <1>7, AcceptKeepsOwner DEF Handle

LEMMA OneOwnerHolds == Spec => []OneOwner
<1>1. Init => OneOwner
  <2> SUFFICES ASSUME Init PROVE OneOwner
    OBVIOUS
  <2>1. \A c \in Attempts : /\ end[c] = "open" /\ got[c] = <<>> /\ wire[c] = <<>>
                            /\ to[c] = Free /\ hpc[c] = "none" /\ sent[c] = 0
    BY DEF Init
  <2>2. backlog = <<>>
    BY DEF Init
  <2>3. \A c \in Attempts : Untouched(c)
    BY <2>1, MeshAssumption DEF Untouched
  <2>4. QED  BY <2>1, <2>2, <2>3
             DEF OneOwner, EarlyUntouched, QueuedUntouched, QueuedOnce, TakenOnce, StreamOpen, Streaming
<1>2. ASSUME TypeOK, LockInv, OneOwner, [Next]_vars PROVE OneOwner'
  <2>1. CASE \E a \in Attempts : Query(a) \/ Pull(a) \/ Dies(a)
    BY <1>2, <2>1, RequesterKeepsOwner
  <2>2. CASE (\E a \in Attempts : Handle(a)) \/ Refresh \/ Restart \/ UNCHANGED vars
    BY <1>2, <2>2, SenderKeepsOwner
  <2>3. QED  BY <1>2, <2>1, <2>2 DEF Next
<1>3. QED  BY <1>1, <1>2, MeshTypeOK, LockInvHolds, PTL DEF Spec

-----------------------------------------------------------------------------
(* What a stream is made of *)

\* s is the beginning of snapshot v's file.
Begins(s, v) ==
  /\ Len(s) <= FileLen
  /\ \A k \in 1 .. Len(s) : s[k] = <<v, k>>

LEMMA BeginsEmpty == ASSUME NEW v PROVE Begins(<<>>, v) /\ Len(<<>>) = 0
BY MeshAssumption DEF Begins

LEMMA BeginsMore ==
  ASSUME NEW s \in Seq(Piece), NEW v, Begins(s, v), Len(s) < FileLen, NEW x, x \in Piece,
         x = <<v, Len(s) + 1>>
  PROVE  /\ Begins(Append(s, x), v)
         /\ Len(Append(s, x)) = Len(s) + 1
<1>1. /\ Len(Append(s, x)) = Len(s) + 1 /\ Len(s) \in Nat
      /\ \A k \in 1 .. Len(s) : Append(s, x)[k] = s[k]
      /\ Append(s, x)[Len(s) + 1] = x
  OBVIOUS
<1>2. ASSUME NEW k \in 1 .. Len(s) + 1
      PROVE  Append(s, x)[k] = <<v, k>>
  <2>1. CASE k \in 1 .. Len(s)
    BY <1>1, <2>1 DEF Begins
  <2>2. CASE k = Len(s) + 1
    BY <1>1, <2>2
  <2>3. QED  BY <1>1, <2>1, <2>2
<1>3. QED  BY <1>1, <1>2, MeshAssumption DEF Begins

\* All that has reached attempt c, read or not.
Stream(c) == got[c] \o wire[c]

\* Reading a piece takes it from the wire to the file ...
LEMMA ReadKeepsStream ==
  ASSUME NEW g \in Seq(Piece), NEW w \in Seq(Piece), w # <<>>
  PROVE  Append(g, Head(w)) \o Tail(w) = g \o w
<1> DEFINE l == Append(g, Head(w)) \o Tail(w)
           r == g \o w
<1>1. /\ Head(w) \in Piece /\ Tail(w) \in Seq(Piece) /\ Len(Tail(w)) = Len(w) - 1
      /\ \A k \in 1 .. Len(Tail(w)) : Tail(w)[k] = w[k + 1]
      /\ Head(w) = w[1] /\ Len(w) \in Nat /\ Len(w) > 0 /\ Len(g) \in Nat
  BY HeadTailProperties
<1>2. /\ Append(g, Head(w)) \in Seq(Piece) /\ Len(Append(g, Head(w))) = Len(g) + 1
      /\ \A k \in 1 .. Len(g) : Append(g, Head(w))[k] = g[k]
      /\ Append(g, Head(w))[Len(g) + 1] = Head(w)
  BY <1>1
<1>3. /\ r \in Seq(Piece) /\ Len(r) = Len(g) + Len(w)
      /\ \A k \in 1 .. Len(g) + Len(w) : r[k] = IF k <= Len(g) THEN g[k] ELSE w[k - Len(g)]
  BY ConcatProperties
<1>4. /\ l \in Seq(Piece) /\ Len(l) = Len(g) + Len(w)
      /\ \A k \in 1 .. Len(g) + Len(w) :
           l[k] = IF k <= Len(g) + 1 THEN Append(g, Head(w))[k] ELSE Tail(w)[k - (Len(g) + 1)]
  <2>1. Len(Append(g, Head(w))) + Len(Tail(w)) = Len(g) + Len(w)
    BY <1>1, <1>2
  <2>2. /\ l \in Seq(Piece) /\ Len(l) = Len(Append(g, Head(w))) + Len(Tail(w))
        /\ \A k \in 1 .. Len(Append(g, Head(w))) + Len(Tail(w)) :
             l[k] = IF k <= Len(Append(g, Head(w))) THEN Append(g, Head(w))[k]
                    ELSE Tail(w)[k - Len(Append(g, Head(w)))]
    BY <1>1, <1>2, ConcatProperties
  <2> HIDE DEF l
  <2>3. QED  BY <1>2, <2>1, <2>2
<1> HIDE DEF l, r
<1>5. ASSUME NEW k \in 1 .. Len(g) + Len(w)
      PROVE  l[k] = r[k]
  <2>1. CASE k <= Len(g)
    <3>1. k \in 1 .. Len(g) /\ k <= Len(g) + 1
      BY <1>1, <2>1
    <3>2. r[k] = g[k]
      BY <1>3, <2>1
    <3>3. l[k] = Append(g, Head(w))[k]
      BY <1>4, <3>1
    <3>4. QED  BY <1>2, <3>1, <3>2, <3>3
  <2>2. CASE k = Len(g) + 1
    BY <1>1, <1>2, <1>3, <1>4, <2>2
  <2>3. CASE k > Len(g) + 1
    <3>1. k - (Len(g) + 1) \in 1 .. Len(Tail(w)) /\ k - (Len(g) + 1) + 1 = k - Len(g)
      BY <1>1, <2>3
    <3>2. l[k] = Tail(w)[k - (Len(g) + 1)] /\ r[k] = w[k - Len(g)]
      BY <1>1, <1>3, <1>4, <2>3
    <3>3. QED  BY <1>1, <3>1, <3>2
  <2>4. QED  BY <1>1, <2>1, <2>2, <2>3
<1>6. l = r
  BY <1>3, <1>4, <1>5, SeqEqual
<1>7. QED  BY <1>6 DEF l, r

\* ... and sending one adds it at the end.
LEMMA SendGrowsStream ==
  ASSUME NEW g \in Seq(Piece), NEW w \in Seq(Piece), NEW x \in Piece
  PROVE  g \o Append(w, x) = Append(g \o w, x)
<1>1. Append(w, x) = w \o <<x>> /\ <<x>> \in Seq(Piece) /\ g \o w \in Seq(Piece)
  BY AppendIsConcat, ConcatProperties
<1>2. g \o (w \o <<x>>) = (g \o w) \o <<x>>
  BY <1>1, ConcatAssociative
<1>3. (g \o w) \o <<x>> = Append(g \o w, x)
  BY <1>1, AppendIsConcat
<1>4. QED  BY <1>1, <1>2, <1>3

Taking == {"receiving", "installed"}

\* What a requester has and will get is cut from one snapshot no older than the
\* one it was told of, ...
OneSource ==
  \A c \in Attempts : rpc[c] \in Taking =>
    \E v \in reported[c] .. MaxVersion : Begins(Stream(c), v)

\* ... which is the one its handler has pinned, up to where that handler stands; ...
FromPinned ==
  \A a \in Attempts : Streaming(a) /\ rpc[to[a]] = "receiving" =>
    Begins(Stream(to[a]), snap[a]) /\ Len(Stream(to[a])) = sent[a]

\* ... a trailer comes at the end of the file, or from a handler that failed; ...
TrailerAtEnd ==
  \A c \in Attempts : rpc[c] \in Taking /\ end[c] = "trailer" =>
    \/ Len(Stream(c)) = FileLen
    \/ \E b \in Attempts : to[b] = c /\ hpc[b] = "failed"

\* ... and nothing is installed before the trailer was read.
InstalledAtTrailer ==
  \A c \in Attempts : rpc[c] = "installed" => wire[c] = <<>> /\ end[c] = "trailer"

StreamInv == OneSource /\ FromPinned /\ TrailerAtEnd /\ InstalledAtTrailer

\* A handler that has failed stays as it is, and so does what it streamed to.
LEMMA FailedStays ==
  ASSUME TypeOK, LockInv, [Next]_vars, NEW b \in Attempts, hpc[b] = "failed"
  PROVE  hpc'[b] = "failed" /\ to'[b] = to[b]
<1>1. /\ hpc \in [Attempts -> HandlerPhases] /\ to \in [Attempts -> Attempts \cup {Free}]
      /\ \A a \in Attempts : rpc[a] = "candidate" => hpc[a] = "none"
  BY DEF TypeOK, LockInv
<1>2. ASSUME NEW a \in Attempts, Query(a) \/ Pull(a) \/ Dies(a)
      PROVE  hpc'[b] = "failed" /\ to'[b] = to[b]
  BY <1>1, <1>2 DEF Query, Pull, Ask, HearReply, ReplyTimesOut, ConnectRaw, ReadPiece, EndOfStream,
                    ReadTimesOut, Dies, sender
<1>3. ASSUME NEW a \in Attempts, TryLock(a) \/ BindRaw(a) \/ Accept(a) \/ Deadline(a)
      PROVE  hpc'[b] = "failed" /\ to'[b] = to[b]
  BY <1>1, <1>3 DEF TryLock, BindRaw, Accept, Deadline, HandlerGoes, Leave
<1>4. ASSUME NEW a \in Attempts, SendPiece(a) \/ Finish(a) \/ StreamFails(a)
      PROVE  hpc'[b] = "failed" /\ to'[b] = to[b]
  BY <1>1, <1>4 DEF SendPiece, Finish, StreamFails, HandlerGoes, Leave
<1>5. CASE Refresh \/ Restart \/ UNCHANGED vars
  BY <1>5 DEF Refresh, Restart, vars, sender, Working
<1>6. QED  BY <1>2, <1>3, <1>4, <1>5 DEF Next, Handle

\* What is enough, for a step that streams nothing and finishes no stream.
Kept(c) ==
  /\ rpc'[c] = rpc[c] /\ got'[c] = got[c] /\ wire'[c] = wire[c] /\ reported'[c] = reported[c]
  /\ end'[c] = end[c] \/ (end'[c] = "cut" /\ rpc[c] # "installed")

StreamKept(a) ==
  hpc'[a] = hpc[a] /\ to'[a] = to[a] /\ snap'[a] = snap[a] /\ sent'[a] = sent[a]

LEMMA StreamFrame ==
  ASSUME TypeOK, LockInv, OneOwner, StreamInv, [Next]_vars,
         \A c \in Attempts : rpc'[c] \in Taking => Kept(c),
         \A a \in Attempts : Streaming(a)' => StreamKept(a)
  PROVE  StreamInv'
<1>1. \A c \in Attempts : rpc'[c] \in Taking =>
        rpc[c] = rpc'[c] /\ Stream(c)' = Stream(c) /\ reported'[c] = reported[c]
  BY DEF Kept, Stream
<1>2. OneSource'
  <2>1. ASSUME NEW c \in Attempts, rpc'[c] \in Taking
        PROVE  \E v \in reported'[c] .. MaxVersion : Begins(Stream(c)', v)
    BY <1>1, <2>1 DEF StreamInv, OneSource
  <2>2. QED  BY <2>1 DEF OneSource
<1>3. FromPinned'
  <2>1. ASSUME NEW a \in Attempts, Streaming(a)', rpc'[to'[a]] = "receiving"
        PROVE  Begins(Stream(to[a])', snap'[a]) /\ Len(Stream(to[a])') = sent'[a]
    <3>1. Streaming(a) /\ to'[a] = to[a] /\ snap'[a] = snap[a] /\ sent'[a] = sent[a]
      BY <2>1 DEF StreamKept, Streaming
    <3>2. to[a] \in Attempts
      BY <3>1 DEF OneOwner, StreamOpen
    <3>3. rpc[to[a]] = "receiving" /\ Stream(to[a])' = Stream(to[a])
      BY <1>1, <2>1, <3>1, <3>2 DEF Taking, Stream
    <3>4. QED  BY <3>1, <3>2, <3>3 DEF StreamInv, FromPinned
  <2>2. QED  BY <2>1 DEF FromPinned
<1>4. TrailerAtEnd'
  <2>1. ASSUME NEW c \in Attempts, rpc'[c] \in Taking, end'[c] = "trailer"
        PROVE  Len(Stream(c)') = FileLen \/ \E b \in Attempts : to'[b] = c /\ hpc'[b] = "failed"
    <3>1. rpc[c] \in Taking /\ end[c] = "trailer"
      BY <1>1, <2>1 DEF Kept
    <3>2. Len(Stream(c)) = FileLen \/ \E b \in Attempts : to[b] = c /\ hpc[b] = "failed"
      BY <3>1 DEF StreamInv, TrailerAtEnd
    <3>3. QED  BY <1>1, <2>1, <3>2, FailedStays
  <2>2. QED  BY <2>1 DEF TrailerAtEnd
<1>5. InstalledAtTrailer'
  BY DEF Kept, Taking, StreamInv, InstalledAtTrailer
<1>6. QED  BY <1>2, <1>3, <1>4, <1>5 DEF StreamInv

StreamFacts ==
  TypeOK /\ LockInv /\ OkIsHonest /\ PinnedNotOlder /\ OneOwner /\ StreamInv

\* The steps that neither begin, move nor end a stream.
LEMMA RequesterFrame ==
  ASSUME StreamFacts, [Next]_vars, NEW a \in Attempts,
         \/ Query(a) \/ Ask(a) \/ HearReply(a) \/ ReplyTimesOut(a)
         \/ EndOfStream(a) /\ end[a] # "trailer"
         \/ ReadTimesOut(a) \/ Dies(a)
  PROVE  StreamInv'
<1>1. /\ rpc \in [Attempts -> RequesterPhases] /\ reported \in [Attempts -> 0 .. MaxVersion]
      /\ got \in [Attempts -> Seq(Piece)] /\ wire \in [Attempts -> Seq(Piece)]
      /\ hpc \in [Attempts -> HandlerPhases]
  BY DEF StreamFacts, TypeOK
<1>2. rpc'[a] \notin Taking /\ \A c \in Attempts : c # a => Kept(c)
  BY <1>1 DEF Query, Ask, HearReply, ReplyTimesOut, EndOfStream, ReadTimesOut, Dies,
              RequesterGoes, HangUp, raw, Taking, Kept
<1>3. \A b \in Attempts : Streaming(b)' => StreamKept(b)
  BY <1>1 DEF Query, Ask, HearReply, ReplyTimesOut, EndOfStream, ReadTimesOut, Dies,
              sender, Streaming, StreamKept
<1>4. QED  BY <1>2, <1>3, StreamFrame DEF StreamFacts

LEMMA SenderFrame ==
  ASSUME StreamFacts, [Next]_vars,
         \/ \E a \in Attempts : TryLock(a) \/ BindRaw(a) \/ Deadline(a)
         \/ Refresh \/ Restart \/ UNCHANGED vars
  PROVE  StreamInv'
<1>1. /\ hpc \in [Attempts -> HandlerPhases]
      /\ snap \in [Attempts -> 0 .. MaxVersion] /\ sent \in [Attempts -> 0 .. FileLen]
  BY DEF StreamFacts, TypeOK
<1>2. ASSUME NEW a \in Attempts, TryLock(a) \/ BindRaw(a) \/ Deadline(a)
      PROVE  StreamInv'
  <2>1. UNCHANGED <<rpc, got, wire, reported, end, to>>
    BY <1>2 DEF TryLock, BindRaw, Deadline, requester, raw
  <2>2. /\ hpc'[a] # "streaming"
        /\ \A b \in Attempts : b # a => hpc'[b] = hpc[b] /\ snap'[b] = snap[b] /\ sent'[b] = sent[b]
    BY <1>1, <1>2 DEF TryLock, BindRaw, Deadline, HandlerGoes, Leave
  <2>3. QED  BY <2>1, <2>2, StreamFrame DEF StreamFacts, Kept, StreamKept, Streaming
<1>3. CASE Restart
  <2>1. /\ UNCHANGED <<rpc, got, wire, reported>>
        /\ \A b \in Attempts : hpc'[b] # "streaming"
    BY <1>1, <1>3 DEF Restart, requester, Working
  <2>2. ASSUME NEW c \in Attempts
        PROVE  end'[c] = end[c] \/ (end'[c] = "cut" /\ rpc[c] # "installed")
    <3>1. CASE end'[c] = end[c]
      BY <3>1
    <3>2. CASE end'[c] # end[c]
      <4>1. end'[c] = "cut" /\ (c \in Queued \/ \E b \in Attempts : Streaming(b) /\ to[b] = c)
        BY <1>3, <3>2 DEF Restart, Reset, Streaming
      <4>2. end[c] = "open"
        BY <4>1 DEF StreamFacts, OneOwner, QueuedUntouched, Untouched, StreamOpen, Queued
      <4>3. QED  BY <4>1, <4>2 DEF StreamFacts, StreamInv, InstalledAtTrailer
    <3>3. QED  BY <3>1, <3>2
  <2>3. QED  BY <2>1, <2>2, StreamFrame DEF StreamFacts, Kept, Streaming
<1>4. CASE Refresh \/ UNCHANGED vars
  <2>1. UNCHANGED <<rpc, got, wire, reported, end, to, hpc, snap, sent>>
    BY <1>4 DEF Refresh, vars, sender, requester, raw
  <2>2. QED  BY <2>1, StreamFrame DEF StreamFacts, Kept, StreamKept, Streaming
<1>5. QED  BY <1>2, <1>3, <1>4

\* A connection that begins to be read has nothing on it.
LEMMA ConnectKeepsStream ==
  ASSUME StreamFacts, [Next]_vars, NEW a \in Attempts, ConnectRaw(a)
  PROVE  StreamInv'
<1>1. /\ rpc \in [Attempts -> RequesterPhases] /\ reported \in [Attempts -> 0 .. MaxVersion]
      /\ UNCHANGED <<reported, got, wire, end, hpc, to, snap, sent>>
      /\ rpc[a] = "told" /\ \A c \in Attempts : c # a => rpc'[c] = rpc[c]
      /\ rpc'[a] \in {"refused", "receiving"}
  BY DEF StreamFacts, TypeOK, ConnectRaw, RequesterGoes, raw
<1>2. Untouched(a) /\ Stream(a) = <<>>
  BY <1>1 DEF StreamFacts, OneOwner, EarlyUntouched, Early, Untouched, Stream
<1>3. \A c \in Attempts : Stream(c)' = Stream(c)
  BY <1>1 DEF Stream
<1>4. OneSource'
  <2>1. Begins(Stream(a)', reported[a]) /\ reported[a] \in reported'[a] .. MaxVersion
    BY <1>1, <1>2, <1>3, BeginsEmpty, MeshAssumption
  <2>2. QED  BY <1>1, <1>3, <2>1 DEF StreamFacts, StreamInv, OneSource
<1>5. FromPinned'
  <2>1. \A b \in Attempts : Streaming(b)' => Streaming(b) /\ to[b] \in Attempts /\ to[b] # a
    BY <1>1, <1>2 DEF StreamFacts, OneOwner, StreamOpen, Streaming, Untouched
  <2>2. QED  BY <1>1, <1>3, <2>1 DEF StreamFacts, StreamInv, FromPinned, Stream
<1>6. TrailerAtEnd'
  BY <1>1, <1>2, <1>3 DEF StreamFacts, StreamInv, TrailerAtEnd, Untouched
<1>7. InstalledAtTrailer'
  BY <1>1 DEF StreamFacts, StreamInv, InstalledAtTrailer
<1>8. QED  BY <1>4, <1>5, <1>6, <1>7 DEF StreamInv

\* A stream begins with a handler at the first piece of its snapshot.
LEMMA AcceptKeepsStream ==
  ASSUME StreamFacts, [Next]_vars, NEW a \in Attempts, Accept(a)
  PROVE  StreamInv'
<1> DEFINE c == Head(backlog)
<1>1. /\ backlog \in Seq(Attempts) /\ backlog # <<>> /\ hpc \in [Attempts -> HandlerPhases]
      /\ to \in [Attempts -> Attempts \cup {Free}]
      /\ UNCHANGED <<rpc, reported, got, wire, snap, sent>>
  BY DEF StreamFacts, TypeOK, Accept, requester
<1>2. c \in Attempts /\ c \in Queued /\ \A d \in Attempts : d \in Queued => Untouched(d)
  <2>1. 1 \in DOMAIN backlog /\ c = backlog[1] /\ c \in Attempts
    BY <1>1
  <2>2. \A d \in Attempts : d \in Queued => Untouched(d)
    BY DEF StreamFacts, OneOwner, QueuedUntouched, Queued
  <2>3. backlog[1] \in Queued
    BY <2>1 DEF Queued
  <2>4. QED  BY <2>1, <2>2, <2>3
<1>3. \A b \in Attempts : ~ Streaming(b) /\ sent[b] = 0
  BY DEF Accept, StreamFacts, LockInv, OneOwner, StreamOpen, Streaming, Holding
<1>4. \A d \in Attempts : end'[d] = end[d] \/ (end'[d] = "cut" /\ d \in Queued)
  <2>1. CASE ip[c] = ip[a]
    <3>1. end' = [d \in Attempts |-> IF d \in Queued \ {c} THEN "cut" ELSE end[d]]
      BY <2>1 DEF Accept, Reset
    <3>2. QED  BY <3>1
  <2>2. CASE ip[c] # ip[a]
    <3>1. end' = [d \in Attempts |-> IF d \in {c} THEN "cut" ELSE end[d]]
      BY <2>2 DEF Accept, Reset
    <3>2. QED  BY <1>2, <3>1
  <2>3. QED  BY <2>1, <2>2
<1>5. \A d \in Attempts : Stream(d)' = Stream(d)
  BY <1>1 DEF Stream
<1>6. OneSource'
  BY <1>1, <1>5 DEF StreamFacts, StreamInv, OneSource
<1>7. FromPinned'
  <2>1. ASSUME NEW b \in Attempts, Streaming(b)'
        PROVE  Stream(to[b])' = <<>> /\ sent'[b] = 0
    <3>1. b = a /\ to'[b] = c
      <4>1. hpc'[b] # hpc[b]
        BY <1>3, <2>1 DEF Streaming
      <4>2. ip[c] = ip[a]
        BY <4>1 DEF Accept
      <4>3. hpc' = [hpc EXCEPT ![a] = "streaming"] /\ to' = [to EXCEPT ![a] = c]
        BY <4>2 DEF Accept, HandlerGoes
      <4>4. QED  BY <1>1, <4>1, <4>3
    <3>2. got[c] = <<>> /\ wire[c] = <<>>
      BY <1>2 DEF Untouched
    <3>3. Stream(to[b])' = <<>>
      BY <1>1, <3>1, <3>2 DEF Stream
    <3>4. QED  BY <1>1, <1>3, <3>3
  <2>2. QED  BY <2>1, BeginsEmpty DEF FromPinned
<1>8. TrailerAtEnd'
  <2>1. ASSUME NEW d \in Attempts, rpc'[d] \in Taking, end'[d] = "trailer"
        PROVE  Len(Stream(d)') = FileLen \/ \E b \in Attempts : to'[b] = d /\ hpc'[b] = "failed"
    <3>1. Len(Stream(d)) = FileLen \/ \E b \in Attempts : to[b] = d /\ hpc[b] = "failed"
      BY <1>1, <1>4, <2>1 DEF StreamFacts, StreamInv, TrailerAtEnd
    <3>2. QED  BY <1>5, <3>1, FailedStays DEF StreamFacts
  <2>2. QED  BY <2>1 DEF TrailerAtEnd
<1>9. InstalledAtTrailer'
  BY <1>1, <1>2, <1>4 DEF StreamFacts, StreamInv, InstalledAtTrailer, Untouched
<1>10. QED  BY <1>6, <1>7, <1>8, <1>9 DEF StreamInv

\* A piece that is read only moves; at the trailer nothing is left to move.
LEMMA ReadKeepsInv ==
  ASSUME StreamFacts, [Next]_vars, NEW a \in Attempts,
         ReadPiece(a) \/ (EndOfStream(a) /\ end[a] = "trailer")
  PROVE  StreamInv'
<1>1. /\ rpc \in [Attempts -> RequesterPhases]
      /\ got \in [Attempts -> Seq(Piece)] /\ wire \in [Attempts -> Seq(Piece)]
      /\ UNCHANGED <<reported, end, hpc, to, snap, sent>>
  BY DEF StreamFacts, TypeOK, ReadPiece, EndOfStream, sender
<1>2. \A c \in Attempts : Stream(c)' = Stream(c)
  <2>1. CASE ReadPiece(a)
    <3>1. \A c \in Attempts : c # a => got'[c] = got[c] /\ wire'[c] = wire[c]
      BY <1>1, <2>1 DEF ReadPiece
    <3>2. /\ got'[a] = Append(got[a], Head(wire[a])) /\ wire'[a] = Tail(wire[a])
          /\ wire[a] # <<>> /\ got[a] \in Seq(Piece) /\ wire[a] \in Seq(Piece)
      BY <1>1, <2>1 DEF ReadPiece
    <3>3. got'[a] \o wire'[a] = got[a] \o wire[a]
      BY <3>2, ReadKeepsStream
    <3>4. QED  BY <3>1, <3>3 DEF Stream
  <2>2. CASE EndOfStream(a) /\ end[a] = "trailer"
    BY <2>2 DEF EndOfStream, Stream
  <2>3. QED  BY <2>1, <2>2
<1>3. /\ rpc[a] = "receiving"
      /\ \A c \in Attempts : c # a => rpc'[c] = rpc[c] /\ wire'[c] = wire[c]
      /\ rpc'[a] \in Taking
      /\ rpc'[a] = "installed" => wire'[a] = <<>> /\ end[a] = "trailer"
      /\ rpc'[a] = "receiving" \/ end[a] = "trailer"
  BY <1>1 DEF ReadPiece, EndOfStream, RequesterGoes, Taking
<1>4. \A c \in Attempts : rpc'[c] \in Taking => rpc[c] \in Taking
  BY <1>3 DEF Taking
<1>5. OneSource'
  BY <1>1, <1>2, <1>4 DEF StreamFacts, StreamInv, OneSource
<1>6. FromPinned'
  <2>1. ASSUME NEW b \in Attempts, Streaming(b)', rpc'[to'[b]] = "receiving"
        PROVE  Begins(Stream(to[b])', snap'[b]) /\ Len(Stream(to[b])') = sent'[b]
    <3>1. Streaming(b) /\ to[b] \in Attempts
      BY <1>1, <2>1 DEF StreamFacts, OneOwner, StreamOpen, Streaming
    <3>2. rpc[to[b]] = "receiving"
      BY <1>1, <1>3, <2>1, <3>1
    <3>3. Stream(to[b])' = Stream(to[b])
      BY <1>1, <1>2, <3>1 DEF Stream
    <3>4. QED  BY <1>1, <3>1, <3>2, <3>3 DEF StreamFacts, StreamInv, FromPinned
  <2>2. QED  BY <2>1 DEF FromPinned
<1>7. TrailerAtEnd'
  BY <1>1, <1>2, <1>4 DEF StreamFacts, StreamInv, TrailerAtEnd
<1>8. InstalledAtTrailer'
  BY <1>1, <1>3 DEF StreamFacts, StreamInv, InstalledAtTrailer
<1>9. QED  BY <1>5, <1>6, <1>7, <1>8 DEF StreamInv

\* The next piece of the pinned file goes where the last one went; that snapshot
\* is no older than what the receiver was told of.
LEMMA SendKeepsStream ==
  ASSUME StreamFacts, [Next]_vars, NEW a \in Attempts, SendPiece(a)
  PROVE  StreamInv'
<1> DEFINE c == to[a]
           x == <<snap[a], sent[a] + 1>>
<1>1. /\ wire \in [Attempts -> Seq(Piece)] /\ got \in [Attempts -> Seq(Piece)]
      /\ sent \in [Attempts -> 0 .. FileLen] /\ snap \in [Attempts -> 0 .. MaxVersion]
      /\ reported \in [Attempts -> 0 .. MaxVersion]
      /\ UNCHANGED <<rpc, reported, got, end, hpc, to, snap>>
  BY DEF StreamFacts, TypeOK, SendPiece, requester
<1>2. /\ Streaming(a) /\ rpc[c] = "receiving" /\ sent[a] < FileLen
      /\ c \in Attempts /\ end[c] = "open"
  BY DEF SendPiece, Reading, Streaming, StreamFacts, OneOwner, StreamOpen
<1>3. \A b \in Attempts : Streaming(b) => b = a
  BY <1>2 DEF StreamFacts, LockInv, Streaming, Holding
<1>4. /\ wire'[c] = Append(wire[c], x) /\ sent'[a] = sent[a] + 1
      /\ \A d \in Attempts : d # c => wire'[d] = wire[d]
  BY <1>1, <1>2 DEF SendPiece
<1>5. x \in Piece
  <2>1. snap[a] \in 0 .. MaxVersion /\ sent[a] \in 0 .. FileLen /\ FileLen \in Nat
    BY <1>1, MeshAssumption
  <2>2. sent[a] + 1 \in 1 .. FileLen
    BY <1>2, <2>1
  <2>3. QED  BY <2>1, <2>2 DEF Piece
<1>6. /\ Stream(c) \in Seq(Piece) /\ Begins(Stream(c), snap[a]) /\ Len(Stream(c)) = sent[a]
  <2>1. Stream(c) \in Seq(Piece)
    BY <1>1, <1>2, ConcatProperties DEF Stream
  <2>2. QED  BY <1>2, <2>1 DEF StreamFacts, StreamInv, FromPinned
<1>7. got'[c] \o wire'[c] = Append(Stream(c), x)
  <2>1. got[c] \in Seq(Piece) /\ wire[c] \in Seq(Piece)
    BY <1>1, <1>2
  <2>2. got[c] \o Append(wire[c], x) = Append(got[c] \o wire[c], x)
    BY <1>5, <2>1, SendGrowsStream
  <2>3. QED  BY <1>1, <1>4, <2>2 DEF Stream
<1>8. Begins(got'[c] \o wire'[c], snap[a]) /\ Len(got'[c] \o wire'[c]) = sent'[a]
  <2>1. Len(Stream(c)) < FileLen /\ x = <<snap[a], Len(Stream(c)) + 1>>
    BY <1>2, <1>6
  <2>2. Begins(Append(Stream(c), x), snap[a]) /\ Len(Append(Stream(c), x)) = Len(Stream(c)) + 1
    BY <1>5, <1>6, <2>1, BeginsMore
  <2>3. QED  BY <1>4, <1>6, <1>7, <2>2
<1>9. reported[c] <= snap[a]
  BY <1>2 DEF StreamFacts, PinnedNotOlder, OkIsHonest, Streaming, Holding
<1>10. \A d \in Attempts : d # c => Stream(d)' = Stream(d)
  BY <1>1, <1>4 DEF Stream
<1> HIDE DEF c, x
<1>11. OneSource'
  <2>1. ASSUME NEW d \in Attempts, rpc'[d] \in Taking
        PROVE  \E v \in reported'[d] .. MaxVersion : Begins(Stream(d)', v)
    <3>1. CASE d = c
      <4>1. snap[a] \in reported'[d] .. MaxVersion
        BY <1>1, <1>9, <3>1, MeshAssumption
      <4>2. Begins(Stream(d)', snap[a])
        BY <1>8, <3>1 DEF Stream
      <4>3. QED  BY <4>1, <4>2
    <3>2. CASE d # c
      BY <1>1, <1>10, <2>1, <3>2 DEF StreamFacts, StreamInv, OneSource
    <3>3. QED  BY <3>1, <3>2
  <2>2. QED  BY <2>1 DEF OneSource
<1>12. FromPinned'
  <2>1. ASSUME NEW b \in Attempts, Streaming(b)'
        PROVE  Begins(Stream(to[b])', snap'[b]) /\ Len(Stream(to[b])') = sent'[b]
    <3>1. b = a /\ to'[b] = c
      BY <1>1, <1>3, <2>1 DEF Streaming, c
    <3>2. QED  BY <1>1, <1>8, <3>1 DEF Stream
  <2>2. QED  BY <2>1 DEF FromPinned
<1>13. TrailerAtEnd'
  <2>1. ASSUME NEW d \in Attempts, rpc'[d] \in Taking, end'[d] = "trailer"
        PROVE  Len(Stream(d)') = FileLen \/ \E b \in Attempts : to'[b] = d /\ hpc'[b] = "failed"
    <3>1. d # c /\ rpc[d] \in Taking /\ end[d] = "trailer"
      BY <1>1, <1>2, <2>1
    <3>2. Len(Stream(d)) = FileLen \/ \E b \in Attempts : to[b] = d /\ hpc[b] = "failed"
      BY <3>1 DEF StreamFacts, StreamInv, TrailerAtEnd
    <3>3. QED  BY <1>1, <1>10, <3>1, <3>2
  <2>2. QED  BY <2>1 DEF TrailerAtEnd
<1>14. InstalledAtTrailer'
  BY <1>1, <1>2, <1>4 DEF StreamFacts, StreamInv, InstalledAtTrailer
<1>15. QED  BY <1>11, <1>12, <1>13, <1>14 DEF StreamInv

\* A trailer is written when the pinned file is at its end, or by a handler that
\* has failed.
LEMMA EndKeepsStream ==
  ASSUME StreamFacts, [Next]_vars, NEW a \in Attempts, Finish(a) \/ StreamFails(a)
  PROVE  StreamInv'
<1> DEFINE c == to[a]
<1>1. /\ hpc \in [Attempts -> HandlerPhases] /\ end \in [Attempts -> {"open", "trailer", "cut"}]
      /\ UNCHANGED <<rpc, reported, got, wire, to>>
  BY DEF StreamFacts, TypeOK, Finish, StreamFails, requester
<1>2. Streaming(a) /\ c \in Attempts /\ end[c] = "open"
  BY DEF Finish, StreamFails, StreamFacts, OneOwner, StreamOpen, Streaming
<1>3. \A b \in Attempts : ~ Streaming(b)'
  <2>1. \A b \in Attempts : Streaming(b) => b = a
    BY <1>2 DEF StreamFacts, LockInv, Streaming, Holding
  <2>2. hpc'[a] # "streaming" /\ \A b \in Attempts : b # a => hpc'[b] = hpc[b]
    BY <1>1 DEF Finish, StreamFails, Leave, HandlerGoes
  <2>3. QED  BY <2>1, <2>2 DEF Streaming
<1>4. \A d \in Attempts : d # c => end'[d] = end[d]
  BY <1>1 DEF Finish, StreamFails
<1>5. \A d \in Attempts : Stream(d)' = Stream(d)
  BY <1>1 DEF Stream
<1>6. rpc[c] # "installed"
  BY <1>2 DEF StreamFacts, StreamInv, InstalledAtTrailer
<1>7. rpc[c] \in Taking => Len(Stream(c)) = FileLen \/ hpc'[a] = "failed"
  <2>1. CASE Finish(a)
    <3>1. sent[a] = FileLen
      BY <2>1 DEF Finish
    <3>2. QED  BY <1>2, <1>6, <3>1 DEF StreamFacts, StreamInv, FromPinned, Taking
  <2>2. CASE StreamFails(a)
    BY <1>1, <2>2 DEF StreamFails, Leave, HandlerGoes
  <2>3. QED  BY <2>1, <2>2
<1> HIDE DEF c
<1>8. OneSource' /\ FromPinned'
  BY <1>1, <1>3, <1>5 DEF StreamFacts, StreamInv, OneSource, FromPinned
<1>9. TrailerAtEnd'
  <2>1. ASSUME NEW d \in Attempts, rpc'[d] \in Taking, end'[d] = "trailer"
        PROVE  Len(Stream(d)') = FileLen \/ \E b \in Attempts : to'[b] = d /\ hpc'[b] = "failed"
    <3>1. CASE d = c
      BY <1>1, <1>5, <1>7, <2>1, <3>1 DEF c
    <3>2. CASE d # c
      <4>1. Len(Stream(d)) = FileLen \/ \E b \in Attempts : to[b] = d /\ hpc[b] = "failed"
        BY <1>1, <1>4, <2>1, <3>2 DEF StreamFacts, StreamInv, TrailerAtEnd
      <4>2. QED  BY <1>5, <4>1, FailedStays DEF StreamFacts
    <3>3. QED  BY <3>1, <3>2
  <2>2. QED  BY <2>1 DEF TrailerAtEnd
<1>10. InstalledAtTrailer'
  BY <1>1, <1>4, <1>6 DEF StreamFacts, StreamInv, InstalledAtTrailer
<1>11. QED  BY <1>8, <1>9, <1>10 DEF StreamInv

LEMMA StreamInvHolds == Spec => []StreamInv
<1>1. Init => StreamInv
  <2> SUFFICES ASSUME Init PROVE StreamInv
    OBVIOUS
  <2>1. \A c \in Attempts : rpc[c] = "idle" /\ hpc[c] = "none"
    BY DEF Init
  <2>2. QED  BY <2>1 DEF StreamInv, OneSource, FromPinned, TrailerAtEnd, InstalledAtTrailer,
                         Taking, Streaming
<1>2. ASSUME StreamFacts, [Next]_vars PROVE StreamInv'
  <2>1. ASSUME NEW a \in Attempts, Query(a) \/ Pull(a) \/ Dies(a)
        PROVE  StreamInv'
    <3>1. CASE ConnectRaw(a)
      BY <1>2, <3>1, ConnectKeepsStream
    <3>2. CASE ReadPiece(a) \/ (EndOfStream(a) /\ end[a] = "trailer")
      BY <1>2, <3>2, ReadKeepsInv
    <3>3. CASE \/ Query(a) \/ Ask(a) \/ HearReply(a) \/ ReplyTimesOut(a)
               \/ EndOfStream(a) /\ end[a] # "trailer"
               \/ ReadTimesOut(a) \/ Dies(a)
      BY <1>2, <3>3, RequesterFrame
    <3>4. QED  BY <2>1, <3>1, <3>2, <3>3 DEF Pull
  <2>2. ASSUME NEW a \in Attempts, Handle(a)
        PROVE  StreamInv'
    BY <1>2, <2>2, SenderFrame, AcceptKeepsStream, SendKeepsStream, EndKeepsStream DEF Handle
  <2>3. CASE Refresh \/ Restart \/ UNCHANGED vars
    BY <1>2, <2>3, SenderFrame
  <2>4. QED  BY <1>2, <2>1, <2>2, <2>3 DEF Next
<1>3. TypeOK /\ LockInv /\ OkIsHonest /\ PinnedNotOlder /\ OneOwner /\ StreamInv => StreamFacts
  BY DEF StreamFacts
<1>4. QED  BY <1>1, <1>2, <1>3, MeshTypeOK, LockInvHolds, OkIsHonestHolds, PinnedNotOlderHolds,
              OneOwnerHolds, PTL DEF Spec

\* What a requester installs is the beginning of one snapshot's file, no older
\* than the one db_info reported, whichever handler it came from and whatever was
\* refreshed, killed or restarted meanwhile; and all of it unless that handler
\* failed as it streamed: for files of any length and any number of attempts.
THEOREM MeshInstalledFromOneSnapshot == Spec => []InstalledFromOneSnapshot
<1>1. ASSUME TypeOK, StreamInv PROVE InstalledFromOneSnapshot
  <2> SUFFICES ASSUME NEW a \in Attempts, rpc[a] = "installed"
               PROVE  \E v \in reported[a] .. MaxVersion :
                        /\ got[a] = SubSeq(File(v), 1, Len(got[a]))
                        /\ \/ got[a] = File(v)
                           \/ \E b \in Attempts : to[b] = a /\ hpc[b] = "failed"
    BY DEF InstalledFromOneSnapshot
  <2>1. got[a] \in Seq(Piece) /\ wire[a] = <<>> /\ end[a] = "trailer"
    BY <1>1 DEF TypeOK, StreamInv, InstalledAtTrailer
  <2>2. Stream(a) = got[a]
    BY <2>1, ConcatEmptySeq DEF Stream
  <2>3. PICK v \in reported[a] .. MaxVersion : Begins(got[a], v)
    BY <1>1, <2>2 DEF StreamInv, OneSource, Taking
  <2>4. reported[a] \in 0 .. MaxVersion /\ v \in 0 .. MaxVersion
    BY <1>1, MeshAssumption DEF TypeOK
  <2>5. File(v) \in Seq(Piece) /\ Len(File(v)) = FileLen
    BY <2>4, MeshAssumption DEF File, Piece
  <2>6. got[a] = SubSeq(File(v), 1, Len(got[a]))
    <3>1. Len(got[a]) \in Nat /\ Len(got[a]) <= FileLen
      BY <2>1, <2>3 DEF Begins
    <3>2. \A k \in 1 .. Len(got[a]) : File(v)[k] = got[a][k] /\ File(v)[k] \in Piece
      <4>1. \A k \in 1 .. Len(got[a]) : k \in 1 .. FileLen /\ got[a][k] = <<v, k>>
        BY <2>3, <3>1, MeshAssumption DEF Begins
      <4>2. \A k \in 1 .. FileLen : File(v)[k] = <<v, k>> /\ <<v, k>> \in Piece
        BY <2>4, MeshAssumption DEF File, Piece
      <4>3. QED  BY <4>1, <4>2
    <3>3. /\ SubSeq(File(v), 1, Len(got[a])) \in Seq(Piece)
          /\ Len(SubSeq(File(v), 1, Len(got[a]))) = Len(got[a])
          /\ \A k \in 1 .. Len(got[a]) : SubSeq(File(v), 1, Len(got[a]))[k] = File(v)[k]
      <4>1. /\ SubSeq(File(v), 1, Len(got[a])) \in Seq(Piece)
            /\ Len(SubSeq(File(v), 1, Len(got[a]))) = IF 1 <= Len(got[a]) THEN Len(got[a]) - 1 + 1 ELSE 0
            /\ \A k \in 1 .. Len(got[a]) - 1 + 1 :
                 SubSeq(File(v), 1, Len(got[a]))[k] = File(v)[1 + k - 1]
        BY <3>1, <3>2, SubSeqProperties
      <4>2. QED  BY <3>1, <4>1
    <3>4. QED  BY <2>1, <3>2, <3>3, SeqEqual
  <2>7. Len(got[a]) = FileLen => got[a] = File(v)
    BY <2>5, <2>6, SubSeqFull
  <2>8. Len(got[a]) = FileLen \/ \E b \in Attempts : to[b] = a /\ hpc[b] = "failed"
    BY <1>1, <2>1, <2>2 DEF StreamInv, TrailerAtEnd, Taking
  <2>9. QED  BY <2>6, <2>7, <2>8
<1>2. QED  BY <1>1, MeshTypeOK, StreamInvHolds, PTL
=============================================================================
