------------------------------ MODULE MeshPull ------------------------------
(***************************************************************************)
(* One transfer of a database between two machines: handle_connection,     *)
(* handle_request_pull and stream_snapshot of p2p_db_server.rs on the      *)
(* sender, query_peer_db_info and pull_from_peer of mesh_sync.rs on the    *)
(* requesters, the control connections and the raw port between them.      *)
(*                                                                         *)
(* An attempt is one requester's try at this sender, with its own control  *)
(* connection and handler thread.  Two attempts of one address are two     *)
(* daemons on a host, or a daemon that was killed and booted again.  What  *)
(* a requester does with the file it got is Store's business.              *)
(***************************************************************************)
EXTENDS Naturals, Sequences, FiniteSets

CONSTANTS Attempts,
          Hosts,       \* the addresses they come from
          Free,        \* nobody holds the lock, or the raw port
          FileLen,     \* bound: TRANSFER_CHUNK_BYTES pieces of a file
          MaxVersion,  \* bound: refreshes of the sender
          Window       \* pieces the sockets hold between sender and receiver

ASSUME MeshAssumption ==
  /\ Free \notin Attempts
  /\ FileLen \in Nat \ {0} /\ MaxVersion \in Nat /\ Window \in Nat \ {0}

VARIABLES
  ip,        \* attempt -> the address it comes from
  served,    \* the sender's snapshot: its built_at_unix, counted in refreshes
  sending,   \* the attempt whose handler holds `sending`, or Free
  listener,  \* the attempt whose handler has the raw port bound, or Free
  backlog,   \* attempts connected to the raw port and not accepted yet
  hpc,       \* attempt -> where its handler stands
  snap,      \* attempt -> the snapshot its handler pinned
  sent,      \* attempt -> pieces its handler has streamed
  to,        \* attempt -> the attempt its handler's stream leads to
  reply,     \* attempt -> the reply on its control connection, if any
  rpc,       \* attempt -> where the requester stands
  reported,  \* attempt -> what db_info told it
  wire,      \* attempt -> pieces on its raw connection
  end,       \* attempt -> how that stream ends: "open", "trailer", "cut"
  got        \* attempt -> pieces written to its .tmp file

sender    == <<served, sending, listener, backlog, hpc, snap, sent, to>>
requester == <<rpc, reported, got>>
raw       == <<wire, end>>
vars      == <<ip, sender, reply, requester, raw>>

Piece == (0 .. MaxVersion) \X (1 .. FileLen)
File(v) == [k \in 1 .. FileLen |-> <<v, k>>]

\* "no": it declined; "failed": a read or write error while it streamed;
\* "over": any other end, the death of the sender's process among them.
Working == {"asked", "locked", "accepting", "streaming"}
HandlerPhases == Working \cup {"none", "no", "failed", "over"}

\* "failed": a timeout, an I/O error, or the requester was killed.
Ended == {"installed", "declined", "refused", "failed"}
RequesterPhases == Ended \cup {"idle", "candidate", "waiting", "told", "receiving"}

TypeOK ==
  /\ ip \in [Attempts -> Hosts]
  /\ served \in 0 .. MaxVersion
  /\ {sending, listener} \subseteq Attempts \cup {Free}
  /\ backlog \in Seq(Attempts)
  /\ hpc \in [Attempts -> HandlerPhases]
  /\ snap \in [Attempts -> 0 .. MaxVersion]
  /\ sent \in [Attempts -> 0 .. FileLen]
  /\ to \in [Attempts -> Attempts \cup {Free}]
  /\ reply \in [Attempts -> {"none", "ok", "error"}]
  /\ rpc \in [Attempts -> RequesterPhases]
  /\ reported \in [Attempts -> 0 .. MaxVersion]
  /\ wire \in [Attempts -> Seq(Piece)]
  /\ end \in [Attempts -> {"open", "trailer", "cut"}]
  /\ got \in [Attempts -> Seq(Piece)]

-----------------------------------------------------------------------------
(* Requester: query_peer_db_info, and pull_from_peer up to the raw connection *)

RequesterGoes(a, next) == rpc' = [rpc EXCEPT ![a] = next]

\* db_info, on a connection of its own.
Query(a) ==
  /\ rpc[a] = "idle"
  /\ RequesterGoes(a, "candidate")
  /\ reported' = [reported EXCEPT ![a] = served]
  /\ UNCHANGED <<ip, sender, reply, raw, got>>

\* request_pull is on its way; the sender spawns a thread that reads it.
Ask(a) ==
  /\ rpc[a] = "candidate"
  /\ RequesterGoes(a, "waiting")
  /\ hpc' = [hpc EXCEPT ![a] = "asked"]
  /\ UNCHANGED <<ip, served, sending, listener, backlog, snap, sent, to, reply, reported, raw, got>>

HearReply(a) ==
  /\ rpc[a] = "waiting" /\ reply[a] # "none"
  /\ RequesterGoes(a, IF reply[a] = "ok" THEN "told" ELSE "declined")
  /\ reply' = [reply EXCEPT ![a] = "none"]
  /\ UNCHANGED <<ip, sender, reported, raw, got>>

\* The control connection times out, or closes without a reply.
ReplyTimesOut(a) ==
  /\ rpc[a] = "waiting" /\ reply[a] = "none"
  /\ RequesterGoes(a, "failed")
  /\ UNCHANGED <<ip, sender, reply, reported, raw, got>>

\* connect_timeout on the raw port: the kernel queues it, or refuses.
ConnectRaw(a) ==
  /\ rpc[a] = "told"
  /\ IF listener = Free
       THEN RequesterGoes(a, "refused") /\ UNCHANGED backlog
       ELSE RequesterGoes(a, "receiving") /\ backlog' = Append(backlog, a)
  /\ UNCHANGED <<ip, served, sending, listener, hpc, snap, sent, to, reply, reported, raw, got>>

-----------------------------------------------------------------------------
(* Requester: the stream *)

\* The connection is closed and the .tmp file of no more use to anybody.
HangUp(a) ==
  /\ wire' = [wire EXCEPT ![a] = <<>>]
  /\ got' = [got EXCEPT ![a] = <<>>]

ReadPiece(a) ==
  /\ rpc[a] = "receiving" /\ wire[a] # <<>>
  /\ got' = [got EXCEPT ![a] = Append(@, Head(wire[a]))]
  /\ wire' = [wire EXCEPT ![a] = Tail(@)]
  /\ UNCHANGED <<ip, sender, reply, rpc, reported, end>>

\* End of file: GzDecoder has checked the trailer, or misses it.  What was
\* decoded is synced, loads as a Snapshot, and is renamed into place.
EndOfStream(a) ==
  /\ rpc[a] = "receiving" /\ wire[a] = <<>> /\ end[a] # "open"
  /\ IF end[a] = "trailer"
       THEN RequesterGoes(a, "installed") /\ UNCHANGED <<got, wire>>
       ELSE RequesterGoes(a, "failed") /\ HangUp(a)
  /\ UNCHANGED <<ip, sender, reply, reported, end>>

\* Mutant: no read timeout on the raw connection.
ReadNeverTimesOut(a) == FALSE /\ UNCHANGED vars

\* PULL_TIMEOUT_SECS without a byte, or a local I/O error.
ReadTimesOut(a) ==
  /\ rpc[a] = "receiving" /\ wire[a] = <<>> /\ end[a] = "open"
  /\ RequesterGoes(a, "failed") /\ HangUp(a)
  /\ UNCHANGED <<ip, sender, reply, reported, end>>

\* The requester is killed.  Nobody tells the handler.
Dies(a) ==
  /\ rpc[a] \notin Ended \cup {"idle"}
  /\ RequesterGoes(a, "failed") /\ HangUp(a)
  /\ UNCHANGED <<ip, sender, reply, reported, end>>

-----------------------------------------------------------------------------
(* Sender: handle_request_pull *)

HandlerGoes(a, next) == hpc' = [hpc EXCEPT ![a] = next]

\* The guard of the lock and the pinned snapshot are dropped on the way out.
Leave(a, how) ==
  /\ HandlerGoes(a, how)
  /\ sending' = Free
  /\ snap' = [snap EXCEPT ![a] = 0] /\ sent' = [sent EXCEPT ![a] = 0]

Reply(a, what) == reply' = [reply EXCEPT ![a] = what]

\* Connections that nobody will accept any more, or that are dropped.
Reset(cs) == end' = [c \in Attempts |-> IF c \in cs THEN "cut" ELSE end[c]]

Queued == {backlog[k] : k \in DOMAIN backlog}

\* Mutant: the lock is asked whether it is held, and not taken.
TryLockOnlyLooks(a) ==
  /\ hpc[a] = "asked"
  /\ IF sending = Free
       THEN HandlerGoes(a, "locked") /\ snap' = [snap EXCEPT ![a] = served] /\ UNCHANGED reply
       ELSE HandlerGoes(a, "no") /\ Reply(a, "error") /\ UNCHANGED snap
  /\ UNCHANGED <<ip, served, sending, listener, backlog, sent, to, requester, raw>>

\* try_lock and the pin, or "busy".
TryLock(a) ==
  /\ hpc[a] = "asked"
  /\ IF sending = Free
       THEN /\ HandlerGoes(a, "locked") /\ sending' = a
            /\ snap' = [snap EXCEPT ![a] = served]
            /\ UNCHANGED reply
       ELSE HandlerGoes(a, "no") /\ Reply(a, "error") /\ UNCHANGED <<sending, snap>>
  /\ UNCHANGED <<ip, served, listener, backlog, sent, to, requester, raw>>

\* Mutant: "ok" is sent before the port is bound, and the bind then fails.
BindAfterOk(a) ==
  /\ hpc[a] = "locked"
  /\ Leave(a, "no") /\ Reply(a, "ok")
  /\ UNCHANGED <<ip, served, listener, backlog, to, requester, raw>>

\* The raw port is bound and "ok" sent, or the bind fails.
BindRaw(a) ==
  /\ hpc[a] = "locked"
  /\ \/ /\ listener = Free
        /\ HandlerGoes(a, "accepting") /\ listener' = a /\ Reply(a, "ok")
        /\ UNCHANGED <<sending, snap, sent>>
     \/ Leave(a, "no") /\ Reply(a, "error") /\ UNCHANGED listener
  /\ UNCHANGED <<ip, served, backlog, to, requester, raw>>

\* accept: a connection of the requester's address is taken and the listener
\* dropped, any other connection is dropped and the loop goes on.
Accept(a) ==
  /\ hpc[a] = "accepting" /\ backlog # <<>>
  /\ LET c == Head(backlog)
     IN  IF ip[c] = ip[a]
           THEN /\ HandlerGoes(a, "streaming")
                /\ to' = [to EXCEPT ![a] = c]
                /\ listener' = Free /\ backlog' = <<>>
                /\ Reset(Queued \ {c})
           ELSE /\ backlog' = Tail(backlog)
                /\ Reset({c})
                /\ UNCHANGED <<hpc, to, listener>>
  /\ UNCHANGED <<ip, served, sending, snap, sent, reply, requester, wire>>

\* Mutant: the lock is let go at the end of a transfer only.
DeadlineKeepsLock(a) ==
  /\ hpc[a] = "accepting" /\ backlog = <<>>
  /\ HandlerGoes(a, "over") /\ listener' = Free
  /\ UNCHANGED <<ip, served, sending, backlog, snap, sent, to, reply, requester, raw>>

\* Nothing to accept, and the deadline has passed; or accept fails.
Deadline(a) ==
  /\ hpc[a] = "accepting" /\ backlog = <<>>
  /\ Leave(a, "over") /\ listener' = Free
  /\ UNCHANGED <<ip, served, backlog, to, reply, requester, raw>>

-----------------------------------------------------------------------------
(* Sender: stream_snapshot *)

Reading(c) == rpc[c] = "receiving"

\* Mutant: the piece is read from the snapshot that is served by now.
SendFromServed(a) ==
  /\ hpc[a] = "streaming" /\ sent[a] < FileLen
  /\ Reading(to[a]) /\ Len(wire[to[a]]) < Window
  /\ wire' = [wire EXCEPT ![to[a]] = Append(@, <<served, sent[a] + 1>>)]
  /\ sent' = [sent EXCEPT ![a] = @ + 1]
  /\ UNCHANGED <<ip, served, sending, listener, backlog, hpc, snap, to, reply, requester, end>>

\* Mutant: the loop reads one piece more than there is.
SendPastEnd(a) ==
  /\ hpc[a] = "streaming" /\ sent[a] <= FileLen
  /\ Reading(to[a]) /\ Len(wire[to[a]]) < Window
  /\ wire' = [wire EXCEPT ![to[a]] = Append(@, <<snap[a], sent[a] + 1>>)]
  /\ sent' = [sent EXCEPT ![a] = @ + 1]
  /\ UNCHANGED <<ip, served, sending, listener, backlog, hpc, snap, to, reply, requester, end>>

\* read_at on the pinned file, compressed and written.
SendPiece(a) ==
  /\ hpc[a] = "streaming" /\ sent[a] < FileLen
  /\ Reading(to[a]) /\ Len(wire[to[a]]) < Window
  /\ wire' = [wire EXCEPT ![to[a]] = Append(@, <<snap[a], sent[a] + 1>>)]
  /\ sent' = [sent EXCEPT ![a] = @ + 1]
  /\ UNCHANGED <<ip, served, sending, listener, backlog, hpc, snap, to, reply, requester, end>>

\* read_at returns 0: the encoder is finished.
Finish(a) ==
  /\ hpc[a] = "streaming" /\ sent[a] = FileLen
  /\ Leave(a, "over")
  /\ end' = [end EXCEPT ![to[a]] = "trailer"]
  /\ UNCHANGED <<ip, served, listener, backlog, to, reply, requester, wire>>

\* A write that times out or finds the connection closed, or a read error.  The
\* encoder is dropped, and its Drop finishes the stream if it still can.
StreamFails(a) ==
  /\ hpc[a] = "streaming"
  /\ Leave(a, "failed")
  /\ \E how \in {"trailer", "cut"} : end' = [end EXCEPT ![to[a]] = how]
  /\ UNCHANGED <<ip, served, listener, backlog, to, reply, requester, wire>>

-----------------------------------------------------------------------------
(* Sender: the rest of the daemon *)

\* Database::swap
Refresh ==
  /\ served < MaxVersion
  /\ served' = served + 1
  /\ UNCHANGED <<ip, sending, listener, backlog, hpc, snap, sent, to, reply, requester, raw>>

\* The sender is killed and boots again; its file is still there.  Its
\* connections are closed, or its machine was lost and nobody is told.
Restart ==
  /\ \E a \in Attempts : hpc[a] \in Working
  /\ hpc' = [a \in Attempts |-> IF hpc[a] \in Working THEN "over" ELSE hpc[a]]
  /\ sending' = Free /\ listener' = Free /\ backlog' = <<>>
  /\ snap' = [a \in Attempts |-> 0] /\ sent' = [a \in Attempts |-> 0]
  /\ \/ Reset(Queued \cup {to[a] : a \in {b \in Attempts : hpc[b] = "streaming"}})
     \/ UNCHANGED end
  /\ UNCHANGED <<ip, served, to, reply, requester, wire>>

-----------------------------------------------------------------------------

Init ==
  /\ ip \in [Attempts -> Hosts]
  /\ served = 0 /\ sending = Free /\ listener = Free /\ backlog = <<>>
  /\ hpc = [a \in Attempts |-> "none"] /\ snap = [a \in Attempts |-> 0]
  /\ sent = [a \in Attempts |-> 0] /\ to = [a \in Attempts |-> Free]
  /\ reply = [a \in Attempts |-> "none"]
  /\ rpc = [a \in Attempts |-> "idle"] /\ reported = [a \in Attempts |-> 0]
  /\ wire = [a \in Attempts |-> <<>>] /\ end = [a \in Attempts |-> "open"]
  /\ got = [a \in Attempts |-> <<>>]

Pull(a) ==
  \/ Ask(a) \/ HearReply(a) \/ ReplyTimesOut(a) \/ ConnectRaw(a)
  \/ ReadPiece(a) \/ EndOfStream(a) \/ ReadTimesOut(a)

Handle(a) ==
  \/ TryLock(a) \/ BindRaw(a) \/ Accept(a) \/ Deadline(a)
  \/ SendPiece(a) \/ Finish(a) \/ StreamFails(a)

Next ==
  \/ \E a \in Attempts : Query(a) \/ Pull(a) \/ Handle(a) \/ Dies(a)
  \/ Refresh \/ Restart

Spec == Init /\ [][Next]_vars

\* Threads are scheduled, and no call waits past its timeout.
FairSpec == Spec /\ \A a \in Attempts : WF_vars(Pull(a)) /\ WF_vars(Handle(a))

-----------------------------------------------------------------------------
(* Properties *)

\* However requests, deadlines, restarts and errors interleave, one handler at
\* most is past the lock, and the raw port belongs to it.
OneTransfer ==
  /\ \A a, b \in Attempts :
       {hpc[a], hpc[b]} \subseteq Working \ {"asked"} => a = b
  /\ listener # Free => hpc[listener] = "accepting"

\* What a requester installs is the beginning of one snapshot's file, no older
\* than the one db_info reported, whatever the sender refreshed meanwhile and
\* whoever's handler it came from; and it is the whole file unless the sender
\* itself failed on the way (a killed sender or a dropped connection is noticed).
InstalledFromOneSnapshot ==
  \A a \in Attempts : rpc[a] = "installed" =>
    \E v \in reported[a] .. MaxVersion :
      /\ got[a] = SubSeq(File(v), 1, Len(got[a]))
      /\ \/ got[a] = File(v)
         \/ \E b \in Attempts : to[b] = a /\ hpc[b] = "failed"

\* "saying ok is honest": a requester that was told "ok" finds the port closed
\* only if its handler waited in vain, gave up or gave the stream to another
\* connection of the same address, or died.
RefusedOnlyAfterDeadline ==
  \A a \in Attempts : rpc[a] = "refused" => hpc[a] \in {"streaming", "failed", "over"}

\* The lock is given back, whatever becomes of the requester: "every exit path
\* releases the `sending` lock".
SendingFreed == \A a \in Attempts : sending = a ~> sending # a

\* A pull that was begun ends, one way or the other: "never a hang".
PullEnds == \A a \in Attempts : rpc[a] = "waiting" ~> rpc[a] \in Ended

\* docs/MESH_SYNC.md: an error in mid-stream is "never data silently accepted
\* as complete".
InstalledIsWhole ==
  \A a \in Attempts : rpc[a] = "installed" => \E v \in 0 .. MaxVersion : got[a] = File(v)
=============================================================================
