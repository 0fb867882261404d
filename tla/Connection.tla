----------------------------- MODULE Connection -----------------------------
(***************************************************************************)
(* The connections of the Unix socket: run and handle_connection of        *)
(* server.rs with handle_line and dispatch of api.rs, one thread for each  *)
(* connection, while refreshes swap the snapshot under them.               *)
(*                                                                         *)
(* A client writes lines without waiting for answers, stops in the middle  *)
(* of a line, does not read, closes one direction or both, and comes back. *)
(***************************************************************************)
EXTENDS Naturals, Sequences, SequencesExt

CONSTANTS Conns,
          Silent,    \* bound: the connections whose client writes nothing
          InboxCap,  \* bound: lines in the socket buffer towards the server
          WireCap,   \* bound: answers in the socket buffer towards the client
          MaxSwaps   \* bound: refreshes

ASSUME ConnectionBounds ==
  /\ Silent \subseteq Conns
  /\ InboxCap \in Nat \ {0} /\ WireCap \in Nat \ {0} /\ MaxSwaps \in Nat

VARIABLES
  up,       \* the process runs
  version,  \* the snapshot served, as the number of swaps before it
  client,   \* connection -> what the client has closed of it
  h,        \* connection -> where its handler thread stands
  inbox,    \* connection -> lines written and not read
  hand,     \* connection -> the line read, then its answer, if any
  wire,     \* connection -> answers written and not read
  owed      \* connection -> the lines the client waits to have answered

ends == <<client, inbox, owed>>
vars == <<up, version, ends, h, hand, wire>>

\* A text is a request, good or bad; a binary line is not UTF-8.
Kinds == {"text", "blank", "binary"}

\* at is the snapshot served when the line was written.
Line == [kind : Kinds, at : 0 .. MaxSwaps]

\* What stands in the inbox: a line, or all that was written of one so far.
Piece == [line : Line, ended : BOOLEAN]

\* An answer, with the line it answers, and whether its newline was written.
Answers == [to : Line, ver : 0 .. MaxSwaps, ended : BOOLEAN]

TypeOK ==
  /\ up \in BOOLEAN /\ version \in 0 .. MaxSwaps
  /\ client \in [Conns -> {"absent", "open", "half", "gone"}]
  /\ h \in [Conns -> {"none", "queued", "starting", "reading",
                     "answering", "writing", "newline", "closed"}]
  /\ inbox \in [Conns -> Seq(Piece)] /\ wire \in [Conns -> Seq(Answers)]
  /\ owed \in [Conns -> Seq(Line)]
  /\ DOMAIN hand = Conns
  /\ \A c \in Conns :
       /\ Len(inbox[c]) <= InboxCap /\ Len(wire[c]) <= WireCap
       /\ h[c] = "answering" => hand[c] \in Seq(Line) /\ Len(hand[c]) = 1
       /\ h[c] \in {"writing", "newline"} => hand[c] \in Seq(Answers) /\ Len(hand[c]) = 1
       /\ h[c] \notin {"answering", "writing", "newline"} => hand[c] = <<>>

-----------------------------------------------------------------------------
(* The client *)

Talks(c) == client[c] = "open"
Listens(c) == client[c] \in {"open", "half"}

\* connect(2), on a connection that is new or over.
Connect(c) ==
  /\ up
  /\ client[c] = "absent" \/ (client[c] = "gone" /\ h[c] = "closed")
  /\ client' = [client EXCEPT ![c] = "open"]
  /\ h' = [h EXCEPT ![c] = "queued"]
  /\ inbox' = [inbox EXCEPT ![c] = <<>>]
  /\ wire' = [wire EXCEPT ![c] = <<>>]
  /\ owed' = [owed EXCEPT ![c] = <<>>]
  /\ UNCHANGED <<up, version, hand>>

\* A line, or the beginning of one; blank lines ask for no answer.
SendLine(c, kind, ended) ==
  /\ c \notin Silent /\ Talks(c) /\ h[c] # "closed"
  /\ Len(inbox[c]) < InboxCap
  /\ inbox[c] # <<>> => Last(inbox[c]).ended
  /\ kind = "blank" => ended
  /\ LET l == [kind |-> kind, at |-> version]
     IN  /\ inbox' = [inbox EXCEPT ![c] = Append(@, [line |-> l, ended |-> ended])]
         /\ owed' = [owed EXCEPT ![c] = IF kind = "blank" THEN @ ELSE Append(@, l)]
  /\ UNCHANGED <<up, version, client, h, hand, wire>>

\* The rest of a line that was begun.
EndLine(c) ==
  /\ Talks(c) /\ h[c] # "closed"
  /\ inbox[c] # <<>> /\ ~ Last(inbox[c]).ended
  /\ LET l == [kind |-> Last(inbox[c]).line.kind, at |-> version]
     IN  /\ inbox' = [inbox EXCEPT ![c] = Append(Front(@), [line |-> l, ended |-> TRUE])]
         /\ owed' = [owed EXCEPT ![c] = Append(Front(@), l)]
  /\ UNCHANGED <<up, version, client, h, hand, wire>>

\* The client takes a whole answer for the oldest line it waits for.
Receive(c) ==
  /\ Listens(c) /\ wire[c] # <<>> /\ Head(wire[c]).ended
  /\ wire' = [wire EXCEPT ![c] = Tail(@)]
  /\ owed' = [owed EXCEPT ![c] = Tail(@)]
  /\ UNCHANGED <<up, version, client, h, inbox, hand>>

\* shutdown of the client's writing direction.
HalfClose(c) ==
  /\ Talks(c)
  /\ client' = [client EXCEPT ![c] = "half"]
  /\ UNCHANGED <<up, version, h, inbox, hand, wire, owed>>

\* close, or the end of the client: nothing it was owed reaches it any more.
Leave(c) ==
  /\ Listens(c)
  /\ client' = [client EXCEPT ![c] = "gone"]
  /\ wire' = [wire EXCEPT ![c] = <<>>]
  /\ owed' = [owed EXCEPT ![c] = <<>>]
  /\ UNCHANGED <<up, version, h, inbox, hand>>

\* The client reads the end of the stream, perhaps in the middle of an answer.
SeeClose(c) ==
  /\ Listens(c) /\ h[c] = "closed"
  /\ wire[c] # <<>> => ~ Head(wire[c]).ended
  /\ client' = [client EXCEPT ![c] = "absent"]
  /\ wire' = [wire EXCEPT ![c] = <<>>]
  /\ owed' = [owed EXCEPT ![c] = <<>>]
  /\ UNCHANGED <<up, version, h, inbox, hand>>

-----------------------------------------------------------------------------
(* server.rs, run: the accept loop *)

\* The thread goes to phase p, with x in hand.
Goes(c, p, x) ==
  /\ h' = [h EXCEPT ![c] = p]
  /\ hand' = [hand EXCEPT ![c] = x]

\* Mutant: a thread that returns leaves its answer for the next one to write.
CloseKeepsHand(c) ==
  /\ Goes(c, "closed", hand[c])
  /\ inbox' = [inbox EXCEPT ![c] = <<>>]

\* The thread returns, which closes the connection: what it has not read is lost.
Close(c) ==
  /\ Goes(c, "closed", <<>>)
  /\ inbox' = [inbox EXCEPT ![c] = <<>>]

\* Mutant: connections are handled one after another by the accepting thread.
AcceptInline(c) ==
  /\ up /\ h[c] = "queued"
  /\ \A d \in Conns : h[d] \in {"none", "queued", "closed"}
  /\ h' = [h EXCEPT ![c] = "starting"]
  /\ UNCHANGED <<up, version, ends, hand, wire>>

\* A thread is spawned for the connection.
Accept(c) ==
  /\ up /\ h[c] = "queued"
  /\ h' = [h EXCEPT ![c] = "starting"]
  /\ UNCHANGED <<up, version, ends, hand, wire>>

\* thread::spawn panics when the system has no thread left to give: run is
\* main's, so the process ends, and every connection with it.
SpawnPanics ==
  /\ up /\ \E c \in Conns : h[c] = "queued"
  /\ up' = FALSE
  /\ h' = [c \in Conns |-> IF h[c] = "none" THEN "none" ELSE "closed"]
  /\ hand' = [c \in Conns |-> <<>>] /\ inbox' = hand'
  /\ UNCHANGED <<version, client, owed, wire>>

Reboot == ~ up /\ up' = TRUE /\ UNCHANGED <<version, ends, h, hand, wire>>

-----------------------------------------------------------------------------
(* server.rs, handle_connection *)

\* The timeouts are set and the stream is cloned.
StartReading(c) ==
  /\ h[c] = "starting"
  /\ h' = [h EXCEPT ![c] = "reading"]
  /\ UNCHANGED <<up, version, ends, hand, wire>>

\* try_clone fails: the thread returns, and the connection is closed.
CloneFails(c) ==
  /\ h[c] = "starting" /\ Close(c)
  /\ UNCHANGED <<up, version, client, owed, wire>>

\* The connection is at its end for this client: nothing more will be written.
NoMore(c) == client[c] \in {"half", "gone"}

\* read_line returns: a line, or at the end of the stream what there is of one.
LineReady(c) == inbox[c] # <<>> /\ (Head(inbox[c]).ended \/ NoMore(c))

TakesLine(c) ==
  /\ h[c] = "reading" /\ LineReady(c)
  /\ inbox' = [inbox EXCEPT ![c] = Tail(@)]
  /\ UNCHANGED <<up, version, client, owed, wire>>

NextLine(c) == Head(inbox[c]).line

\* Mutant: an empty line is answered like any other.
BlankAnswered(c) ==
  /\ TakesLine(c) /\ NextLine(c).kind = "blank"
  /\ Goes(c, "answering", <<NextLine(c)>>)

\* `continue` on an empty line.
SkipBlank(c) ==
  /\ TakesLine(c) /\ NextLine(c).kind = "blank"
  /\ Goes(c, "reading", <<>>)

ReadLine(c) ==
  /\ TakesLine(c) /\ NextLine(c).kind = "text"
  /\ Goes(c, "answering", <<NextLine(c)>>)

\* read_line fails on a line that is not UTF-8, which closes the connection.
ReadBinary(c) ==
  /\ h[c] = "reading" /\ LineReady(c) /\ NextLine(c).kind = "binary"
  /\ Close(c)
  /\ UNCHANGED <<up, version, client, owed, wire>>

\* Mutant: the end of the stream is taken for an empty line.
EofSkipped(c) ==
  /\ h[c] = "reading" /\ inbox[c] = <<>> /\ NoMore(c)
  /\ UNCHANGED vars

\* read_line returns 0.
ReadEof(c) ==
  /\ h[c] = "reading" /\ inbox[c] = <<>> /\ NoMore(c)
  /\ Close(c)
  /\ UNCHANGED <<up, version, client, owed, wire>>

\* READ_TIMEOUT passes before the line is whole; a line begun is dropped.
ReadTimesOut(c) ==
  /\ h[c] = "reading" /\ Talks(c) /\ ~ LineReady(c)
  /\ Close(c)
  /\ UNCHANGED <<up, version, client, owed, wire>>

\* The client closed with answers unread: the read gives a reset.
ReadFails(c) ==
  /\ h[c] = "reading" /\ client[c] = "gone"
  /\ Close(c)
  /\ UNCHANGED <<up, version, client, owed, wire>>

Reply(line, v) == [to |-> line, ver |-> v, ended |-> FALSE]

\* Mutant: the snapshot in use is looked up less often than it is swapped.
AnswerFromPrevious(c) ==
  /\ h[c] = "answering"
  /\ \E v \in 0 .. version : Goes(c, "writing", <<Reply(hand[c][1], v)>>)
  /\ UNCHANGED <<up, version, ends, wire>>

\* handle_line and dispatch: a request, a text that is none and a record that
\* cannot be read are all answered, from the snapshot of now.
Answer(c) ==
  /\ h[c] = "answering"
  /\ Goes(c, "writing", <<Reply(hand[c][1], version)>>)
  /\ UNCHANGED <<up, version, ends, wire>>

\* write_all of the response: all of it has found room in the buffer.
WriteBody(c) ==
  /\ h[c] = "writing" /\ Listens(c) /\ Len(wire[c]) < WireCap
  /\ wire' = [wire EXCEPT ![c] = @ \o hand[c]]
  /\ Goes(c, "newline", hand[c])
  /\ UNCHANGED <<up, version, ends>>

WriteNewline(c) ==
  /\ h[c] = "newline" /\ Listens(c)
  /\ wire' = [wire EXCEPT ![c] = Append(Front(@), [Last(@) EXCEPT !.ended = TRUE])]
  /\ Goes(c, "reading", <<>>)
  /\ UNCHANGED <<up, version, ends>>

\* What a write that fails leaves in the buffer: nothing, or a part.
LeavesPart(c) ==
  /\ \/ UNCHANGED wire
     \/ /\ h[c] = "writing" /\ Listens(c) /\ Len(wire[c]) < WireCap
        /\ wire' = [wire EXCEPT ![c] = @ \o hand[c]]
  /\ UNCHANGED <<up, version, client, owed>>

\* Mutant: a failed write is logged and the loop goes on.
WriteFailsGoesOn(c) ==
  /\ h[c] \in {"writing", "newline"} /\ LeavesPart(c)
  /\ Goes(c, "reading", <<>>)
  /\ UNCHANGED inbox

\* Mutant: there is no WRITE_TIMEOUT.
WriteFailsOnlyWhenGone(c) ==
  /\ h[c] \in {"writing", "newline"} /\ client[c] = "gone" /\ LeavesPart(c)
  /\ Close(c)

\* The client is gone, or has not read for WRITE_TIMEOUT.
WriteFails(c) ==
  /\ h[c] \in {"writing", "newline"} /\ LeavesPart(c)
  /\ Close(c)

-----------------------------------------------------------------------------

\* Database::swap.
Swap ==
  /\ up /\ version < MaxSwaps
  /\ version' = version + 1
  /\ UNCHANGED <<up, ends, h, hand, wire>>

Init ==
  /\ up = TRUE /\ version = 0
  /\ client = [c \in Conns |-> "absent"] /\ h = [c \in Conns |-> "none"]
  /\ inbox = [c \in Conns |-> <<>>] /\ hand = [c \in Conns |-> <<>>]
  /\ wire = [c \in Conns |-> <<>>] /\ owed = [c \in Conns |-> <<>>]

ClientStep(c) ==
  \/ Connect(c) \/ Receive(c) \/ EndLine(c)
  \/ HalfClose(c) \/ Leave(c) \/ SeeClose(c)
  \/ \E kind \in Kinds, ended \in BOOLEAN : SendLine(c, kind, ended)

HandlerStep(c) ==
  \/ StartReading(c)
  \/ SkipBlank(c) \/ ReadLine(c) \/ ReadBinary(c)
  \/ ReadEof(c) \/ ReadTimesOut(c)
  \/ Answer(c) \/ WriteBody(c) \/ WriteNewline(c) \/ WriteFails(c)

\* Calls that fail when they need not.
HandlerFault(c) == CloneFails(c) \/ ReadFails(c)

Next ==
  \/ \E c \in Conns : ClientStep(c) \/ Accept(c) \/ HandlerStep(c) \/ HandlerFault(c)
  \/ SpawnPanics \/ Reboot \/ Swap

Spec == Init /\ [][Next]_vars

\* The accepting thread and every handler are scheduled, and their timeouts pass;
\* no other failure is promised.  Nothing is asked of clients, who may never read,
\* write or leave.
FairSpec == Spec /\ \A c \in Conns : WF_vars(Accept(c)) /\ WF_vars(HandlerStep(c))

-----------------------------------------------------------------------------
(* Properties *)

\* The lines answered or taken up, oldest first.
Taken(c) == [i \in 1 .. Len(wire[c]) |-> wire[c][i].to] \o
              (CASE h[c] = "answering" -> hand[c]
                 [] h[c] = "writing"   -> <<hand[c][1].to>>
                 [] OTHER              -> <<>>)

\* Which of the lines of q are waited for, and how many of them come up to the jth.
Wanted(q) == {j \in DOMAIN q : q[j].line.kind # "blank"}
Rank(q, j) == Cardinality({m \in Wanted(q) : m <= j})

\* As long as a connection is open, every line the client waits for is in exactly
\* one place: answered, in hand or still to be read, in the order it wrote them;
\* and after it was closed the answers that reach it are still those of its
\* oldest lines.  An answer to a line that is no JSON has no id: its place is all
\* there is.
EveryLineAccounted ==
  \A c \in Conns : Listens(c) =>
    /\ \A k \in DOMAIN Taken(c) : k \in DOMAIN owed[c] /\ owed[c][k] = Taken(c)[k]
    /\ h[c] # "closed" =>
         /\ Len(owed[c]) = Len(Taken(c)) + Cardinality(Wanted(inbox[c]))
         /\ \A j \in Wanted(inbox[c]) :
              owed[c][Len(Taken(c)) + Rank(inbox[c], j)] = inbox[c][j].line

\* An answer cut short is the last thing on its connection: a client never finds
\* another answer glued to it.
NothingAfterTorn ==
  \A c \in Conns : \A i \in 1 .. Len(wire[c]) :
    wire[c][i].ended \/ (i = Len(wire[c]) /\ h[c] \in {"newline", "closed"})

\* An answer is never older than the snapshot served when its line was written:
\* not with lines that wait in the buffer, nor after an answer elsewhere.
FreshReads ==
  \A c \in Conns : \A i \in 1 .. Len(wire[c]) :
    wire[c][i].ver \in wire[c][i].to.at .. version

\* No thread waits for ever on a client that neither writes nor reads, though a
\* line may be half written, or both directions be full and each side wait for
\* the other.
NeverWaitsForEver ==
  \A c \in Conns :
    /\ h[c] = "reading" /\ ~ LineReady(c) ~> h[c] # "reading" \/ LineReady(c)
    /\ h[c] \in {"writing", "newline"} ~> h[c] \in {"reading", "closed"}

\* A client that has connected gets a thread, whatever others do with theirs.
NewClientsServed == \A c \in Conns : h[c] = "queued" ~> h[c] # "queued"

\* The thread of a client that is gone ends.
GoneClientsFreed == \A c \in Conns : client[c] = "gone" ~> h[c] = "closed"
=============================================================================
