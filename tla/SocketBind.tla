----------------------------- MODULE SocketBind -----------------------------
(***************************************************************************)
(* server::bind (server.rs): instances that start, one after another or at *)
(* once, with the same bind address, and what becomes of the socket file.  *)
(* Every system call is a step: nothing holds the path between two of them.*)
(***************************************************************************)
EXTENDS Naturals, FiniteSets

CONSTANT Starters

VARIABLES
  pc,      \* starter -> "down", "probe", "exists", "remove", "bind", "listen",
           \*            "up" or "failed" (main's expect, the process exits)
  path,    \* the starter whose socket the file at the path is, NoFile if none
  met,     \* starter -> listeners that were up when it probed
  rivals,  \* starter -> others that ran at some time while it was binding
  crashed  \* whether any instance was ever killed

NoFile == "no file"

ASSUME NoFileIsNoStarter == NoFile \notin Starters

vars == <<pc, path, met, rivals, crashed>>

Binding(p) == pc[p] \in {"probe", "exists", "remove", "bind", "listen"}
Running(p) == Binding(p) \/ pc[p] = "up"

\* A connect reaches a listener, not a bound socket that does not listen yet,
\* nor a file left behind.
Listening == path # NoFile /\ pc[path] = "up"

TypeOK ==
  /\ pc \in [Starters -> {"down", "probe", "exists", "remove", "bind", "listen",
                          "up", "failed"}]
  /\ path \in Starters \cup {NoFile}
  /\ met \in [Starters -> SUBSET Starters]
  /\ rivals \in [Starters -> SUBSET Starters]
  /\ crashed \in BOOLEAN

\* p goes on to `next`; whoever runs by then is a rival of those that bind.
Goes(p, next) ==
  /\ pc' = [pc EXCEPT ![p] = next]
  /\ rivals' = [q \in Starters |->
                  IF ~ Binding(q)' THEN rivals[q]
                  ELSE rivals[q] \cup {r \in Starters \ {q} : Running(r)'}]

Start(p) ==
  /\ pc[p] = "down"
  /\ pc' = [pc EXCEPT ![p] = "probe"]
  /\ rivals' = [q \in Starters |->
                  IF q = p THEN {r \in Starters \ {p} : Running(r)}
                  ELSE IF Binding(q) THEN rivals[q] \cup {p} ELSE rivals[q]]
  /\ UNCHANGED <<path, met, crashed>>

\* Mutant: a bind address that exists is taken for a stale one.
ProbeOnlyLooks(p) ==
  /\ pc[p] = "probe"
  /\ met' = [met EXCEPT ![p] = {q \in Starters : pc[q] = "up"}]
  /\ Goes(p, "exists")
  /\ UNCHANGED <<path, crashed>>

\* Mutant: a starter that is refused waits instead of failing.
ProbeWaits(p) ==
  /\ pc[p] = "probe"
  /\ met' = [met EXCEPT ![p] = {q \in Starters : pc[q] = "up"}]
  /\ Goes(p, IF Listening THEN "waiting" ELSE "exists")
  /\ UNCHANGED <<path, crashed>>

\* UnixStream::connect(path).is_ok()
Probe(p) ==
  /\ pc[p] = "probe"
  /\ met' = [met EXCEPT ![p] = {q \in Starters : pc[q] = "up"}]
  /\ Goes(p, IF Listening THEN "failed" ELSE "exists")
  /\ UNCHANGED <<path, crashed>>

\* Mutant: the stale file is left where it is.
ExistsKeepsFile(p) ==
  /\ pc[p] = "exists"
  /\ Goes(p, "bind")
  /\ UNCHANGED <<path, met, crashed>>

\* path.exists()
Exists(p) ==
  /\ pc[p] = "exists"
  /\ Goes(p, IF path # NoFile THEN "remove" ELSE "bind")
  /\ UNCHANGED <<path, met, crashed>>

\* remove_file(path)?, whatever the file is by now
Remove(p) ==
  /\ pc[p] = "remove"
  /\ Goes(p, IF path = NoFile THEN "failed" ELSE "bind")
  /\ path' = NoFile
  /\ UNCHANGED <<met, crashed>>

\* Mutant: whoever fails to bind cleans the path up.
BindRemovesOnError(p) ==
  /\ pc[p] = "bind"
  /\ IF path = NoFile
       THEN Goes(p, "listen") /\ path' = p
       ELSE Goes(p, "failed") /\ path' = NoFile
  /\ UNCHANGED <<met, crashed>>

\* UnixListener::bind, its bind(2): the file is created or EADDRINUSE.
Bind(p) ==
  /\ pc[p] = "bind"
  /\ IF path = NoFile
       THEN Goes(p, "listen") /\ path' = p
       ELSE Goes(p, "failed") /\ UNCHANGED path
  /\ UNCHANGED <<met, crashed>>

\* UnixListener::bind, its listen(2); then server::run accepts.
Listen(p) ==
  /\ pc[p] = "listen"
  /\ Goes(p, "up")
  /\ UNCHANGED <<path, met, crashed>>

\* A kill: the socket closes, the file stays.
Crash(p) ==
  /\ Running(p)
  /\ pc' = [pc EXCEPT ![p] = "down"]
  /\ met' = [q \in Starters |-> IF q = p THEN {} ELSE met[q] \ {p}]
  /\ rivals' = [rivals EXCEPT ![p] = {}]
  /\ crashed' = TRUE
  /\ UNCHANGED path

\* An instance that failed to start is started again by its supervisor.
Retry(p) ==
  /\ pc[p] = "failed"
  /\ pc' = [pc EXCEPT ![p] = "down"]
  /\ met' = [met EXCEPT ![p] = {}]
  /\ rivals' = [rivals EXCEPT ![p] = {}]
  /\ UNCHANGED <<path, crashed>>

Init ==
  /\ pc = [p \in Starters |-> "down"]
  /\ path \in Starters \cup {NoFile}
  /\ met = [p \in Starters |-> {}] /\ rivals = [p \in Starters |-> {}]
  /\ crashed = FALSE

Next ==
  \E p \in Starters :
    \/ Start(p) \/ Probe(p) \/ Exists(p) \/ Remove(p) \/ Bind(p) \/ Listen(p)
    \/ Crash(p) \/ Retry(p)

Spec == Init /\ [][Next]_vars

-----------------------------------------------------------------------------
(* Properties *)

\* A starter never removes the socket of a listener that was already up when it
\* probed: only two starts that overlap can take the path from each other.
OnlyRacesSteal ==
  [][\A p, q \in Starters :
       pc[p] = "remove" /\ pc'[p] = "bind" /\ path = q /\ pc[q] = "up" => q \notin met[p]]_vars

\* The file of an instance that was killed never keeps the next one from
\* starting: a start fails only if another instance ran at the same time.
StaleFileNeverBlocks == \A p \in Starters : pc[p] = "failed" => rivals[p] # {}

\* Starters may fail each other, but not all of them: once they have settled,
\* one that failed leaves a listener behind that the path leads to.
SomebodyServes ==
  /\ ~ crashed
  /\ \E p \in Starters : pc[p] = "failed"
  /\ \A p \in Starters : ~ Binding(p)
  => Listening

\* server.rs, bind: "A *live* listener at that path is never stolen".
LiveListenerNeverStolen ==
  [][\A q \in Starters : path = q /\ pc[q] = "up" /\ pc'[q] = "up" => path' = q]_vars
=============================================================================
