------------------------------- MODULE Server -------------------------------
(***************************************************************************)
(* The processes that serve the requests: app.js starts one, pm2 runs one  *)
(* or several of them and replaces those that end.  A signal makes a       *)
(* process close its server: it accepts no connection any more, goes on    *)
(* with the connections it has, and exits when the last of them has ended. *)
(* pm2 and the operating system may end a process without waiting.         *)
(*                                                                         *)
(* A connection is known by the last request that was made over it.  Each  *)
(* member of Proc is one run of the program, so that a restart is another  *)
(* member; all of them work on the same Manta, which is Bridge's.          *)
(***************************************************************************)
EXTENDS Bridge

CONSTANT Proc    \* the runs of the program

ASSUME ProcAssumption == Nobody \notin Proc

VARIABLES proc,   \* what has become of each process
          at,     \* the process that serves each request
          open,   \* the requests whose connection is open, the last made over it
          left    \* history: the requests whose connection ended unanswered

processes == <<proc, at, open, left>>

serverVars == <<vars, processes>>

Running(p)   == proc[p] \in {"up", "closing"}
ServedBy(p)  == {r \in Req : at[r] = p}
Unfinished(p) == {r \in ServedBy(p) : Busy(r)}

ServerInit ==
    /\ Init
    /\ proc = [p \in Proc |-> "off"]
    /\ at = [r \in Req |-> Nobody]
    /\ open = {}
    /\ left = {}

\* run: the server is created and listens.
Launch(p) ==
    /\ proc[p] = "off"
    /\ proc' = [proc EXCEPT ![p] = "up"]
    /\ UNCHANGED <<vars, at, open, left>>

\* A request over a new connection, which only a listening server accepts.
Connect(r, q, p) ==
    /\ proc[p] = "up"
    /\ Arrive(r, q)
    /\ at' = [at EXCEPT ![r] = p]
    /\ open' = open \cup {r}
    /\ UNCHANGED <<proc, left>>

\* The next request over a connection that is kept alive, also while closing.
Reuse(r, q, s) ==
    /\ s \in open /\ Answered(s)
    /\ Arrive(r, q)
    /\ at' = [at EXCEPT ![r] = at[s]]
    /\ open' = (open \ {s}) \cup {r}
    /\ UNCHANGED <<proc, left>>

\* A connection ends: the client leaves, or it was idle for node's time-out.
\* The handler does not notice.
Disconnect(r) ==
    /\ r \in open
    /\ open' = open \ {r}
    /\ left' = IF Answered(r) THEN left ELSE left \cup {r}
    /\ UNCHANGED <<vars, proc, at>>

\* A mistake to be caught: the open connections are closed with the server.
ShutdownHangsUp(p) ==
    /\ proc[p] = "up"
    /\ proc' = [proc EXCEPT ![p] = "closing"]
    /\ open' = open \ ServedBy(p)
    /\ UNCHANGED <<vars, at, left>>

\* SIGTERM, SIGINT or the first SIGUSR2.  Another one changes nothing.
Shutdown(p) ==
    /\ proc[p] = "up"
    /\ proc' = [proc EXCEPT ![p] = "closing"]
    /\ UNCHANGED <<vars, at, open, left>>

\* The requests p has not finished lose their process.
Abandon(p) ==
    IF Unfinished(p) = {} THEN UNCHANGED vars ELSE ProcessExits(Unfinished(p))

\* A mistake to be caught: the exit waits for answers, not for connections.
ExitWhenAnswered(p) ==
    /\ proc[p] = "closing"
    /\ \A r \in ServedBy(p) : Answered(r)
    /\ proc' = [proc EXCEPT ![p] = "exited"]
    /\ open' = open \ ServedBy(p)
    /\ Abandon(p)
    /\ UNCHANGED <<at, left>>

\* A mistake to be caught: exit in the handler of the signal, without waiting.
ExitAtOnce(p) ==
    /\ proc[p] = "closing"
    /\ proc' = [proc EXCEPT ![p] = "exited"]
    /\ open' = open \ ServedBy(p)
    /\ Abandon(p)
    /\ UNCHANGED <<at, left>>

\* The callback of server.close, which runs when every connection has ended:
\* the Manta client is closed and the process exits.
Exit(p) ==
    /\ proc[p] = "closing"
    /\ ServedBy(p) \cap open = {}
    /\ proc' = [proc EXCEPT ![p] = "exited"]
    /\ Abandon(p)
    /\ UNCHANGED <<at, open, left>>

\* The end without a word: a crash, the time-out of pm2, a second SIGUSR2.
Kill(p) ==
    /\ Running(p)
    /\ proc' = [proc EXCEPT ![p] = "killed"]
    /\ open' = open \ ServedBy(p)
    /\ Abandon(p)
    /\ UNCHANGED <<at, left>>

\* The steps of the handlers and of Manta.
Work(r) ==
    /\ Serve(r) \/ RunCallback(r) \/ LoseConnection(r)
    /\ UNCHANGED processes

\* Nothing is left to do, or no run of the program is left to do it.
Rest ==
    /\ calls = {} /\ replies = {}
    /\ (\A r \in Req : Asked(r)) \/ (\A p \in Proc : proc[p] \in {"exited", "killed"})
    /\ UNCHANGED serverVars

ServerNext ==
    \/ \E p \in Proc :
          \/ Launch(p) \/ Shutdown(p) \/ Exit(p) \/ Kill(p)
          \/ \E r \in Req, q \in Menu : Connect(r, q, p)
    \/ \E r \in Req :
          \/ \E q \in Menu, s \in Req : Reuse(r, q, s)
          \/ Disconnect(r)
          \/ Work(r)
    \/ Rest

ServerSpec == ServerInit /\ [][ServerNext]_serverVars

\* As in Bridge; besides, no connection stays open for ever, since node ends
\* the idle ones, and the event loop runs the callback of server.close.
ServerFairness ==
    /\ \A r \in Req :
          /\ WF_serverVars(Serve(r) /\ UNCHANGED processes)
          /\ WF_serverVars(RunCallback(r) /\ UNCHANGED processes)
          /\ WF_serverVars(Disconnect(r))
    /\ \A p \in Proc : WF_serverVars(Exit(p))

FairServerSpec == ServerSpec /\ ServerFairness

----------------------------------------------------------------------------
(* Properties. *)

\* The type of the variables of the processes.
ServerTypeOK ==
    /\ proc \in [Proc -> {"off", "up", "closing", "exited", "killed"}]
    /\ at \in [Req -> Proc \cup {Nobody}]
    /\ open \subseteq Req
    /\ left \subseteq Req

\* A request that a running process has accepted keeps its connection until it
\* is answered or its client gives up.
NobodyIsHungUpOn ==
    \A r \in Req :
        at[r] # Nobody /\ Running(at[r]) => r \in open \/ Answered(r) \/ r \in left

\* The inductive invariant: besides, only a process that was started serves.
ServerInv ==
    /\ ServerTypeOK
    /\ NobodyIsHungUpOn
    /\ \A r \in Req : at[r] # Nobody => proc[at[r]] # "off"

\* The exit after a signal, which closes the Manta client, cuts no change to the
\* tree short that a client waits for or was told of.  What is left under way
\* are the two of AnswerIsFinal.
ExitCutsNothing ==
    [][\A p \in Proc, c \in calls :
          /\ proc[p] = "closing" /\ proc'[p] = "exited"
          /\ at[c.req] = p /\ c.fn \in Changing /\ c.cb # Nobody
          => c.req \in left \/ request[c.req].op \in {"removeBucket", "copyObject"}]_serverVars

\* A signal that asks a process to end makes it end: no connection and no
\* handler holds it for ever.
ShutdownEnds == \A p \in Proc : proc[p] = "closing" ~> proc[p] \in {"exited", "killed"}

=============================================================================
