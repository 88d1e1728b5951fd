------------------------------ MODULE MCRunners ------------------------------
(***************************************************************************)
(* The two programs that run children, each with children of its own kind: *)
(* a behaviour is one of the MCP server or one of the PDF runner.          *)
(***************************************************************************)
EXTENDS McpServer, PdfRunner

VARIABLE parent     \* whose child it is

all == <<childVars, serverVars, runnerVars, parent>>

Init == parent \in {"server", "runner"} /\ NoChild /\ ServerInit /\ RunnerInit

Next ==
    /\ \/ parent = "server" /\ ServerNext /\ UNCHANGED runnerVars
       \/ parent = "runner" /\ RunnerNext /\ UNCHANGED serverVars
    /\ UNCHANGED parent

\* The threads and tasks of the parents are scheduled; nothing is assumed of the
\* children, of the clocks, or of the requests.
Server(A) == parent = "server" /\ A /\ UNCHANGED <<runnerVars, parent>>
Runner(A) == parent = "runner" /\ A /\ UNCHANGED <<serverVars, parent>>

Spec ==
    /\ Init /\ [][Next]_all
    /\ WF_all(Server(ServerWorks))
    /\ WF_all(Runner(Drain)) /\ WF_all(Runner(Poll)) /\ WF_all(Runner(Join))

\* Both parents read what their children write while they wait for them: a child
\* that finds a pipe full gets on, however long the timeout (Command::output; the
\* drain threads).  The start-up probe of the server does not read and is left out.
NobodyIsStuckOnAPipe ==
    [](~expired /\ ~late) =>
        [](Blocked /\ (phase = "running" \/ step = "polling") => <>~Blocked)
=============================================================================
