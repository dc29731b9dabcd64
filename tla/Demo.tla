-------------------------------- MODULE Demo --------------------------------
(***************************************************************************)
(* server/demo.py beside the rest of the application: compare() runs the   *)
(* sessions of the first two models from a pool of two threads of its own, *)
(* bypassing the batchers.  A call that has waited 15 s gives up and its   *)
(* jobs stay where they are, in the pool's queue or on a thread.           *)
(***************************************************************************)
EXTENDS Application, FiniteSets

CONSTANT Calls      \* calls of compare() with a text; gradio runs them in threads

VARIABLES
    call,       \* where each call is
    jobs,       \* the pool's queue of <<call, side>>, not taken by a thread
    running,    \* jobs on a thread
    result,     \* the future of each job: <<>> until it is done
    panels,     \* of each call: what it shows, so far as it has it
    closing     \* the interpreter shuts down: no pool takes a job any more

calls    == <<call, panels>>
pool     == <<jobs, running, result>>
demoVars == <<calls, pool, closing>>
vars     == <<appVars, demoVars>>

Left  == 1
Right == 2
PoolSize == 2

\* What a job computes: the prediction of a model for the text of a call.
Prediction(side, c) == <<registry[side].name, c>>
Error == <<"error">>

DemoInit ==
    /\ Init
    /\ call = [c \in Calls |-> "idle"]
    /\ jobs = <<>> /\ running = {}
    /\ result = [j \in Calls \X {Left, Right} |-> <<>>]
    /\ panels = [c \in Calls |-> <<>>]
    /\ closing = FALSE

-----------------------------------------------------------------------------
(* The pool.                                                               *)

TakeJob ==
    /\ jobs # <<>> /\ Cardinality(running) < PoolSize
    /\ running' = running \cup {Head(jobs)}
    /\ jobs' = Tail(jobs)
    /\ UNCHANGED <<appVars, calls, result, closing>>

\* Mutant: the futures are kept per side, so that the last job to end is the
\* result of whatever call is waiting.
JobOkShared(j) ==
    /\ j \in running
    /\ running' = running \ {j}
    /\ result' = [i \in DOMAIN result |->
                    IF i[2] = j[2] /\ result[i] = <<>> THEN Prediction(j[2], j[1])
                    ELSE result[i]]
    /\ UNCHANGED <<appVars, calls, jobs, closing>>

\* _run_one returns; one whose model cannot run does not.
JobOk(j) ==
    /\ j \in running
    /\ registry[j[2]].fault = "none"
    /\ running' = running \ {j}
    /\ result' = [result EXCEPT ![j] = Prediction(j[2], j[1])]
    /\ UNCHANGED <<appVars, calls, jobs, closing>>

\* Mutant: an exception in the thread does not reach the future.
JobFailsQuiet(j) ==
    /\ j \in running
    /\ running' = running \ {j}
    /\ UNCHANGED <<appVars, calls, jobs, result, closing>>

\* runner.run raises: the future carries the exception.
JobFails(j) ==
    /\ j \in running
    /\ running' = running \ {j}
    /\ result' = [result EXCEPT ![j] = Error]
    /\ UNCHANGED <<appVars, calls, jobs, closing>>

-----------------------------------------------------------------------------
(* compare().                                                              *)

\* entries = registry.all()
Compare(c) ==
    /\ phase \in {"serve", "stopping"} /\ call[c] = "idle"
    /\ call' = [call EXCEPT ![c] = IF Len(registry) < 2 THEN "refused" ELSE "entered"]
    /\ UNCHANGED <<appVars, panels, pool, closing>>

\* The call moves on with these panels in hand.
Moves(c, to, shown) ==
    /\ call' = [call EXCEPT ![c] = to]
    /\ panels' = [panels EXCEPT ![c] = shown]
    /\ UNCHANGED <<appVars, pool, closing>>

Panel(side, body) == <<registry[side].name, body>>

\* The except branch: an error under both names.
Fails(c) == Moves(c, "answered", <<Panel(Left, Error), Panel(Right, Error)>>)

\* pool.submit; other calls' may come between the two.  It raises once the
\* interpreter shuts down.
Submit(c, side, from, to) ==
    /\ call[c] = from
    /\ \/ ~closing
          /\ call' = [call EXCEPT ![c] = to]
          /\ jobs' = Append(jobs, <<c, side>>)
          /\ UNCHANGED <<appVars, panels, running, result, closing>>
       \/ closing /\ Fails(c)

SubmitLeft(c)  == Submit(c, Left, "entered", "submit")
SubmitRight(c) == Submit(c, Right, "submit", "left")

Done(j) == result[j] \notin {<<>>, Error}

\* future.result(timeout=15) of the left panel, then of the right one.
LeftReady(c) ==
    /\ call[c] = "left" /\ Done(<<c, Left>>)
    /\ Moves(c, "right", <<Panel(Left, result[<<c, Left>>])>>)

RightReady(c) ==
    /\ call[c] = "right" /\ Done(<<c, Right>>)
    /\ Moves(c, "answered", Append(panels[c], Panel(Right, result[<<c, Right>>])))

Awaits(c, side) == call[c] = IF side = Left THEN "left" ELSE "right"

\* Either result raises.
Raised(c) ==
    \E side \in {Left, Right} :
        Awaits(c, side) /\ result[<<c, side>>] = Error /\ Fails(c)

\* result() raises TimeoutError; the job is not cancelled.
Expire(c) ==
    \E side \in {Left, Right} :
        Awaits(c, side) /\ result[<<c, side>>] = <<>> /\ Fails(c)

Resume(c) ==
    SubmitLeft(c) \/ SubmitRight(c) \/ LeftReady(c) \/ RightReady(c) \/ Raised(c)

-----------------------------------------------------------------------------
(* The end of the process.                                                 *)

InFlight(c) == call[c] \in {"entered", "submit", "left", "right"}

\* The main thread is over, and with it the event loop and its executor.
Close ==
    /\ ~closing /\ phase \in {"down", "failed"}
    /\ \A b \in DOMAIN batchers : ~batchers[b].busy
    /\ closing' = TRUE
    /\ UNCHANGED <<appVars, calls, pool>>

\* The interpreter joins the pool's threads, which empty its queue first, and
\* then the threads that the calls run in.
LastExit ==
    /\ closing /\ jobs = <<>> /\ running = {} /\ \A c \in Calls : ~InFlight(c)
    /\ Exit /\ UNCHANGED demoVars

Work == \E j \in Calls \X {Left, Right} : JobOk(j) \/ JobFails(j)

DemoNext ==
    \/ Run /\ UNCHANGED demoVars
    \/ Close \/ LastExit
    \/ \E c \in Calls : Compare(c) \/ Resume(c) \/ Expire(c)
    \/ TakeJob \/ Work

DemoSpec == DemoInit /\ [][DemoNext]_vars

MaxModels == IF Configs = {} THEN 0 ELSE
    CHOOSE n \in {Len(c.specs) : c \in Configs} :
        \A c \in Configs : Len(c.specs) <= n

Continue(b) == b \in DOMAIN batchers /\ RunEnds(b) /\ UNCHANGED demoVars
Joined(b)   == b \in DOMAIN batchers /\ BatcherStopped(b) /\ UNCHANGED demoVars

\* The event loop and the threads run, and a run of a session ends.  Nobody
\* has to call, no timer to fire, the server need not be stopped.
Fairness ==
    /\ \A b \in 1..MaxModels : WF_vars(Continue(b)) /\ WF_vars(Joined(b))
    /\ WF_vars(ControllerStopped /\ UNCHANGED demoVars)
    /\ WF_vars(Close) /\ WF_vars(LastExit)
    /\ WF_vars(TakeJob)
    /\ \A j \in Calls \X {Left, Right} : WF_vars(JobOk(j) \/ JobFails(j))
    /\ \A c \in Calls : WF_vars(Resume(c))

FairSpec == DemoSpec /\ Fairness

-----------------------------------------------------------------------------
(* Properties.                                                             *)

\* Two panels under the names of the first two models of server.yaml.
Panels(left, right) ==
    <<<<ModelSpecs[Left].name, left>>, <<ModelSpecs[Right].name, right>>>>

\* compare() returns the predictions of the first two models of server.yaml,
\* each by the model it is titled with and of the call's own text, or an error
\* under both names: never one panel of each, whichever of its steps failed
\* and whatever jobs earlier calls left in the pool (demo.py:134-148).
PanelsMatch ==
    \A c \in Calls : call[c] = "answered" =>
        panels[c] \in {Panels(Error, Error),
                       Panels(<<ModelSpecs[Left].name, c>>, <<ModelSpecs[Right].name, c>>)}

\* Every compare returns in the end though none of its timers fires, whatever
\* jobs earlier calls left behind, and before the process ends: a call between
\* its two submits when the interpreter shuts down is answered with the error.
CompareAnswered == <>[](\A c \in Calls : ~InFlight(c))

\* A shutdown ends, with batches in flight, a swallowed cancel, and calls and
\* jobs of the demo, which the lifespan knows nothing of: the process does not
\* stay in it, but exits.
ShutdownCompletes == <>[](phase \notin {"stopping", "down"})
=============================================================================
