-------------------------------- MODULE Hybrid --------------------------------
(***************************************************************************)
(* The life of the process: main starts the hybrid server                  *)
(* (trunk/src/main/srs_main_server.cpp, trunk/src/app/srs_app_hybrid.cpp), *)
(* which starts its timers, initializes its servers, runs them, and waits  *)
(* for their coroutines.  The wait group is local to run(): it is gone     *)
(* before main calls stop(), and also when a server fails.                 *)
(***************************************************************************)
EXTENDS WaitGroup

CONSTANTS
    Timers,    \* how many timers there are
    Servers    \* how many servers are registered

ASSUME HybridAssumption == Timers \in Nat \ {0} /\ Servers \in Nat \ {0}

VARIABLES
    stage,     \* what main is doing
    index      \* the step, timer or server it is doing it with

main == <<stage, index>>
hybridVars == <<main, vars>>

HybridInit == Init /\ stage = "threads" /\ index = 1

Fails ==
    /\ stage' = "failed"
    /\ UNCHANGED index

\* The next timer or server, or the next thing to do if this was the last one.
Advance(n, next) ==
    /\ stage' = IF index < n THEN stage ELSE next
    /\ index' = IF index < n THEN index + 1 ELSE 1

\* srs_thread_initialize starts state-threads, and does not say how it went: a
\* function without a return statement may return anything.
Undefined ==
    /\ stage' = "undefined"
    /\ UNCHANGED index
InitializeThreads ==
    /\ stage = "threads"
    /\ Advance(1, "configure") \/ Fails \/ Undefined
    /\ UNCHANGED vars

\* do_main: the options, the working directory (two steps), the log, the check of
\* the configuration.
Configure ==
    /\ stage = "configure"
    /\ Advance(5, "daemon") \/ Fails
    /\ UNCHANGED vars

\* run_directly_or_daemon: a daemon is not implemented, and returns nothing either.
RunDirectly ==
    /\ stage = "daemon"
    /\ Advance(1, "timers") \/ Undefined
    /\ UNCHANGED vars

\* initialize(): the timers are started, then the servers initialized; the circuit
\* breaker comes between that and run().
StartTimer ==
    /\ stage = "timers"
    /\ Advance(Timers, "initialize") \/ Fails
    /\ UNCHANGED vars
InitializeServer ==
    /\ stage = "initialize"
    /\ Advance(Servers, "breaker") \/ Fails
    /\ UNCHANGED vars
InitializeBreaker ==
    /\ stage = "breaker"
    /\ Advance(1, "run") \/ Fails
    /\ UNCHANGED vars

\* A server adds coroutines to the group while its run() is called, and they add
\* others.
ServerAdds(w) ==
    /\ stage = "run" \/ pc[Owner] # "start"
    /\ Add(w)
    /\ UNCHANGED main

\* run() of one server after the other; an error leaves the group behind.
RunServer ==
    /\ stage = "run"
    /\ \/ Advance(Servers, "wait") /\ UNCHANGED vars
       \/ Fails /\ Leave

\* wait(), and the destructor.
WaitForServers ==
    /\ stage \in {"wait", "failed"}
    /\ stage = "failed" => pc[Owner] = "leaving"
    /\ Wait(Owner)
    /\ UNCHANGED main

\* _srs_hybrid->stop()
Stop ==
    /\ stage = "wait" /\ pc[Owner] = "destroyed"
    /\ stage' = "stopped"
    /\ UNCHANGED <<index, vars>>

Resumes == Resume(Owner) /\ UNCHANGED main
Ends(w) == Done(w) /\ UNCHANGED main
Interrupted == Interrupt(Owner) /\ UNCHANGED main

Main ==
    \/ InitializeThreads \/ Configure \/ RunDirectly
    \/ StartTimer \/ InitializeServer \/ InitializeBreaker
    \/ RunServer \/ WaitForServers \/ Resumes \/ Stop

HybridNext ==
    \/ Main
    \/ \E w \in Workers : ServerAdds(w) \/ Ends(w)
    \/ Interrupted

\* The main coroutine is run when it can, and the coroutines of the servers end.
HybridSpec ==
    /\ HybridInit /\ [][HybridNext]_hybridVars
    /\ WF_hybridVars(Main)
    /\ \A w \in Workers : WF_hybridVars(Ends(w))

-----------------------------------------------------------------------------
\* Main comes to an end, wherever something fails and whoever is interrupted: the
\* wake-up of the last done() is not lost, also when coroutines were added while
\* main was waiting.
MainReturns ==
    <>(\/ stage \in {"stopped", "undefined"}
       \/ stage = "failed" /\ pc[Owner] \in {"start", "unwound"})
=============================================================================
