------------------------------- MODULE MCStcf -------------------------------
(* An instance of Stcf for TLC: programs that use the scheduler while      *)
(* ticks pass, programs that share address spaces, replace them and die,   *)
(* and programs that start one another with a completion time.             *)
EXTENDS Stcf

MCLoads ==
    {[calls |-> {"fork", "exit", "wait", "give_cpu", "remain", "sleep"},
      pids |-> 3, ticks |-> 2],
     [calls |-> {"fork", "clone", "exec", "exit", "wait", "kill"},
      pids |-> 4, ticks |-> 0],
     [calls |-> {"fork", "exec2", "exit", "wait"}, pids |-> 2, ticks |-> 2]}
=============================================================================
