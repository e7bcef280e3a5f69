---------------------------- MODULE MCTableTasks ----------------------------
(* Two table_t of one name, three task handles and two worker threads.     *)
EXTENDS TableTasks, TLC

CONSTANTS t1, t2, k1, k2, k3, k4
=============================================================================
