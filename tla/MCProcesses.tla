---------------------------- MODULE MCProcesses ----------------------------
(* Small instances of Processes for TLC.                                   *)
EXTENDS Processes

MCThread == Pid
MCSem == {bmsem, addrLock} \cup UNION {PCBSems(p) : p \in Pid}

(* Programs named by the pages they ask for                                *)
MCOneProgram == {1}
MCPrograms == {1, 2}
MCNumPages == [f \in Program |-> f]
=============================================================================
