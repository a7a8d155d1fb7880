------------------------------ MODULE Sectors ------------------------------
(***************************************************************************)
(* What filesys/synchdisk.h promises to threads: sectors that are read and *)
(* written whole, one request at a time, by calls that "return only after  *)
(* the data has been read" or written (synchdisk.cc:50, 68).               *)
(***************************************************************************)
CONSTANTS Thread, Requests, Contents

VARIABLES
  contents,     (* of the sectors                                          *)
  req,          (* what each thread asked for last; a read leaves in its   *)
                (* data what it found                                      *)
  phase         (* of the call of each thread                              *)

sectorVars == <<contents, req, phase>>

Init ==
  /\ contents \in Contents
  /\ req \in [Thread -> Requests]
  /\ phase = [t \in Thread |-> "none"]

Call(t, r) ==
  /\ phase[t] = "none"
  /\ phase' = [phase EXCEPT ![t] = "called"]
  /\ req' = [req EXCEPT ![t] = r]
  /\ UNCHANGED contents

(* The disk starts on the request of t, which nobody else's is under way   *)
Start(t) ==
  /\ phase[t] = "called"
  /\ \A u \in Thread : phase[u] # "started"
  /\ phase' = [phase EXCEPT ![t] = "started"]
  /\ IF req[t].write
     THEN /\ contents' = [contents EXCEPT ![req[t].sector] = req[t].data]
          /\ UNCHANGED req
     ELSE /\ req' = [req EXCEPT ![t].data = contents[req[t].sector]]
          /\ UNCHANGED contents

(* The disk is done with it.                                               *)
Complete(t) ==
  /\ phase[t] = "started"
  /\ phase' = [phase EXCEPT ![t] = "complete"]
  /\ UNCHANGED <<contents, req>>

Return(t) ==
  /\ phase[t] = "complete"
  /\ phase' = [phase EXCEPT ![t] = "none"]
  /\ UNCHANGED <<contents, req>>

Next ==
  \E t \in Thread : \/ \E r \in Requests : Call(t, r)
                    \/ Start(t)
                    \/ Complete(t)
                    \/ Return(t)

Spec == Init /\ [][Next]_sectorVars
=============================================================================
