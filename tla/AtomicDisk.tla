----------------------------- MODULE AtomicDisk -----------------------------
(***************************************************************************)
(* What filesys/synchdisk.h promises: sectors that are read and written by *)
(* several threads, each operation taking effect at one moment between its *)
(* call and its return, which comes when "the data is actually read or     *)
(* written".                                                               *)
(***************************************************************************)
CONSTANTS Thread, Sector, Value, NULL

VARIABLES store,  \* contents of the sectors
          call,   \* thread -> "idle", "read", "write" or "done"
          sector, \* thread -> the sector of its call, or NULL
          data    \* thread -> what it writes or has read, or NULL

vars == <<store, call, sector, data>>

Init ==
  /\ store \in [Sector -> Value]
  /\ call = [t \in Thread |-> "idle"]
  /\ sector = [t \in Thread |-> NULL]
  /\ data = [t \in Thread |-> NULL]

CallRead(t, s) ==
  /\ call[t] = "idle"
  /\ call' = [call EXCEPT ![t] = "read"]
  /\ sector' = [sector EXCEPT ![t] = s]
  /\ UNCHANGED <<store, data>>

CallWrite(t, s, v) ==
  /\ call[t] = "idle"
  /\ call' = [call EXCEPT ![t] = "write"]
  /\ sector' = [sector EXCEPT ![t] = s]
  /\ data' = [data EXCEPT ![t] = v]
  /\ UNCHANGED store

Read(t) ==
  /\ call[t] = "read"
  /\ data' = [data EXCEPT ![t] = store[sector[t]]]
  /\ call' = [call EXCEPT ![t] = "done"]
  /\ UNCHANGED <<store, sector>>

Write(t) ==
  /\ call[t] = "write"
  /\ store' = [store EXCEPT ![sector[t]] = data[t]]
  /\ call' = [call EXCEPT ![t] = "done"]
  /\ UNCHANGED <<sector, data>>

Return(t) ==
  /\ call[t] = "done"
  /\ call' = [call EXCEPT ![t] = "idle"]
  /\ sector' = [sector EXCEPT ![t] = NULL]
  /\ data' = [data EXCEPT ![t] = NULL]
  /\ UNCHANGED store

Next ==
  \E t \in Thread :
    \/ \E s \in Sector : CallRead(t, s) \/ \E v \in Value : CallWrite(t, s, v)
    \/ Read(t) \/ Write(t) \/ Return(t)

Spec == Init /\ [][Next]_vars
=============================================================================
