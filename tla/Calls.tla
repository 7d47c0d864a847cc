------------------------------- MODULE Calls -------------------------------
(***************************************************************************)
(* The requests in flight at the server, each served by a goroutine that   *)
(* is cut at its round trips to the stores. call[r].at names the round     *)
(* trip r makes next, the other fields keep what it has read. A caller     *)
(* makes one call; as it may be any call of any client, several callers    *)
(* stand for the calls of one client in a row as well as for calls that    *)
(* overlap.                                                                *)
(***************************************************************************)
EXTENDS FiniteSets

CONSTANT Caller

ASSUME CallerAssumption == IsFiniteSet(Caller)

VARIABLE call

Fresh == [at |-> "new"]
Done  == [at |-> "done"]

CallInit == call = [r \in Caller |-> Fresh]

At(r, label)   == call[r].at = label
Goto(r, label) == call' = [call EXCEPT ![r].at = label]
Enter(r, rec)  == call' = [call EXCEPT ![r] = rec]
Return(r)      == Enter(r, Done)
=============================================================================
