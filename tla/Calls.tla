------------------------------- MODULE Calls --------------------------------
(***************************************************************************)
(* What a connection promises for the calls of its client, without HTTP/2: *)
(* a call is open until it is complete or dropped, and a complete call is  *)
(* processed once.                                                         *)
(***************************************************************************)
CONSTANT Streams

VARIABLE call   \* call[s]: how far the call on stream s has come

\* The call on s, and no other, gets to state v.  (The first conjunct follows
\* from the second and spares TLC most evaluations of it.)
Becomes(s, v) == call'[s] = v /\ call' = [call EXCEPT ![s] = v]

CallsInit == call = [s \in Streams |-> "open"]

\* The last frame of the call arrives.
Finish(s) ==
  /\ call[s] = "open"
  /\ Becomes(s, "complete")

\* The client resets the call, or it is refused, before it is complete.
Drop(s) ==
  /\ call[s] = "open"
  /\ Becomes(s, "dropped")

\* process() gets the request, and its response goes to the session.
Process(s) ==
  /\ call[s] = "complete"
  /\ Becomes(s, "processed")

CallsNext == \E s \in Streams : Finish(s) \/ Drop(s) \/ Process(s)

CallsSpec == CallsInit /\ [][CallsNext]_call
=============================================================================
