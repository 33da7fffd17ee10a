---------------------------- MODULE SendContract ----------------------------
(***************************************************************************)
(* What the services may expect of one call of a provider's send method,   *)
(* and all that the modules of the replies and of Broadcast processing     *)
(* assume of it: the provider takes the message at most once, a result     *)
(* means that it took it, a definitive failure that it did not, and        *)
(* anything may be true of a call that is answered "unknown" or never.     *)
(***************************************************************************)
EXTENDS Integers

CONSTANTS Threads

VARIABLES
  verdict,  \* per call: "open" or how it ended
  taken     \* per call: how often the provider took its message

vars == <<verdict, taken>>
Verdicts == {"sent", "failed", "unknown", "escaped"}

Init == verdict = [p \in Threads |-> "open"] /\ taken = [p \in Threads |-> 0]

\* A verdict the caller may rely on.
Truthful(v, n) == (v = "sent" => n = 1) /\ (v = "failed" => n = 0)

\* The provider takes the message or does not; the call ends or goes on.
Step(p) ==
  /\ verdict[p] = "open"
  /\ \E n \in {taken[p], 1}, v \in Verdicts \cup {"open"} :
       /\ Truthful(v, n)
       /\ taken' = [taken EXCEPT ![p] = n]
       /\ verdict' = [verdict EXCEPT ![p] = v]

\* The process dies in several calls.
Crash(S) ==
  /\ \A p \in S : verdict[p] = "open"
  /\ verdict' = [p \in Threads |-> IF p \in S THEN "escaped" ELSE verdict[p]]
  /\ UNCHANGED taken

\* The thread's next call.
Begin(p) ==
  /\ taken' = [taken EXCEPT ![p] = 0]
  /\ verdict' = [verdict EXCEPT ![p] = "open"]

Next ==
  \/ \E p \in Threads : Step(p) \/ Begin(p)
  \/ \E S \in SUBSET Threads : Crash(S)
Spec == Init /\ [][Next]_vars
=============================================================================
