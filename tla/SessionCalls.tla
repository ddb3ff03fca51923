----------------------------- MODULE SessionCalls -----------------------------
(***************************************************************************)
(* What a Dekode session promises its callers, with no channel, thread or  *)
(* wire in sight: calls are issued one after another; the server executes  *)
(* a call at most once; a call ends at most once, either with an error or  *)
(* with the answer the server gave when it executed that very call.        *)
(* DekodeSession implements this specification (see DekodeSession's        *)
(* refinement mapping).                                                    *)
(***************************************************************************)
EXTENDS Naturals

CONSTANTS
    MaxCalls,   \* bound on the number of calls
    Answers,    \* what the server can answer
    Errors      \* what the client runtime can raise instead

VARIABLES
    n,          \* calls issued so far; call i is the i-th
    executed,   \* executed[i]: how many times the server ran call i
    answer,     \* answer[i]: the server's answer to call i, or "none"
    outcome     \* outcome[i]: how call i ended for its caller, or "pending"

Calls == 1..MaxCalls

Init ==
    /\ n = 0
    /\ executed = [i \in Calls |-> 0]
    /\ answer = [i \in Calls |-> "none"]
    /\ outcome = [i \in Calls |-> "pending"]

(* A new call is issued.                                                   *)
Issue ==
    /\ n < MaxCalls
    /\ n' = n + 1
    /\ UNCHANGED <<executed, answer, outcome>>

(* A new call is refused at once by the client, before reaching anyone.   *)
IssueRefused(e) ==
    /\ n < MaxCalls
    /\ n' = n + 1
    /\ outcome' = [outcome EXCEPT ![n + 1] = e]
    /\ UNCHANGED <<executed, answer>>

(* The server runs call i, once.                                           *)
Execute(i, a) ==
    /\ i <= n
    /\ executed[i] = 0
    /\ executed' = [executed EXCEPT ![i] = 1]
    /\ answer' = [answer EXCEPT ![i] = a]
    /\ UNCHANGED <<n, outcome>>

(* Call i ends: with an error at any time, with an answer only the one    *)
(* the server gave it.                                                     *)
Complete(i, o) ==
    /\ i <= n
    /\ outcome[i] = "pending"
    /\ o \in Errors \/ (executed[i] = 1 /\ o = answer[i])
    /\ outcome' = [outcome EXCEPT ![i] = o]
    /\ UNCHANGED <<n, executed, answer>>

Next ==
    \/ Issue
    \/ \E e \in Errors : IssueRefused(e)
    \/ \E i \in Calls : \/ \E a \in Answers : Execute(i, a)
                        \/ \E o \in Answers \cup Errors : Complete(i, o)

Spec == Init /\ [][Next]_<<n, executed, answer, outcome>>

=============================================================================
