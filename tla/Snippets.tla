------------------------------ MODULE Snippets ------------------------------
(***************************************************************************)
(* What the Lua console promises about the snippets that clients ask it to *)
(* execute in DCS: one at a time, each at most once, and the answer a      *)
(* client gets is that to its own snippet.  A snippet that is refused is   *)
(* never executed; one that is executed may never be answered, and then no *)
(* other is executed.                                                      *)
(***************************************************************************)
CONSTANTS
    Request,
    NoAnswer,    \* yet
    Refused

VARIABLES
    executed,    \* requests whose snippet has been executed
    answer       \* [Request -> Request \cup {NoAnswer, Refused}]

Init ==
    /\ executed = {}
    /\ answer = [r \in Request |-> NoAnswer]

Execute(r) ==
    /\ r \notin executed /\ answer[r] = NoAnswer
    /\ \A q \in executed : answer[q] = q
    /\ executed' = executed \cup {r}
    /\ UNCHANGED answer

Answer(r) ==
    /\ r \in executed /\ answer[r] = NoAnswer
    /\ answer' = [answer EXCEPT ![r] = r]
    /\ UNCHANGED executed

Refuse(r) ==
    /\ r \notin executed /\ answer[r] = NoAnswer
    /\ answer' = [answer EXCEPT ![r] = Refused]
    /\ UNCHANGED executed

Next == \E r \in Request : Execute(r) \/ Answer(r) \/ Refuse(r)

Spec == Init /\ [][Next]_<<executed, answer>>
=============================================================================
