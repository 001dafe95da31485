------------------------------- MODULE Handlers -------------------------------
(***************************************************************************)
(* What every handler of the server has in common.  A request is one call  *)
(* of a client; it takes a step for each await that touches shared state,  *)
(* keeps what it has read in its local variables, and ends with an answer. *)
(* Between two of its steps the process serves other requests.             *)
(***************************************************************************)
EXTENDS Naturals, FiniteSets

CONSTANTS
    Requests,  \* one member per call
    None       \* null, no row

VARIABLES
    pc,        \* the statement each request is at
    call,      \* what it was called with
    held,      \* what it has read
    answer

handlers == <<pc, call, held, answer>>

NoCall == [kind |-> "none"]

Handling(Labels, Calls, Answers) ==
    /\ pc \in [Requests -> {"idle", "done"} \cup Labels]
    /\ call \in [Requests -> {NoCall} \cup Calls]
    /\ answer \in [Requests -> {"none", "ok", "notFound", "forbidden", "error"} \cup Answers]

HandlersInit ==
    /\ pc = [r \in Requests |-> "idle"]
    /\ call = [r \in Requests |-> NoCall]
    /\ held = [r \in Requests |-> None]
    /\ answer = [r \in Requests |-> "none"]

Kind(r) == call[r].kind
At(label) == {r \in Requests : pc[r] = label}

\* A call arrives and its handler starts at label.
Begin(r, c, label) ==
    /\ pc[r] = "idle"
    /\ call' = [call EXCEPT ![r] = c]
    /\ pc' = [pc EXCEPT ![r] = label]
    /\ UNCHANGED <<held, answer>>

\* The next await, with what the handler has read by then.
Continue(r, label, what) ==
    /\ pc' = [pc EXCEPT ![r] = label]
    /\ held' = [held EXCEPT ![r] = what]
    /\ UNCHANGED <<call, answer>>

Goto(r, label) == Continue(r, label, held[r])

Reply(r, what) ==
    /\ pc' = [pc EXCEPT ![r] = "done"]
    /\ answer' = [answer EXCEPT ![r] = what]
    /\ UNCHANGED <<call, held>>

\* An await between two writes throws: the writes so far stay.
Fails(r) == Reply(r, "error")

=============================================================================
