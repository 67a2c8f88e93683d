-------------------------------- MODULE Walk --------------------------------
(***************************************************************************)
(* What src/flow/ promises of a customer's job, without saying how: it     *)
(* walks the graph from the entry along its edges, it is over only at a    *)
(* node with no way out, work that comes up afterwards is a job of its     *)
(* own, and a job is closed only by an answer somebody promised to ask     *)
(* for - after which nothing more is done on it.                           *)
(***************************************************************************)
EXTENDS Naturals

CONSTANTS
    Node, Entry,
    Leads            \* node -> the nodes it leads to

VARIABLES
    at,              \* the step the current job is in
    jobs,            \* how many jobs there have been; the last is the current one
    over,            \* the current job's conversation has ended
    owed,            \* jobs somebody is to be asked about
    closed           \* jobs reported done

vars == <<at, jobs, over, owed, closed>>

Init ==
    /\ at = Entry
    /\ jobs = 1
    /\ over = FALSE
    /\ owed = {} /\ closed = {}

Open == ~over /\ jobs \notin closed

Move ==
    /\ Open
    /\ at' \in Leads[at]
    /\ UNCHANGED <<jobs, over, owed, closed>>

End ==
    /\ Open
    /\ Leads[at] = {}
    /\ over' = TRUE
    /\ UNCHANGED <<at, jobs, owed, closed>>

Promise ==
    /\ Open
    /\ owed' = owed \cup {jobs}
    /\ UNCHANGED <<at, jobs, over, closed>>

ComeBack ==
    /\ over
    /\ at' = Entry /\ jobs' = jobs + 1 /\ over' = FALSE
    /\ UNCHANGED <<owed, closed>>

Close ==
    /\ closed' = owed
    /\ UNCHANGED <<at, jobs, over, owed>>

Next == Move \/ End \/ Promise \/ ComeBack \/ Close

Spec == Init /\ [][Next]_vars
=============================================================================
