---------------------------- MODULE TaskContract ----------------------------
(***************************************************************************)
(* What the engine promises of a provisioning task, whatever the number of *)
(* HTTP handlers running at once: a serial number has at most one open     *)
(* task; a task gets an id above every earlier one; it ends exactly once,  *)
(* because an operator cancelled it, because a later push replaced it, or  *)
(* because an installation of its machine was put on record first.         *)
(***************************************************************************)
EXTENDS Integers

CONSTANT SNs            \* serial numbers of machines

VARIABLES
    open,               \* open[s]: the id of the open task of s, 0 when none
    last,               \* the highest id handed out so far
    ended,              \* the tasks that ended: [id, sn, how]
    installed           \* serial numbers with an installation on record

cvars == <<open, last, ended, installed>>

Ends == {"cancelled", "replaced", "completed"}

Ending(s, how) == [id |-> open[s], sn |-> s, how |-> how]

CInit ==
    /\ open = [s \in SNs |-> 0]
    /\ last = 0
    /\ ended = {}
    /\ installed = {}

Open(s) ==
    /\ open[s] = 0
    /\ last' = last + 1
    /\ open' = [open EXCEPT ![s] = last + 1]
    /\ UNCHANGED <<ended, installed>>

(* A push opens a task for every machine of S, under ids above every id    *)
(* handed out before it, in place of the tasks those machines had.         *)
Push(S) ==
    /\ last' \in Nat
    /\ open' = [s \in SNs |-> IF s \in S THEN open'[s] ELSE open[s]]
    /\ \A s \in S : last < open'[s] /\ open'[s] <= last'
    /\ \A s, t \in S : open'[s] = open'[t] => s = t
    /\ ended' = ended \cup {Ending(s, "replaced") : s \in {t \in S : open[t] # 0}}
    /\ UNCHANGED installed

Cancel(s) ==
    /\ open[s] # 0
    /\ open' = [open EXCEPT ![s] = 0]
    /\ ended' = ended \cup {Ending(s, "cancelled")}
    /\ UNCHANGED <<last, installed>>

Record(s) ==
    /\ installed' = installed \cup {s}
    /\ UNCHANGED <<open, last, ended>>

(* The promise in one guard: no task is completed off the record.          *)
Complete(s) ==
    /\ open[s] # 0
    /\ s \in installed
    /\ open' = [open EXCEPT ![s] = 0]
    /\ ended' = ended \cup {Ending(s, "completed")}
    /\ UNCHANGED <<last, installed>>

CNext ==
    \/ \E s \in SNs : Open(s) \/ Cancel(s) \/ Record(s) \/ Complete(s)
    \/ \E S \in (SUBSET SNs) \ {{}} : Push(S)

CSpec == CInit /\ [][CNext]_cvars
=============================================================================
