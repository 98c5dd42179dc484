--------------------------- MODULE SnapshotBatch ---------------------------
(***************************************************************************)
(* What the deferred commits of kvcomm_engine.py promise a request, with   *)
(* no lazily filled copies in sight. Requests that overlap in time form a  *)
(* batch. A request works on a snapshot of the whole store, taken when it  *)
(* joins, and never sees what the others do. The store changes at once,    *)
(* when the last request of the batch leaves: for each slot, the request   *)
(* that left last among those that used the slot decides its content.      *)
(*                                                                         *)
(* RequestCommit implements this specification.                            *)
(***************************************************************************)
EXTENDS Sequences, Integers

CONSTANTS Clients, Slots, InitialStore, NoView

VARIABLES store,  \* the content of every slot
          open,   \* the requests of the running batch that have not left
          view,   \* each open request's snapshot, with its own changes
          used,   \* the slots each open request has used
          left    \* what the requests that left want the slots to be

vars == <<store, open, view, used, left>>

Init ==
    /\ store = InitialStore
    /\ open = {}
    /\ view = [c \in Clients |-> NoView]
    /\ used = [c \in Clients |-> {}]
    /\ left = <<>>

\* A client joins if need be and uses some slots: it may change those, in its
\* own view only.
Use(c) ==
    LET before == IF c \in open THEN view[c] ELSE store
    IN  /\ open' = open \cup {c}
        /\ used[c] \subseteq used'[c]
        /\ used'[c] \subseteq Slots
        /\ used' = [used EXCEPT ![c] = used'[c]]
        /\ \A s \in Slots \ used'[c] : view'[c][s] = before[s]
        /\ view' = [view EXCEPT ![c] = view'[c]]
        /\ UNCHANGED <<store, left>>

LastUser(q, i, s) == s \in q[i].used /\ \A j \in (i + 1)..Len(q) : s \notin q[j].used

Merged(st, q) ==
    [s \in Slots |->
        IF \E i \in 1..Len(q) : LastUser(q, i, s)
        THEN q[CHOOSE i \in 1..Len(q) : LastUser(q, i, s)].view[s]
        ELSE st[s]]

Leave(c) ==
    LET q == Append(left, [view |-> view[c], used |-> used[c]])
    IN  /\ c \in open
        /\ open' = open \ {c}
        /\ view' = [view EXCEPT ![c] = NoView]
        /\ used' = [used EXCEPT ![c] = {}]
        /\ \/ open' = {} /\ store' = Merged(store, q) /\ left' = <<>>
           \/ open' # {} /\ store' = store /\ left' = q

Next == \E c \in Clients : Use(c) \/ Leave(c)

Spec == Init /\ [][Next]_vars

=============================================================================
