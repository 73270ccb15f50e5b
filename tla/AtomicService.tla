--------------------------- MODULE AtomicService ---------------------------
(***************************************************************************)
(* What a clerk of src/src/kvraft or src/src/shardmaster is promised: one  *)
(* copy of the service's state, on which every operation takes effect once *)
(* and at a moment between the call and the return of the clerk's method,  *)
(* however many servers, retries and crashes are behind it.                *)
(***************************************************************************)
EXTENDS Integers, Sequences

CONSTANTS
    Client,
    NoOp,
    IsRead(_),    \* whether an operation only reads
    Answer(_, _)  \* what a read returns after a sequence of writes

VARIABLES
    done,   \* the writes in the order in which they took effect
    pend,   \* pend[c]: the operation of clerk c, with how many writes were done
            \*   when it began and whether it is done itself; or NoOp
    reply   \* reply[c]: what c was told last

vars == <<done, pend, reply>>

Invoke(c) ==
    /\ pend[c] = NoOp /\ pend'[c] # NoOp
    /\ pend' = [pend EXCEPT ![c] = pend'[c]]
    /\ pend'[c].born = Len(done) /\ ~pend'[c].taken
    /\ UNCHANGED <<done, reply>>

\* A write takes effect, once, while its clerk waits.
Take(c) ==
    /\ pend[c] # NoOp
    /\ ~IsRead(pend[c].op) /\ ~pend[c].taken
    /\ done' = Append(done, pend[c].op)
    /\ pend' = [pend EXCEPT ![c].taken = TRUE]
    /\ UNCHANGED reply

\* A write returns when it has taken effect, a read with what it finds in a
\* state the service has been in since the read began.
Return(c) ==
    /\ pend[c] # NoOp /\ pend'[c] = NoOp
    /\ IF IsRead(pend[c].op)
       THEN \E n \in pend[c].born..Len(done) :
               reply'[c] = Answer(SubSeq(done, 1, n), pend[c].op)
       ELSE pend[c].taken
    /\ pend' = [pend EXCEPT ![c] = NoOp]
    /\ reply' = [reply EXCEPT ![c] = reply'[c]]
    /\ UNCHANGED done

Init ==
    /\ done = <<>>
    /\ pend = [c \in Client |-> NoOp]
    /\ reply = [c \in Client |-> NoOp]

Next == \E c \in Client : Invoke(c) \/ Take(c) \/ Return(c)

Spec == Init /\ [][Next]_vars
=============================================================================
