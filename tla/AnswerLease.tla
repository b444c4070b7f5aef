---------------------------- MODULE AnswerLease ----------------------------
(***************************************************************************)
(* What the XDP fast path promises its clients, whatever its locks, maps   *)
(* and restarts: an answer the handler has sent may be repeated for the    *)
(* lifetime it was given and no longer, and may be forgotten at any time.  *)
(* A run that has begun to repeat an answer may end after the lease does,  *)
(* and one whose memory is reused meanwhile is torn: nothing is promised   *)
(* of its reply.  XdpCache implements it.                                  *)
(***************************************************************************)
EXTENDS Integers

CONSTANTS
    Key,            \* questions
    Answer,         \* answers that may be repeated
    LifetimeOf(_),  \* for how long
    ReplyOf(_, _),  \* the reply to a question that repeats an answer
    Silence,        \* no reply
    Torn            \* a reply nothing is promised of

VARIABLES
    leases,   \* answers that may be repeated, each with the time left
    run,      \* the reply under way
    reply     \* the reply sent by the last step

Init == leases = {} /\ run = Silence /\ reply = Silence

\* An answer is handed to the fast path.
Grant ==
    /\ \E l \in leases' :
        /\ l.key \in Key /\ l.answer \in Answer /\ l.left = LifetimeOf(l.answer)
        /\ leases' = leases \cup {l}
    /\ reply' = Silence
    /\ UNCHANGED run

\* Time passes, for every lease.
Pass ==
    /\ leases' = {[l EXCEPT !.left = @ - 1] : l \in {m \in leases : m.left > 1}}
    /\ reply' = Silence
    /\ UNCHANGED run

\* A full map, a newer answer, a failed insert or a restart ends leases early; so does
\* giving up a run.
Forget ==
    /\ leases' \subseteq leases
    /\ run' \in {run, Silence}
    /\ reply' = Silence

\* An answer is written over the one a run reads.
Tear == leases' \subseteq leases /\ run' = Torn /\ reply' = Silence

\* A run begins to repeat an answer, to its own question and while its lease lasts.
Begin ==
    /\ \E l \in leases : run' = ReplyOf(l.key, l.answer)
    /\ leases' \subseteq leases
    /\ reply' = Silence

\* The reply is sent.
Serve ==
    /\ run # Silence
    /\ reply' = run
    /\ run' = Silence
    /\ UNCHANGED leases

Next == Forget \/ Tear \/ Begin \/ Serve \/ Grant \/ Pass

Spec == Init /\ [][Next]_<<leases, run, reply>>
=============================================================================
