--------------------------- MODULE MessageChannel ---------------------------
(***************************************************************************)
(* What the pipes promise to the threads that send and to the modules that *)
(* receive, without locks, notifications or threads.                       *)
(*                                                                         *)
(* A pipe is open from open_pipe() until close(). While it is open, a      *)
(* message that is accepted stays in order behind those accepted before    *)
(* it, until it is delivered; only the oldest one may be given up for a    *)
(* new one, and only if it is not BLOCKING. close() leaves nothing behind: *)
(* requests are answered, everything else is dropped. A message has one    *)
(* fate, once.                                                             *)
(***************************************************************************)
EXTENDS Sequences

CONSTANTS Pipe, Message, Blocking(_), Request(_)

VARIABLES
    open,           \* the pipes that accept messages
    pending,        \* the messages accepted by each pipe, oldest first
    delivered,      \* the messages the receiver has taken
    answered,       \* the requests answered with NoSuchService
    dropped         \* the messages given up for a newer one, or by close()

vars == <<open, pending, delivered, answered, dropped>>

Pending(p) == {pending[p][i] : i \in DOMAIN pending[p]}
Settled    == delivered \cup answered \cup dropped
Known      == Settled \cup UNION {Pending(p) : p \in Pipe}

Init ==
    /\ open = {}
    /\ pending = [p \in Pipe |-> <<>>]
    /\ delivered = {} /\ answered = {} /\ dropped = {}

Open(p) ==
    /\ p \notin open /\ pending[p] = <<>>
    /\ open' = open \cup {p}
    /\ UNCHANGED <<pending, delivered, answered, dropped>>

Accept(p, m) ==
    /\ p \in open /\ m \notin Known
    /\ pending' = [pending EXCEPT ![p] = Append(@, m)]
    /\ UNCHANGED <<open, delivered, answered, dropped>>

Replace(p, m) ==
    /\ p \in open /\ m \notin Known
    /\ pending[p] # <<>> /\ ~Blocking(Head(pending[p]))
    /\ dropped' = dropped \cup {Head(pending[p])}
    /\ pending' = [pending EXCEPT ![p] = Append(Tail(@), m)]
    /\ UNCHANGED <<open, delivered, answered>>

Deliver(p) ==
    /\ p \in open /\ pending[p] # <<>>
    /\ delivered' = delivered \cup {Head(pending[p])}
    /\ pending' = [pending EXCEPT ![p] = Tail(@)]
    /\ UNCHANGED <<open, answered, dropped>>

Close(p) ==
    /\ p \in open
    /\ open' = open \ {p}
    /\ answered' = answered \cup {m \in Pending(p) : Request(m)}
    /\ dropped' = dropped \cup {m \in Pending(p) : ~Request(m)}
    /\ pending' = [pending EXCEPT ![p] = <<>>]
    /\ UNCHANGED delivered

Next == \E p \in Pipe :
    \/ Open(p) \/ Deliver(p) \/ Close(p)
    \/ \E m \in Message : Accept(p, m) \/ Replace(p, m)

Spec == Init /\ [][Next]_vars
=============================================================================
