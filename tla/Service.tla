------------------------------ MODULE Service ------------------------------
(***************************************************************************)
(* What a client of the daemon may rely on, whatever the display does: one *)
(* owner answers the requests one at a time, in the order in which they    *)
(* reached it; each is answered at most once, and taken at most once; and  *)
(* while the display is away, everything but a status is refused.          *)
(***************************************************************************)
EXTENDS Naturals, Sequences

CONSTANT Calls

VARIABLES
    line,   \* the requests that were asked and not answered, oldest first
    asks,   \* what each connection asks: its status, or something else
    answer, \* what has been answered and not been taken
    up      \* whether the display is there

vars == <<line, asks, answer, up>>

Asks == {"status", "other"}

Init ==
    /\ line = <<>>
    /\ asks = [c \in Calls |-> "status"]
    /\ answer = [c \in Calls |-> "none"]
    /\ up = FALSE

Ask(c) ==
    /\ answer[c] = "none"
    /\ \A i \in DOMAIN line : line[i] # c
    /\ line' = Append(line, c)
    /\ \E a \in Asks : asks' = [asks EXCEPT ![c] = a]
    /\ UNCHANGED <<answer, up>>

\* The oldest request is answered, unless its client has given up; doing so
\* may find the display gone.
Answer ==
    /\ line # <<>>
    /\ line' = Tail(line)
    /\ LET c == Head(line) IN
       /\ \E a \in IF up \/ asks[c] = "status" THEN {"yes", "no", "none"}
                                              ELSE {"no", "none"} :
             answer' = [answer EXCEPT ![c] = a]
       /\ asks' \in {asks, [asks EXCEPT ![c] = "status"]}
    /\ up' \in {up, FALSE}

Take(c) ==
    /\ answer[c] # "none"
    /\ answer' = [answer EXCEPT ![c] = "none"]
    /\ asks' = [asks EXCEPT ![c] = "status"]
    /\ UNCHANGED <<line, up>>

\* The display comes or goes between two requests.
Change ==
    /\ up' = ~up
    /\ UNCHANGED <<line, asks, answer>>

Next == (\E c \in Calls : Ask(c) \/ Take(c)) \/ Answer \/ Change

Spec == Init /\ [][Next]_vars

=============================================================================
