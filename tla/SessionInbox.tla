---------------------------- MODULE SessionInbox ----------------------------
(* What the reply queue promises the session, without objects, drains or       *)
(* settings: accepted messages stand in one line of at most Cap, are served    *)
(* from its front and in its order, once, and are given up for three reasons   *)
(* only: the oldest makes room for a new one, the one in front gives its place *)
(* to a summary, or the whole line is cleared.                                 *)
EXTENDS Naturals, Sequences

CONSTANTS Msgs, Cap

VARIABLES
  line,       \* accepted and neither served nor given up, oldest first
  accepted, served, givenUp,
  broken      \* the promise is off

vars == <<line, accepted, served, givenUp, broken>>

Standing == {line[i] : i \in DOMAIN line}

Init ==
  /\ line = <<>>
  /\ accepted = {} /\ served = {} /\ givenUp = {}
  /\ broken = FALSE

Accept(m) ==
  /\ m \notin accepted
  /\ accepted' = accepted \cup {m}
  /\ \/ /\ Len(line) < Cap
        /\ line' = Append(line, m) /\ UNCHANGED givenUp
     \/ /\ Len(line) = Cap
        /\ line' = Append(Tail(line), m) /\ givenUp' = givenUp \cup {Head(line)}
  /\ UNCHANGED <<served, broken>>

\* One message, or the first few of the line at once.
Serve(n) ==
  /\ LET first == {line[i] : i \in 1 .. n}
     IN  /\ first \cap (served \cup givenUp) = {}
         /\ served' = served \cup first
  /\ line' = SubSeq(line, n + 1, Len(line))
  /\ UNCHANGED <<accepted, givenUp, broken>>

Summarise ==
  /\ line # <<>>
  /\ line' = Tail(line) /\ givenUp' = givenUp \cup {Head(line)}
  /\ UNCHANGED <<accepted, served, broken>>

Clear ==
  /\ line' = <<>> /\ givenUp' = givenUp \cup Standing
  /\ UNCHANGED <<accepted, served, broken>>

Next ==
  \/ \E m \in Msgs : Accept(m)
  \/ \E n \in DOMAIN line : Serve(n)
  \/ Summarise \/ Clear
  \/ broken'

Spec == Init /\ [][Next]_vars
=============================================================================
