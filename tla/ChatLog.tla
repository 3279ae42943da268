------------------------------- MODULE ChatLog -------------------------------
(***************************************************************************)
(* What the chat transport promises a pane: the journal of a session is a  *)
(* log, and what the pane shows is always the effect of one contiguous     *)
(* window of it.  The window's far end only moves forward, and paging      *)
(* through history only moves its near end back.  Once the server has told *)
(* the pane that its position is void (a reset), nothing is promised until *)
(* the pane is mounted again: see ChatStream for why not more.             *)
(***************************************************************************)
EXTENDS Naturals, Sequences

CONSTANTS
    Items,      \* ids of the transcript's items
    Others,     \* what events that concern no item are about
    Versions    \* what an event may set an item to

VARIABLES
    log,        \* the durable events, each the next version of one item
    reader,     \* "away", "following" or, after a reset, "lost"
    from, to,   \* the window of the log the reader has taken in
    shown       \* item -> the version on screen, 0 for none

vars == <<log, reader, from, to, shown>>

\* The version of item i that the events f .. t of l leave behind.
VersionOf(l, i, f, t) ==
    LET about == {k \in DOMAIN l : f <= k /\ k <= t /\ l[k].item = i}
    IN  IF about = {} THEN 0
        ELSE l[CHOOSE k \in about : \A j \in about : j <= k].ver

Screen(l, f, t) == [i \in Items |-> VersionOf(l, i, f, t)]

Init ==
    /\ log = <<>>
    /\ reader = "away"
    /\ from = 1
    /\ to = 0
    /\ shown = Screen(log, from, to)

Shows(f, t) == from' = f /\ to' = t /\ shown' = Screen(log, f, t)

Write ==
    /\ \E e \in [item : Items \cup Others, ver : Versions] : log' = Append(log, e)
    /\ UNCHANGED <<reader, from, to, shown>>

Join ==
    /\ reader = "away" /\ reader' = "following"
    /\ \E f \in 1 .. Len(log) + 1 : \E t \in f - 1 .. Len(log) : Shows(f, t)
    /\ UNCHANGED log

Advance ==
    /\ reader = "following"
    /\ \E t \in to + 1 .. Len(log) : Shows(from, t)
    /\ UNCHANGED <<log, reader>>

PageBack ==
    /\ reader = "following"
    /\ \E f \in 1 .. from - 1 : Shows(f, to)
    /\ UNCHANGED <<log, reader>>

Leave ==
    /\ reader' = "away"
    /\ from' = 1 /\ to' = 0 /\ shown' = [i \in Items |-> 0]
    /\ UNCHANGED log

Anywhere ==
    from' \in Nat /\ to' \in Nat /\ shown' \in [Items -> Versions \cup {0}]

\* The journal is lost, or the reader is told to start over.
Upset ==
    /\ log' \in {log, <<>>}
    /\ IF reader = "away"
       THEN UNCHANGED <<reader, from, to, shown>>
       ELSE reader' = "lost" /\ Anywhere

\* Such a reader shows what it shows; so does one that was joining meanwhile.
Drift == reader \in {"away", "lost"} /\ reader' = "lost" /\ Anywhere /\ UNCHANGED log

Next == Write \/ Join \/ Advance \/ PageBack \/ Leave \/ Upset \/ Drift

Spec == Init /\ [][Next]_vars
=============================================================================
