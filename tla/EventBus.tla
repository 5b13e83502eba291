------------------------------ MODULE EventBus ------------------------------
(***************************************************************************)
(* The message bus: an event log in the session database, a read cursor    *)
(* per agent beside it, and the retention pass that shortens the log.      *)
(*                                                                         *)
(* A row keeps who wrote it to whom, its topic and the proposal it is      *)
(* about; the rest of the payload is left out.                             *)
(***************************************************************************)
EXTENDS Integers

CONSTANTS
    Proposal,       \* message ids of the proposals that may be raised
    NoProposal,     \* what a row is about when it is about none
    KeepRecent      \* DEFAULT_EVENTS_KEEP_RECENT

ASSUME KeepRecentIsPositive == KeepRecent \in Nat \ {0}

Agent == {"orchestration", "critic"}
Party == Agent \cup {"coordinator"}
Topic == {"proposal", "review_verdict", "observation", "decision"}

VARIABLES
    events,     \* the rows of the log
    last,       \* the last sequence number handed out: it is never reused
    cursor      \* last_processed_seq of each agent

bus == <<events, last, cursor>>

Event == [seq : Nat, topic : Topic, from : Party, to : Party \cup {"*"},
          about : Proposal \cup {NoProposal}]

BusInit ==
    /\ events = {}
    /\ last = 0
    /\ cursor = [a \in Agent |-> 0]

ROLE_SUBSCRIPTIONS ==
    [a \in Agent |->
        IF a = "critic" THEN Topic \ {"decision"} ELSE Topic]

Row(seq, topic, from, to, about) ==
    [seq |-> seq, topic |-> topic, from |-> from, to |-> to, about |-> about]
Observation(seq) == Row(seq, "observation", "coordinator", "*", NoProposal)

append_and_seq(topic, from, to, about) ==
    /\ last' = last + 1
    /\ events' = events \cup {Row(last + 1, topic, from, to, about)}

record_observation ==
    /\ last' = last + 1
    /\ events' = events \cup {Observation(last + 1)}

\* replay_for: what an agent has not read, never its own messages.  The row
\* limit of the query is not reached: a prompt holds far fewer lines.
Unread(a) ==
    {e \in events : /\ e.seq > cursor[a]
                    /\ e.to \in {a, "*"}
                    /\ e.from # a
                    /\ e.topic \in ROLE_SUBSCRIPTIONS[a]}

Raised(p) == \E e \in events : e.topic = "proposal" /\ e.about = p
Decided(p) == \E e \in events : e.topic = "review_verdict" /\ e.about = p
Undecided == {p \in Proposal : Raised(p) /\ ~Decided(p)}

advance(a, n) == cursor' = [cursor EXCEPT ![a] = IF n > @ THEN n ELSE @]

\* Mutant: proposals that wait for their verdict are not spared.
prune_all ==
    /\ events' = {e \in events : e.seq > last - KeepRecent}
    /\ UNCHANGED <<last, cursor>>

\* The newest row is never deleted, so `last` is also the largest number in it.
prune_events ==
    /\ events' = {e \in events :
           \/ e.seq > last - KeepRecent
           \/ e.topic = "proposal" /\ e.about \in Undecided}
    /\ UNCHANGED <<last, cursor>>

=============================================================================
