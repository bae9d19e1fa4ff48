--------------------------- MODULE BoundedChannel ---------------------------
(***************************************************************************)
(* What the two-phase channel promises: a queue of bounded size in which a *)
(* permit holds a slot until it is committed or given up.  Nothing is said *)
(* about waiting and wakeups.                                              *)
(***************************************************************************)
EXTENDS Naturals, Sequences, FiniteSets, SequencesExt

CONSTANTS Senders, Capacity

VARIABLES
    chan,     \* the messages; a message is named by its sender
    permits,  \* the senders that hold a permit
    sealed,   \* nothing is accepted any more
    ended,    \* the receiver was told that no message will come
    gone      \* the receiver was dropped

cvars == <<chan, permits, sealed, ended, gone>>

CInit ==
    /\ chan = <<>> /\ permits = {}
    /\ sealed = FALSE /\ ended = FALSE /\ gone = FALSE

HasRoom == Len(chan) + Cardinality(permits) < Capacity

Grant(s) ==
    /\ ~sealed /\ HasRoom /\ s \notin permits
    /\ permits' = permits \cup {s}
    /\ UNCHANGED <<chan, sealed, ended, gone>>

Commit(s) ==
    /\ ~sealed /\ s \in permits
    /\ permits' = permits \ {s}
    /\ chan' = Append(chan, s)
    /\ UNCHANGED <<sealed, ended, gone>>

GiveUp(s) ==
    /\ s \in permits
    /\ permits' = permits \ {s}
    /\ UNCHANGED <<chan, sealed, ended, gone>>

Send(s) ==
    /\ ~sealed /\ HasRoom
    /\ chan' = Append(chan, s)
    /\ UNCHANGED <<permits, sealed, ended, gone>>

\* A message makes room for a new one.
Replace(s, i) ==
    /\ ~sealed /\ ~HasRoom
    /\ chan' = Append(RemoveAt(chan, i), s)
    /\ UNCHANGED <<permits, sealed, ended, gone>>

Receive ==
    /\ ~gone /\ chan # <<>>
    /\ chan' = Tail(chan)
    /\ UNCHANGED <<permits, sealed, ended, gone>>

\* A close keeps the messages, ...
Seal ==
    /\ sealed' = TRUE
    /\ UNCHANGED <<chan, permits, ended, gone>>

\* ... the drop of the receiver discards them.
Discard ==
    /\ ~gone
    /\ gone' = TRUE
    /\ sealed' = TRUE
    /\ chan' = <<>>
    /\ UNCHANGED <<permits, ended>>

\* The end is final: nobody can send any more.
End ==
    /\ ~gone /\ chan = <<>>
    /\ ended' = TRUE
    /\ UNCHANGED <<chan, permits, sealed, gone>>

CNext ==
    \/ ~ended /\ \E s \in Senders :
          Grant(s) \/ Commit(s) \/ Send(s) \/ \E i \in 1 .. Len(chan) : Replace(s, i)
    \/ \E s \in Senders : GiveUp(s)
    \/ Receive
    \/ Seal \/ Discard
    \/ End

CSpec == CInit /\ [][CNext]_cvars
=============================================================================
