----------------------------- MODULE AudioQueue -----------------------------
(***************************************************************************)
(* What the audio buffer promises to the two sides of the playback path:   *)
(* a first-in first-out queue of blocks of decoded audio.  The side that    *)
(* delivers music may be refused, but never while the queue is empty: a    *)
(* refusal means the reader still has something to read.                   *)
(***************************************************************************)
EXTENDS Sequences

CONSTANTS
    Block,     \* the blocks that can be queued
    NoBlock    \* what a read of an empty queue returns, not a block

VARIABLES
    queue,     \* blocks accepted and not yet read, oldest first
    out,       \* result of the latest read
    accepted   \* result of the latest write

vars == <<queue, out, accepted>>

TypeOK ==
    /\ queue \in Seq(Block)
    /\ out \in Block \cup {NoBlock}
    /\ accepted \in BOOLEAN

Init ==
    /\ queue = <<>>
    /\ out = NoBlock
    /\ accepted = TRUE

Put(b) ==
    /\ queue' = Append(queue, b)
    /\ accepted' = TRUE
    /\ UNCHANGED out

Refuse ==
    /\ queue # <<>>
    /\ accepted' = FALSE
    /\ UNCHANGED <<queue, out>>

Get ==
    /\ queue # <<>>
    /\ out' = Head(queue)
    /\ queue' = Tail(queue)
    /\ UNCHANGED accepted

GetNothing ==
    /\ queue = <<>>
    /\ out' = NoBlock
    /\ UNCHANGED <<queue, accepted>>

Clear ==
    /\ queue' = <<>>
    /\ UNCHANGED <<out, accepted>>

Next ==
    \/ \E b \in Block : Put(b)
    \/ Refuse
    \/ Get
    \/ GetNothing
    \/ Clear

Spec == Init /\ [][Next]_vars
=============================================================================
