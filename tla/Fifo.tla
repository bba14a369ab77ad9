-------------------------------- MODULE Fifo --------------------------------
(***************************************************************************)
(* What the trait SimplexPipeTrait promises its two users: a first-in      *)
(* first-out queue of at most Cap messages, every call one atomic step.    *)
(***************************************************************************)
EXTENDS Naturals, Sequences

CONSTANTS Cap,   \* messages the pipe holds
          Msgs,  \* messages
          NoMsg  \* recv's and peek's None

VARIABLES
    contents,  \* the messages under way
    answer,    \* the sender's last result
    got        \* the receiver's last result

vars == <<contents, answer, got>>

Init == contents = <<>> /\ answer = "none" /\ got = NoMsg

(* send: a message joins the queue, or the pipe is full *)
Put(m) ==
    /\ Len(contents) < Cap
    /\ contents' = Append(contents, m) /\ answer' = "Ok"
    /\ UNCHANGED got
Refuse ==
    /\ Len(contents) = Cap
    /\ answer' = "PipeFull"
    /\ UNCHANGED <<contents, got>>

(* recv and peek: the oldest message, or none in an empty pipe *)
Take ==
    /\ contents # <<>>
    /\ got' = Head(contents) /\ contents' = Tail(contents)
    /\ UNCHANGED answer
Look ==
    /\ contents # <<>>
    /\ got' = Head(contents)
    /\ UNCHANGED <<contents, answer>>
Miss ==
    /\ contents = <<>>
    /\ got' = NoMsg
    /\ UNCHANGED <<contents, answer>>

Next == (\E m \in Msgs : Put(m)) \/ Refuse \/ Take \/ Look \/ Miss

Spec == Init /\ [][Next]_vars
=============================================================================
