---------------------------- MODULE OrderedMailbox ----------------------------
(***************************************************************************)
(* What a channel promises its members, with no engine, cursor or store in *)
(* sight: messages get a place in one order when they are posted; a posted *)
(* message may wait for a human decision, which is final; and a message is *)
(* available to its target only when it and everything before it has been  *)
(* decided.  LocalDelivery implements it.                                  *)
(***************************************************************************)
EXTENDS Integers, Sequences

CONSTANTS Messages, Nodes, Everyone, From, To

VARIABLES
    posts,      \* the channel's messages in order, with the gate's verdict
    received    \* the messages each node has received

mailVars == <<posts, received>>

Verdicts == {"held", "delivered", "dropped"}
Contents == {"original", "edited"}
Post == [id : Messages, status : Verdicts, body : Contents]

MailInit ==
    /\ posts = << >>
    /\ received = [n \in Nodes |-> {}]

\* A message is posted once, whatever the number of attempts.
PostMessage(m) ==
    /\ \A i \in DOMAIN posts : posts[i].id # m
    /\ \E v \in {"held", "delivered"} :
        posts' = Append(posts, [id |-> m, status |-> v, body |-> "original"])
    /\ UNCHANGED received

\* The human decides a held message, once.
Decide(i) ==
    /\ posts[i].status = "held"
    /\ \E p \in Post :
        /\ p.id = posts[i].id
        /\ p.status # "held"
        /\ posts' = [posts EXCEPT ![i] = p]
    /\ UNCHANGED received

Receive(n, i) ==
    /\ posts[i].status = "delivered"
    /\ \A j \in DOMAIN posts : j < i => posts[j].status # "held"
    /\ From[posts[i].id] # n
    /\ To[posts[i].id] \in {n, Everyone}
    /\ received' = [received EXCEPT ![n] = @ \cup {posts[i].id}]
    /\ UNCHANGED posts

MailNext ==
    \/ \E m \in Messages : PostMessage(m)
    \/ \E i \in DOMAIN posts : Decide(i)
    \/ \E n \in Nodes, i \in DOMAIN posts : Receive(n, i)

MailSpec == MailInit /\ [][MailNext]_mailVars
=============================================================================
