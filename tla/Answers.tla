------------------------------- MODULE Answers --------------------------------
(***************************************************************************)
(* What a caller of the GitHub client is promised (GetJSON, and the        *)
(* comments on cacheKey, conditional and replayable in client.go): what it *)
(* is given is what GitHub held at one instant between its call and the    *)
(* return, the Link header included, or an error.  Nothing here remembers  *)
(* an answer: no cache, file, restart or release may be seen through it.   *)
(***************************************************************************)
CONSTANTS Callers, Urls, Contents, LinkOf, None

VARIABLES
    github,  \* what GitHub holds under each URL
    asked,   \* the URL a caller is waiting for, or None
    answer   \* what it is about to be given, None for an error

vars == <<github, asked, answer>>

\* What a URL answers with now.
Held(u) == [of |-> github[u], link |-> LinkOf[github[u]]]

Init ==
    /\ github \in [Urls -> Contents]
    /\ asked = [c \in Callers |-> None]
    /\ answer = [c \in Callers |-> None]

Edit(u) ==
    /\ \E content \in Contents : github' = [github EXCEPT ![u] = content]
    /\ UNCHANGED <<asked, answer>>

Ask(c, u) ==
    /\ asked[c] = None
    /\ asked' = [asked EXCEPT ![c] = u]
    /\ UNCHANGED <<github, answer>>

\* The instant the answer is of.
Answer(c) ==
    /\ asked[c] # None /\ answer[c] = None
    /\ answer' = [answer EXCEPT ![c] = Held(asked[c])]
    /\ UNCHANGED <<github, asked>>

\* With its answer, or with an error where none was made out.
Return(c) ==
    /\ asked[c] # None
    /\ asked' = [asked EXCEPT ![c] = None]
    /\ answer' = [answer EXCEPT ![c] = None]
    /\ UNCHANGED github

\* The process stops, and every call with it.
Stop ==
    /\ asked' = [c \in Callers |-> None]
    /\ answer' = [c \in Callers |-> None]
    /\ UNCHANGED github

Next ==
    \/ \E u \in Urls : Edit(u)
    \/ \E c \in Callers : (\E u \in Urls : Ask(c, u)) \/ Answer(c) \/ Return(c)
    \/ Stop

Spec == Init /\ [][Next]_vars

=============================================================================
