----------------------------- MODULE ReverseCall -----------------------------
(***************************************************************************)
(* What wamp.Session.CallClient promises to the goroutine that calls it,   *)
(* with no read loop, pending map, socket or lock in sight.                *)
(*                                                                         *)
(* WAMP v1 has no server-to-client call.  The bridge publishes one as an   *)
(* EVENT and waits for the page to answer with a bare CALLRESULT or        *)
(* CALLERROR (session.go:141-143).  Every call the bridge starts is a call *)
(* of its own; it ends once, either with an answer the page gave to that   *)
(* very call or with a local failure, and never with somebody else's.      *)
(***************************************************************************)
CONSTANTS
    Callers,   \* the goroutines that call the page
    CallIds,   \* the ids randID can draw
    Answers,   \* what a page can answer: a result or an error
    NoCall,    \* "this caller has no call in flight"
    Failed     \* how a call without an answer ends: send error or context error

VARIABLES
    calling,   \* calling[c]: the call c is waiting for, or NoCall
    spent,     \* the ids of the calls ever started
    given,     \* the <<call, answer>> pairs the page has produced
    ended      \* the <<call, outcome>> pairs of the calls that returned

rcVars == <<calling, spent, given, ended>>

RCInit ==
    /\ calling = [c \in Callers |-> NoCall]
    /\ spent = {}
    /\ given = {}
    /\ ended = {}

\* A goroutine enters CallClient; its call is a fresh one.
Start(c) ==
    /\ calling[c] = NoCall
    /\ \E id \in CallIds \ spent :
        /\ calling' = [calling EXCEPT ![c] = id]
        /\ spent' = spent \cup {id}
    /\ UNCHANGED <<given, ended>>

\* The page answers a call the bridge made, possibly after the caller left.
Answer ==
    /\ \E id \in spent, a \in Answers : given' = given \cup {<<id, a>>}
    /\ UNCHANGED <<calling, spent, ended>>

\* CallClient returns: with an answer to its own call, or with a failure.
Finish(c) ==
    /\ calling[c] # NoCall
    /\ \E out \in {a \in Answers : <<calling[c], a>> \in given} \cup {Failed} :
        ended' = ended \cup {<<calling[c], out>>}
    /\ calling' = [calling EXCEPT ![c] = NoCall]
    /\ UNCHANGED <<spent, given>>

RCNext == Answer \/ \E c \in Callers : Start(c) \/ Finish(c)

RCSpec == RCInit /\ [][RCNext]_rcVars
=============================================================================
