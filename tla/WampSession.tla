----------------------------- MODULE WampSession -----------------------------
(***************************************************************************)
(* One wamp.Session (internal/wamp/session.go): the read loop, the map of  *)
(* pending reverse calls, the goroutines inside CallClient and the page at *)
(* the other end of the socket, with the teardown serveWAMP and net/http   *)
(* perform when the read loop ends.                                        *)
(*                                                                         *)
(* The three hard places are modelled at the grain of the code:            *)
(*  - resolvePending looks the call up under pendingMu, releases the lock  *)
(*    WITHOUT deleting the entry and only then closes p.done, so a second  *)
(*    answer to the same call can find the entry again;                    *)
(*  - CallClient leaves by whichever of ctx.Done and p.done it sees first, *)
(*    and its deferred delete is a later step, so answers arrive late;     *)
(*  - the page's own CALLs are answered inline by the same loop that       *)
(*    delivers the answers to ours.                                        *)
(* send is one step: writeMu is held only around conn.WriteMessage, and    *)
(* nothing is read or written under it that another step could see.        *)
(***************************************************************************)
EXTENDS Naturals, Sequences

CONSTANTS
    Callers,       \* goroutines that call the page
    TimedCallers,  \* those whose context is Background with a timeout (stopMoving)
    CallIds,       \* ids randID can draw
    Answers,       \* what the page can answer
    NoCall, NoAnswer, Failed,
    MaxInbound,    \* frames the page may have under way
    MaxPageCalls,  \* CALLs the page makes
    Repeatable     \* calls the page may answer twice; a correct page has none

ASSUME SessionAssumption ==
    /\ TimedCallers \subseteq Callers
    /\ NoCall \notin CallIds
    /\ NoAnswer \notin Answers
    /\ Failed \notin Answers
    /\ MaxInbound \in Nat /\ MaxPageCalls \in Nat
    /\ Repeatable \subseteq CallIds

VARIABLES
    socket,    \* "open", "gone" (the page left), "closed" (conn.Close ran)
    ctx,       \* the request context: "live" or "cancelled"
    inbound,   \* frames the page sent and the loop has not read
    loop,      \* the read loop: "read", "resolve", "ended" or "panicked"
    found,     \* the <<call, answer>> the loop holds between lookup and close
    pendingRPC,\* the keys of Session.pendingRPC
    answer,    \* answer[id]: pending.result / pending.err of that call
    done,      \* the calls whose done channel is closed
    pc,        \* each caller: "idle", "send", "wait" or "leave"
    call,      \* call[c]: the id c drew
    outcome,   \* outcome[c]: what CallClient is about to return
    expired,   \* timed callers whose timeout has fired
    asked,     \* calls whose EVENT reached the page
    spent,     \* history: ids drawn so far
    given,     \* history: <<call, answer>> pairs the page sent
    answers,   \* answers[id]: how many answers the page sent to it
    ended,     \* history: <<call, outcome>> of the calls that returned
    issued,    \* how many CALLs the page made
    replied    \* history: the page's CALLs in the order they were answered

callVars == <<pc, call, outcome, expired, spent, ended>>
pageVars == <<asked, given, answers, issued>>
loopVars == <<loop, found, answer, done, replied>>
vars == <<socket, ctx, inbound, pendingRPC, callVars, pageVars, loopVars>>

\* What travels from the page: an answer to one of our calls, or a CALL of its own.
\* A frame the loop consumes without touching any of this state (PREFIX, SUBSCRIBE,
\* an undecodable frame, an unknown type) is a stuttering step.
AnswerFrame(id, a) == [kind |-> "answer", id |-> id, answer |-> a]
CallFrame(n) == [kind |-> "call", number |-> n]
Frames ==
    [kind : {"answer"}, id : CallIds, answer : Answers] \cup [kind : {"call"}, number : Nat]

Nothing == <<NoCall, NoAnswer>>

Init ==
    /\ socket = "open" /\ ctx = "live"
    /\ inbound = <<>>
    /\ loop = "read" /\ found = Nothing
    /\ pendingRPC = {} /\ done = {}
    /\ answer = [id \in CallIds |-> NoAnswer]
    /\ pc = [c \in Callers |-> "idle"]
    /\ call = [c \in Callers |-> NoCall]
    /\ outcome = [c \in Callers |-> NoAnswer]
    /\ expired = {} /\ asked = {} /\ spent = {} /\ given = {} /\ ended = {}
    /\ answers = [id \in CallIds |-> 0]
    /\ issued = 0 /\ replied = <<>>

----------------------------------------------------------------------------
(* CallClient, session.go:144-172. *)

\* randID draws 16 characters of 62: an id is never drawn twice.
FreshIdsOrEmpty == (CallIds \ spent) \cup {NoCall}   \* variant: an id may be empty
FreshIds == CallIds \ spent

\* Draw an id and register the call, before anything is sent.
Register(c) ==
    /\ pc[c] = "idle"
    /\ \E id \in FreshIds :
        /\ call' = [call EXCEPT ![c] = id]
        /\ pendingRPC' = pendingRPC \cup {id}
        /\ spent' = spent \cup {id}
    /\ pc' = [pc EXCEPT ![c] = "send"]
    /\ UNCHANGED <<socket, ctx, inbound, outcome, expired, ended, pageVars, loopVars>>

\* The EVENT is written; the page may or may not still be there to read it.
Send(c) ==
    /\ pc[c] = "send"
    /\ socket # "closed"
    /\ pc' = [pc EXCEPT ![c] = "wait"]
    /\ asked' = IF socket = "open" THEN asked \cup {call[c]} ELSE asked
    /\ UNCHANGED <<socket, ctx, inbound, pendingRPC, call, outcome, expired,
                   spent, ended, given, answers, issued, loopVars>>

\* conn.WriteMessage fails: CallClient returns that error at once.
SendFails(c) ==
    /\ pc[c] = "send"
    /\ socket # "open"
    /\ pc' = [pc EXCEPT ![c] = "leave"]
    /\ outcome' = [outcome EXCEPT ![c] = Failed]
    /\ UNCHANGED <<socket, ctx, inbound, pendingRPC, call, expired, spent, ended,
                   pageVars, loopVars>>

ContextDoneDetached(c) == c \in expired   \* variant: calls do not see the session end
ContextDone(c) == IF c \in TimedCallers THEN c \in expired ELSE ctx = "cancelled"

\* variant: a caller that gives up closes p.done as well
CallCancelledAndClosed(c) ==
    /\ pc[c] = "wait"
    /\ ContextDone(c)
    /\ pc' = [pc EXCEPT ![c] = "leave"]
    /\ outcome' = [outcome EXCEPT ![c] = Failed]
    /\ done' = done \cup {call[c]}
    /\ UNCHANGED <<socket, ctx, inbound, pendingRPC, call, expired, spent, ended,
                   pageVars, loop, found, answer, replied>>

\* select { case <-ctx.Done() }
CallCancelled(c) ==
    /\ pc[c] = "wait"
    /\ ContextDone(c)
    /\ pc' = [pc EXCEPT ![c] = "leave"]
    /\ outcome' = [outcome EXCEPT ![c] = Failed]
    /\ UNCHANGED <<socket, ctx, inbound, pendingRPC, call, expired, spent, ended,
                   pageVars, loopVars>>

\* select { case <-p.done }
CallAnswered(c) ==
    /\ pc[c] = "wait"
    /\ call[c] \in done
    /\ pc' = [pc EXCEPT ![c] = "leave"]
    /\ outcome' = [outcome EXCEPT ![c] = answer[call[c]]]
    /\ UNCHANGED <<socket, ctx, inbound, pendingRPC, call, expired, spent, ended,
                   pageVars, loopVars>>

UnregisteredNever(id) == pendingRPC   \* variant: the deferred delete is missing
Unregistered(id) == pendingRPC \ {id}

\* The deferred delete, then the return.
Return(c) ==
    /\ pc[c] = "leave"
    /\ pendingRPC' = Unregistered(call[c])
    /\ ended' = ended \cup {<<call[c], outcome[c]>>}
    /\ pc' = [pc EXCEPT ![c] = "idle"]
    /\ call' = [call EXCEPT ![c] = NoCall]
    /\ outcome' = [outcome EXCEPT ![c] = NoAnswer]
    /\ expired' = expired \ {c}
    /\ UNCHANGED <<socket, ctx, inbound, spent, pageVars, loopVars>>

\* A timeout fires while its caller is inside CallClient.
Expire(c) ==
    /\ c \in TimedCallers \ expired
    /\ pc[c] \in {"send", "wait"}
    /\ expired' = expired \cup {c}
    /\ UNCHANGED <<socket, ctx, inbound, pendingRPC, pc, call, outcome, spent,
                   ended, pageVars, loopVars>>

----------------------------------------------------------------------------
(* The page. *)

CanSend == socket = "open" /\ Len(inbound) < MaxInbound

PageAnswers ==
    /\ CanSend
    /\ \E id \in asked, a \in Answers :
        /\ answers[id] < IF id \in Repeatable THEN 2 ELSE 1
        /\ inbound' = Append(inbound, AnswerFrame(id, a))
        /\ given' = given \cup {<<id, a>>}
        /\ answers' = [answers EXCEPT ![id] = @ + 1]
    /\ UNCHANGED <<socket, ctx, pendingRPC, callVars, asked, issued, loopVars>>

PageCalls ==
    /\ CanSend
    /\ issued < MaxPageCalls
    /\ issued' = issued + 1
    /\ inbound' = Append(inbound, CallFrame(issued'))
    /\ UNCHANGED <<socket, ctx, pendingRPC, callVars, asked, given, answers, loopVars>>

PageLeaves ==
    /\ socket = "open"
    /\ socket' = "gone"
    /\ UNCHANGED <<ctx, inbound, pendingRPC, callVars, pageVars, loopVars>>

----------------------------------------------------------------------------
(* Serve and dispatch, session.go:187-267. *)

Reading == loop = "read" /\ inbound # <<>> /\ socket # "closed"

\* CALLRESULT or CALLERROR: look the call up under pendingMu.  An unknown call
\* is only logged.
ReadAnswer ==
    /\ Reading
    /\ Head(inbound).kind = "answer"
    /\ inbound' = Tail(inbound)
    /\ IF Head(inbound).id \in pendingRPC
         THEN /\ loop' = "resolve"
              /\ found' = <<Head(inbound).id, Head(inbound).answer>>
         ELSE UNCHANGED <<loop, found>>
    /\ UNCHANGED <<socket, ctx, pendingRPC, callVars, pageVars, answer, done, replied>>

\* variants: the result is stored and nobody is woken; the result goes to any call
DeliverSilently(id, a) == answer' = [answer EXCEPT ![id] = a] /\ UNCHANGED done
DeliverToAnyone(id, a) ==
    \E other \in pendingRPC :
        answer' = [answer EXCEPT ![other] = a] /\ done' = done \cup {other}

\* p.result, p.err = result, err; close(p.done)
Deliver(id, a) == answer' = [answer EXCEPT ![id] = a] /\ done' = done \cup {id}

\* The lock is released by now.  Closing a closed channel panics, and net/http
\* recovers the panic by unwinding the handler.
Resolve ==
    /\ loop = "resolve"
    /\ Deliver(found[1], found[2])
    /\ loop' = IF found[1] \in done THEN "panicked" ELSE "read"
    /\ found' = Nothing
    /\ UNCHANGED <<socket, ctx, inbound, pendingRPC, callVars, pageVars, replied>>

\* variant: a failing handler is answered by nobody
AnswerCallMaybe(n) == replied' \in {replied, Append(replied, n)}

\* A CALL of the page: the handler runs inline, and Reply or ReplyError is sent
\* before the next frame is read.
AnswerCall(n) == replied' = Append(replied, n)

ReadCall ==
    /\ Reading
    /\ Head(inbound).kind = "call"
    /\ inbound' = Tail(inbound)
    /\ AnswerCall(Head(inbound).number)
    /\ UNCHANGED <<socket, ctx, pendingRPC, callVars, pageVars, loop, found, answer, done>>

\* ... and when that send fails, dispatch and Serve return the error.
ReadCallFails ==
    /\ Reading
    /\ Head(inbound).kind = "call"
    /\ socket = "gone"
    /\ inbound' = Tail(inbound)
    /\ loop' = "ended"
    /\ UNCHANGED <<socket, ctx, pendingRPC, callVars, pageVars, found, answer, done, replied>>

\* ReadMessage fails once the page is gone; what it had sent may be lost.
ReadFails ==
    /\ loop = "read"
    /\ socket = "gone"
    /\ loop' = "ended"
    /\ UNCHANGED <<socket, ctx, inbound, pendingRPC, callVars, pageVars, found, answer,
                   done, replied>>

----------------------------------------------------------------------------
(* serveWAMP returns, or unwinds when dispatch panics: its deferred         *)
(* conn.Close runs first, and net/http cancels the request context after.   *)

LoopOver == loop \in {"ended", "panicked"}

CloseConn ==
    /\ LoopOver
    /\ socket # "closed"
    /\ socket' = "closed"
    /\ UNCHANGED <<ctx, inbound, pendingRPC, callVars, pageVars, loopVars>>

CancelContext ==
    /\ LoopOver
    /\ socket = "closed"
    /\ ctx = "live"
    /\ ctx' = "cancelled"
    /\ UNCHANGED <<socket, inbound, pendingRPC, callVars, pageVars, loopVars>>

----------------------------------------------------------------------------
CallStep(c) ==
    \/ Send(c) \/ SendFails(c) \/ CallCancelled(c) \/ CallAnswered(c) \/ Return(c)

LoopStep == ReadAnswer \/ Resolve \/ ReadCall \/ ReadCallFails \/ ReadFails

Teardown == CloseConn \/ CancelContext

Next ==
    \/ \E c \in Callers : Register(c) \/ CallStep(c) \/ Expire(c)
    \/ LoopStep
    \/ Teardown
    \/ PageAnswers \/ PageCalls \/ PageLeaves

\* The runtime schedules every goroutine that can run, and a context.WithTimeout
\* fires.  The page owes nothing: it may never answer, and may stay for ever.
Fairness ==
    /\ \A c \in Callers : WF_vars(CallStep(c)) /\ WF_vars(Expire(c))
    /\ WF_vars(LoopStep)
    /\ WF_vars(Teardown)

Spec == Init /\ [][Next]_vars /\ Fairness

----------------------------------------------------------------------------
(* Properties. *)

InFlight(c) == pc[c] # "idle"

TypeOK ==
    /\ socket \in {"open", "gone", "closed"} /\ ctx \in {"live", "cancelled"}
    /\ inbound \in Seq(Frames)
    /\ loop \in {"read", "resolve", "ended", "panicked"}
    /\ found \in (CallIds \cup {NoCall}) \X (Answers \cup {NoAnswer})
    /\ loop = "resolve" => found \in CallIds \X Answers
    /\ pendingRPC \subseteq CallIds /\ done \subseteq CallIds
    /\ answer \in [CallIds -> Answers \cup {NoAnswer}]
    /\ pc \in [Callers -> {"idle", "send", "wait", "leave"}]
    /\ call \in [Callers -> CallIds \cup {NoCall}]
    /\ outcome \in [Callers -> Answers \cup {NoAnswer, Failed}]
    /\ expired \subseteq TimedCallers
    /\ asked \subseteq CallIds /\ spent \subseteq CallIds
    /\ given \subseteq CallIds \X Answers
    /\ ended \subseteq CallIds \X (Answers \cup {NoAnswer, Failed})
    /\ answers \in [CallIds -> Nat]
    /\ issued \in Nat /\ replied \in Seq(Nat)

\* The pending map holds the calls in flight and nothing else: an answer that
\* comes after its caller gave up finds no entry, and no session, however long,
\* leaks one (session.go:156-160).
PendingIsInFlight == pendingRPC = {call[c] : c \in {d \in Callers : InFlight(d)}}

\* The read loop dies of a double close only if the page answered one call
\* twice: no interleaving of timeouts, late answers, cancellations and the
\* unlocked window of resolvePending closes p.done twice by itself.
OnlyDuplicatesPanic == loop = "panicked" => \E id \in CallIds : answers[id] > 1

\* The page's own CALLs are answered exactly once each and in the order they
\* were made, for as long as the session answers at all: "the client library
\* issues these sequentially during the handshake and ordering matters"
\* (session.go:232-233).
CallsAnsweredInOrder == replied = [n \in 1 .. Len(replied) |-> n]

\* Whatever the read loop, the timeouts and the page do, every call gets an
\* answer the page gave to that call, or a failure, once (ReverseCall).
Promise == INSTANCE ReverseCall WITH
    calling <- call
ImplementsReverseCall == Promise!RCSpec

\* Once the session is over no goroutine stays inside CallClient: a drive loop
\* waiting for a page that left is released (session.go:166-168).
CallsDrain == \A c \in Callers : LoopOver /\ InFlight(c) ~> ~InFlight(c)

\* A call the page has answered returns: the loop that delivers the answer never
\* waits for the goroutine that wants it (controller.go:60-63).
AnsweredCallsReturn ==
    \A c \in Callers, id \in CallIds :
        call[c] = id /\ answers[id] > 0 ~> call[c] # id
=============================================================================
