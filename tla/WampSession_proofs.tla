-------------------------- MODULE WampSession_proofs --------------------------
(***************************************************************************)
(* Proofs about WampSession, for any number of callers, calls and frames.  *)
(*                                                                         *)
(* Four layers, each inductive given the ones before it:                   *)
(*   Typed     types, and a caller holds an id exactly inside CallClient;  *)
(*   Matched   ids are not shared, the pending map holds the calls in      *)
(*             flight, and every answer on its way was given to that id;   *)
(*   Counted   how many answers to one id are on their way, delivered or   *)
(*             both, against how many the page sent;                       *)
(*   Queued    the page's CALLs that are answered, in the loop's hands and *)
(*             inbound are, one after the other, all it made, in order.    *)
(* Matched yields PendingIsInFlight and the refinement of ReverseCall;     *)
(* Counted yields OnlyDuplicatesPanic, Queued CallsAnsweredInOrder.        *)
(***************************************************************************)
EXTENDS WampSession, TLAPS

\* A goroutine holds a call id exactly while it is inside CallClient.
HoldsId == \A c \in Callers : pc[c] = "idle" <=> call[c] = NoCall

Typed == TypeOK /\ HoldsId

LEMMA TypedInit == Init => Typed
  BY SessionAssumption DEF Init, Typed, HoldsId, TypeOK, Nothing

LEMMA TypedNext == Typed /\ [Next]_vars => Typed'
<1> SUFFICES ASSUME Typed, [Next]_vars PROVE Typed'
  OBVIOUS
<1> USE SessionAssumption
    DEF Typed, HoldsId, TypeOK, callVars, pageVars, loopVars, Nothing, Frames
<1>1. ASSUME NEW c \in Callers, Register(c) PROVE Typed'
  BY <1>1 DEF Register, FreshIds
<1>2. ASSUME NEW c \in Callers, CallStep(c) PROVE Typed'
  <2>1. CASE Send(c)          BY <2>1 DEF Send
  <2>2. CASE SendFails(c)     BY <2>2 DEF SendFails
  <2>3. CASE CallCancelled(c) BY <2>3 DEF CallCancelled
  <2>4. CASE CallAnswered(c)  BY <2>4 DEF CallAnswered
  <2>5. CASE Return(c)        BY <2>5 DEF Return, Unregistered
  <2>6. QED BY <1>2, <2>1, <2>2, <2>3, <2>4, <2>5 DEF CallStep
<1>3. ASSUME NEW c \in Callers, Expire(c) PROVE Typed'
  BY <1>3 DEF Expire
<1>4. CASE LoopStep
  <2>1. CASE ReadAnswer    BY <2>1 DEF ReadAnswer, Reading
  <2>2. CASE Resolve       BY <2>2 DEF Resolve, Deliver
  <2>3. CASE ReadCall      BY <2>3, SMTT(30) DEF ReadCall, Reading, AnswerCall
  <2>4. CASE ReadCallFails BY <2>4 DEF ReadCallFails, Reading
  <2>5. CASE ReadFails     BY <2>5 DEF ReadFails
  <2>6. QED BY <1>4, <2>1, <2>2, <2>3, <2>4, <2>5 DEF LoopStep
<1>5. CASE Teardown
  BY <1>5 DEF Teardown, CloseConn, CancelContext
<1>6. CASE PageAnswers
  BY <1>6 DEF PageAnswers, CanSend, AnswerFrame
<1>7. CASE PageCalls
  BY <1>7 DEF PageCalls, CanSend, CallFrame
<1>8. CASE PageLeaves
  BY <1>8 DEF PageLeaves
<1>9. CASE UNCHANGED vars
  BY <1>9 DEF vars
<1>10. QED
  BY <1>1, <1>2, <1>3, <1>4, <1>5, <1>6, <1>7, <1>8, <1>9 DEF Next

\* Every variable keeps its type, whatever the page does.
THEOREM TypeCorrect == Spec => []TypeOK
<1>1. Typed => TypeOK
  BY DEF Typed
<1>2. QED
  BY <1>1, TypedInit, TypedNext, PTL DEF Spec

----------------------------------------------------------------------------
LEMMA TailIndex ==
  ASSUME NEW S, NEW s \in Seq(S), s # <<>>
  PROVE  \A i \in 1 .. Len(Tail(s)) : Tail(s)[i] = s[i + 1] /\ i + 1 \in 1 .. Len(s)
  OBVIOUS

LEMMA FoundParts ==
  found \in CallIds \X Answers
    => found = <<found[1], found[2]>> /\ found[1] \in CallIds /\ found[2] \in Answers
  OBVIOUS

----------------------------------------------------------------------------
(* The calls in flight are distinct and drawn from the ids spent. *)
Distinct ==
    /\ \A c, d \in Callers : call[c] = call[d] /\ call[c] # NoCall => c = d
    /\ \A c \in Callers : call[c] # NoCall => call[c] \in spent
    /\ PendingIsInFlight

\* An answer anywhere between the page and the caller was given to that call.
Faithful ==
    /\ asked \subseteq spent
    /\ \A pair \in given : pair[1] \in spent
    /\ \A i \in 1 .. Len(inbound) :
         inbound[i].kind = "answer" => <<inbound[i].id, inbound[i].answer>> \in given
    /\ loop = "resolve" => found \in given
    /\ \A id \in CallIds : answer[id] # NoAnswer => <<id, answer[id]>> \in given
    /\ done \subseteq {id \in CallIds : answer[id] # NoAnswer}
    /\ \A c \in Callers : pc[c] = "leave" =>
         outcome[c] = Failed \/ <<call[c], outcome[c]>> \in given

Matched == Distinct /\ Faithful

LEMMA MatchedInit == Init => Matched
  BY SessionAssumption
  DEF Init, Matched, Distinct, Faithful, PendingIsInFlight, InFlight, Nothing

LEMMA DistinctNext == Typed /\ Distinct /\ [Next]_vars => Distinct'
<1> SUFFICES ASSUME Typed, Distinct, [Next]_vars PROVE Distinct'
  OBVIOUS
<1> USE SessionAssumption
    DEF Typed, HoldsId, TypeOK, Distinct, PendingIsInFlight, InFlight,
        callVars, pageVars, loopVars
<1>1. ASSUME NEW c \in Callers, Register(c) PROVE Distinct'
  BY <1>1 DEF Register, FreshIds
<1>2. ASSUME NEW c \in Callers, CallStep(c) PROVE Distinct'
  <2>1. CASE Send(c)          BY <2>1 DEF Send
  <2>2. CASE SendFails(c)     BY <2>2 DEF SendFails
  <2>3. CASE CallCancelled(c) BY <2>3 DEF CallCancelled
  <2>4. CASE CallAnswered(c)  BY <2>4 DEF CallAnswered
  <2>5. CASE Return(c)        BY <2>5 DEF Return, Unregistered
  <2>6. QED BY <1>2, <2>1, <2>2, <2>3, <2>4, <2>5 DEF CallStep
<1>3. ASSUME NEW c \in Callers, Expire(c) PROVE Distinct'
  BY <1>3 DEF Expire
<1>4. CASE LoopStep
  BY <1>4 DEF LoopStep, ReadAnswer, Resolve, ReadCall, ReadCallFails, ReadFails
<1>5. CASE Teardown \/ PageAnswers \/ PageCalls \/ PageLeaves
  BY <1>5 DEF Teardown, CloseConn, CancelContext, PageAnswers, PageCalls, PageLeaves
<1>6. CASE UNCHANGED vars
  BY <1>6 DEF vars
<1>7. QED
  BY <1>1, <1>2, <1>3, <1>4, <1>5, <1>6 DEF Next

LEMMA FaithfulNext == Typed /\ Matched /\ [Next]_vars => Faithful'
<1> SUFFICES ASSUME Typed, Matched, [Next]_vars PROVE Faithful'
  OBVIOUS
<1> USE SessionAssumption
    DEF Typed, HoldsId, TypeOK, Matched, Distinct, Faithful,
        callVars, pageVars, loopVars
<1>1. ASSUME NEW c \in Callers, Register(c) PROVE Faithful'
  BY <1>1 DEF Register, FreshIds
<1>2. ASSUME NEW c \in Callers, CallStep(c) PROVE Faithful'
  <2>1. CASE Send(c)          BY <2>1 DEF Send
  <2>2. CASE SendFails(c)     BY <2>2 DEF SendFails
  <2>3. CASE CallCancelled(c) BY <2>3 DEF CallCancelled
  <2>4. CASE CallAnswered(c)  BY <2>4 DEF CallAnswered
  <2>5. CASE Return(c)        BY <2>5 DEF Return, Unregistered
  <2>6. QED BY <1>2, <2>1, <2>2, <2>3, <2>4, <2>5 DEF CallStep
<1>3. ASSUME NEW c \in Callers, Expire(c) PROVE Faithful'
  BY <1>3 DEF Expire
<1>4. CASE LoopStep
  <2>1. CASE ReadAnswer
    <3>1. inbound # <<>> /\ inbound' = Tail(inbound)
      BY <2>1 DEF ReadAnswer, Reading
    <3>2. \A i \in 1 .. Len(inbound') : inbound'[i] = inbound[i + 1] /\ i + 1 \in 1 .. Len(inbound)
      BY <3>1, TailIndex
    <3>3. <<Head(inbound).id, Head(inbound).answer>> \in given
      BY <2>1, <3>1 DEF ReadAnswer
    <3>4. loop' = "resolve" => found' \in given
      BY <2>1, <3>3 DEF ReadAnswer
    <3>5. QED BY <2>1, <3>2, <3>4, SMTT(30) DEF ReadAnswer
  <2>2. CASE Resolve
    <3>1. found \in CallIds \X Answers /\ found \in given
      BY <2>2 DEF Resolve
    <3>2. found = <<found[1], found[2]>> /\ found[1] \in CallIds /\ found[2] \in Answers
      BY <3>1, FoundParts, Zenon
    <3>3. /\ answer' = [answer EXCEPT ![found[1]] = found[2]]
          /\ done' = done \cup {found[1]}
          /\ loop' # "resolve"
      BY <2>2 DEF Resolve, Deliver
    <3>4. UNCHANGED <<inbound, pc, call, outcome, spent, asked, given>>
      BY <2>2 DEF Resolve
    <3>5. <<found[1], found[2]>> \in given
      BY <3>1, <3>2, Zenon
    <3>6. \A id \in CallIds : answer'[id] = IF id = found[1] THEN found[2] ELSE answer[id]
      BY <3>3
    <3>7. \A id \in CallIds : answer'[id] # NoAnswer => <<id, answer'[id]>> \in given'
      BY <3>4, <3>5, <3>6
    <3>8. done' \subseteq {id \in CallIds : answer'[id] # NoAnswer}
      BY <3>2, <3>3, <3>6
    <3>9. QED BY <3>3, <3>4, <3>7, <3>8
  <2>3. CASE ReadCall \/ ReadCallFails
    <3>1. inbound # <<>> /\ inbound' = Tail(inbound) /\ loop' # "resolve"
      BY <2>3 DEF ReadCall, ReadCallFails, Reading
    <3>2. \A i \in 1 .. Len(inbound') : inbound'[i] = inbound[i + 1] /\ i + 1 \in 1 .. Len(inbound)
      BY <3>1, TailIndex
    <3>3. UNCHANGED <<answer, done, pc, call, outcome, spent, asked, given>>
      BY <2>3 DEF ReadCall, ReadCallFails
    <3>4. QED BY <3>1, <3>2, <3>3
  <2>4. CASE ReadFails
    BY <2>4 DEF ReadFails
  <2>5. QED BY <1>4, <2>1, <2>2, <2>3, <2>4 DEF LoopStep
<1>5. CASE Teardown
  BY <1>5 DEF Teardown, CloseConn, CancelContext
<1>6. CASE PageAnswers
  BY <1>6 DEF PageAnswers, AnswerFrame
<1>7. CASE PageCalls
  BY <1>7 DEF PageCalls, CallFrame
<1>8. CASE PageLeaves
  BY <1>8 DEF PageLeaves
<1>9. CASE UNCHANGED vars
  BY <1>9 DEF vars
<1>10. QED
  BY <1>1, <1>2, <1>3, <1>4, <1>5, <1>6, <1>7, <1>8, <1>9 DEF Next

LEMMA MatchedInvariant == Spec => [](Typed /\ Matched)
<1>1. Typed /\ Matched /\ [Next]_vars => Matched'
  BY DistinctNext, FaithfulNext DEF Matched
<1>2. QED
  BY <1>1, TypedInit, TypedNext, MatchedInit, PTL DEF Spec

\* The pending map holds exactly the calls in flight, for any number of callers.
THEOREM PendingExact == Spec => []PendingIsInFlight
<1>1. Matched => PendingIsInFlight
  BY DEF Matched, Distinct
<1>2. QED
  BY <1>1, MatchedInvariant, PTL

----------------------------------------------------------------------------
(* CallClient keeps its promise: WampSession implements ReverseCall. *)

LEMMA PromiseInit == Init => Promise!RCInit
  BY DEF Init, Promise!RCInit

LEMMA PromiseNext ==
  Typed /\ Matched /\ [Next]_vars => [Promise!RCNext]_(Promise!rcVars)
<1> SUFFICES ASSUME Typed, Matched, [Next]_vars
             PROVE  Promise!RCNext \/ UNCHANGED Promise!rcVars
  OBVIOUS
<1> USE DEF Promise!rcVars, callVars, pageVars, loopVars
<1>1. ASSUME NEW c \in Callers, Register(c) PROVE Promise!Start(c)
  BY <1>1 DEF Register, FreshIds, Promise!Start, Typed, HoldsId
<1>2. ASSUME NEW c \in Callers, Return(c) PROVE Promise!Finish(c)
  <2>1. call[c] # NoCall /\ (outcome[c] = Failed \/ <<call[c], outcome[c]>> \in given)
    BY <1>2 DEF Return, Typed, HoldsId, Matched, Faithful
  <2>2. given \subseteq CallIds \X Answers
    BY DEF Typed, TypeOK
  <2>3. outcome[c] \in {a \in Answers : <<call[c], a>> \in given} \cup {Failed}
    BY <2>1, <2>2
  <2>4. QED BY <1>2, <2>1, <2>3 DEF Return, Promise!Finish
<1>3. ASSUME NEW c \in Callers, CallStep(c), ~Return(c) PROVE UNCHANGED Promise!rcVars
  BY <1>3 DEF CallStep, Send, SendFails, CallCancelled, CallAnswered
<1>4. ASSUME NEW c \in Callers, Expire(c) PROVE UNCHANGED Promise!rcVars
  BY <1>4 DEF Expire
<1>5. CASE PageAnswers
  <2>1. asked \subseteq spent
    BY DEF Matched, Faithful
  <2>2. QED BY <1>5, <2>1 DEF PageAnswers, Promise!RCNext, Promise!Answer
<1>6. CASE LoopStep \/ Teardown \/ PageCalls \/ PageLeaves
  BY <1>6 DEF LoopStep, ReadAnswer, Resolve, ReadCall, ReadCallFails, ReadFails,
              Teardown, CloseConn, CancelContext, PageCalls, PageLeaves
<1>7. CASE UNCHANGED vars
  BY <1>7 DEF vars
<1>8. QED
  BY <1>1, <1>2, <1>3, <1>4, <1>5, <1>6, <1>7 DEF Next, Promise!RCNext

\* Every reverse call ends once, with an answer given to it or with a failure,
\* whatever the page, the timeouts and the teardown of the session do.
THEOREM CallsKeepTheirPromise == Spec => ImplementsReverseCall
  BY MatchedInvariant, PromiseInit, PromiseNext, PTL
  DEF Spec, ImplementsReverseCall, Promise!RCSpec

----------------------------------------------------------------------------
(* An answer to id is under way at position i, held by the loop, or delivered; *)
(* two of these need two answers from the page.                               *)
UnderWay(i, id) == inbound[i].kind = "answer" /\ inbound[i].id = id
Held(id) == loop = "resolve" /\ found[1] = id

CountedFor(id) ==
    /\ id \in done \/ Held(id) => answers[id] >= 1
    /\ id \in done /\ Held(id) => answers[id] >= 2
    /\ \A i \in 1 .. Len(inbound) : UnderWay(i, id) =>
         /\ answers[id] >= 1
         /\ id \in done \/ Held(id) => answers[id] >= 2
         /\ \A j \in 1 .. Len(inbound) : j # i /\ UnderWay(j, id) => answers[id] >= 2

Counted == (\A id \in CallIds : CountedFor(id)) /\ OnlyDuplicatesPanic

LEMMA CountedInit == Init => Counted
  BY DEF Init, Counted, CountedFor, Held, OnlyDuplicatesPanic

LEMMA CountedNext == Typed /\ Counted /\ [Next]_vars => Counted'
<1> SUFFICES ASSUME Typed, Counted, [Next]_vars PROVE Counted'
  OBVIOUS
<1> USE DEF callVars, pageVars, loopVars
<1>1. ASSUME UNCHANGED <<inbound, loop, found, done, answers>> PROVE Counted'
  BY <1>1 DEF Counted, CountedFor, Held, UnderWay, OnlyDuplicatesPanic
<1>2. ASSUME NEW c \in Callers, Register(c) \/ CallStep(c) \/ Expire(c) PROVE Counted'
  BY <1>1, <1>2 DEF Register, CallStep, Send, SendFails, CallCancelled, CallAnswered,
                    Return, Expire
<1>3. CASE Teardown \/ PageLeaves
  BY <1>1, <1>3 DEF Teardown, CloseConn, CancelContext, PageLeaves
<1>4. CASE UNCHANGED vars
  BY <1>1, <1>4 DEF vars
\* A frame leaves the head of the queue; only ReadAnswer keeps it in hand.
<1>5. ASSUME inbound # <<>>, inbound' = Tail(inbound), loop # "resolve",
             UNCHANGED <<done, answers>>,
             loop' # "panicked",
             loop' = "resolve" => /\ Head(inbound).kind = "answer"
                                  /\ found'[1] = Head(inbound).id
      PROVE  Counted'
  <2>1. \A k \in 1 .. Len(inbound') : inbound'[k] = inbound[k + 1] /\ k + 1 \in 1 .. Len(inbound)
    BY <1>5, TailIndex DEF Typed, TypeOK
  <2>2. 1 \in 1 .. Len(inbound) /\ Head(inbound) = inbound[1]
    BY <1>5 DEF Typed, TypeOK
  <2>3. \A k \in 1 .. Len(inbound') : k \in Nat /\ k >= 1 /\ k + 1 # 1
    BY <1>5 DEF Typed, TypeOK
  <2>4. ASSUME NEW id \in CallIds PROVE CountedFor(id)'
    <3>1. Held(id)' => UnderWay(1, id)
      BY <1>5, <2>2 DEF Held, UnderWay
    <3>2. \A k \in 1 .. Len(inbound') : UnderWay(k, id)' => UnderWay(k + 1, id)
      BY <2>1 DEF UnderWay
    <3>3. CountedFor(id) /\ UNCHANGED <<done, answers>>
      BY <1>5 DEF Counted
    <3>4. id \in done' \/ Held(id)' => answers'[id] >= 1
      BY <2>2, <3>1, <3>3 DEF CountedFor
    <3>5. id \in done' /\ Held(id)' => answers'[id] >= 2
      BY <2>2, <3>1, <3>3 DEF CountedFor
    <3>6. ASSUME NEW k \in 1 .. Len(inbound'), UnderWay(k, id)'
          PROVE  /\ answers'[id] >= 1
                 /\ id \in done' \/ Held(id)' => answers'[id] >= 2
                 /\ \A j \in 1 .. Len(inbound') :
                      j # k /\ UnderWay(j, id)' => answers'[id] >= 2
      BY <2>1, <2>2, <2>3, <3>1, <3>2, <3>3, <3>6 DEF CountedFor
    <3>7. QED BY <3>4, <3>5, <3>6 DEF CountedFor, Held, UnderWay
  <2>5. OnlyDuplicatesPanic'
    BY <1>5 DEF OnlyDuplicatesPanic
  <2>6. QED BY <2>4, <2>5 DEF Counted
<1>6. CASE LoopStep
  <2>1. CASE ReadAnswer
    <3>1. loop' = "resolve" => /\ Head(inbound).kind = "answer"
                               /\ found'[1] = Head(inbound).id
      BY <2>1 DEF ReadAnswer, Reading
    <3>2. QED BY <1>5, <2>1, <3>1 DEF ReadAnswer, Reading
  <2>2. CASE Resolve
    <3>1. found[1] \in CallIds
      BY <2>2, FoundParts DEF Resolve, Typed, TypeOK
    <3>2. Held(found[1]) /\ CountedFor(found[1])
      BY <2>2, <3>1 DEF Resolve, Held, Counted
    <3>3. /\ UNCHANGED <<inbound, answers>>
          /\ done' = done \cup {found[1]}
          /\ loop' = IF found[1] \in done THEN "panicked" ELSE "read"
      BY <2>2 DEF Resolve, Deliver
    <3>4. OnlyDuplicatesPanic'
      BY <3>1, <3>2, <3>3 DEF OnlyDuplicatesPanic, CountedFor, Typed, TypeOK
    <3>5. ASSUME NEW id \in CallIds PROVE CountedFor(id)'
      <4>1. CASE id = found[1]
        BY <3>2, <3>3, <4>1 DEF CountedFor, Held, UnderWay
      <4>2. CASE id # found[1]
        BY <3>3, <4>2 DEF Counted, CountedFor, Held, UnderWay
      <4>3. QED BY <4>1, <4>2
    <3>6. QED BY <3>4, <3>5 DEF Counted
  <2>3. CASE ReadCall \/ ReadCallFails
    BY <1>5, <2>3 DEF ReadCall, ReadCallFails, Reading
  <2>4. CASE ReadFails
    BY <2>4 DEF ReadFails, Counted, CountedFor, Held, UnderWay, OnlyDuplicatesPanic
  <2>5. QED BY <1>6, <2>1, <2>2, <2>3, <2>4 DEF LoopStep
\* A frame joins the tail of the queue.
<1>7. CASE PageAnswers
  <2>1. PICK new \in asked, a \in Answers :
          /\ inbound' = Append(inbound, AnswerFrame(new, a))
          /\ answers' = [answers EXCEPT ![new] = @ + 1]
    BY <1>7 DEF PageAnswers
  <2>2. /\ new \in CallIds /\ UNCHANGED <<loop, found, done>>
        /\ \A id \in CallIds : answers[id] \in Nat /\ Len(inbound) \in Nat
    BY <1>7 DEF PageAnswers, Typed, TypeOK
  <2>3. \A id \in CallIds : answers'[id] = IF id = new THEN answers[id] + 1 ELSE answers[id]
    BY <2>1, <2>2 DEF Typed, TypeOK
  <2>4. /\ Len(inbound') = Len(inbound) + 1
        /\ \A k \in 1 .. Len(inbound) : inbound'[k] = inbound[k]
        /\ inbound'[Len(inbound) + 1] = AnswerFrame(new, a)
    BY <2>1, <2>2 DEF Typed, TypeOK, Frames, AnswerFrame
  <2>5. ASSUME NEW id \in CallIds PROVE CountedFor(id)'
    <3>1. CountedFor(id) /\ answers[id] \in Nat
      BY <2>2 DEF Counted
    <3>2. CASE id # new
      <4>1. answers'[id] = answers[id] /\ AnswerFrame(new, a).id # id
        BY <2>3, <3>2 DEF AnswerFrame
      <4>2. \A k \in 1 .. Len(inbound') : UnderWay(k, id)' => k \in 1 .. Len(inbound) /\ UnderWay(k, id)
        BY <2>2, <2>4, <4>1 DEF UnderWay
      <4>3. (id \in done <=> id \in done') /\ (Held(id) <=> Held(id)')
        BY <2>2 DEF Held
      <4>4. QED BY <3>1, <4>1, <4>2, <4>3 DEF CountedFor
    <3>3. CASE id = new
      <4>1. answers'[id] = answers[id] + 1
        BY <2>3, <3>3
      <4>2. \A k \in 1 .. Len(inbound) : UnderWay(k, id)' => UnderWay(k, id)
        BY <2>4 DEF UnderWay
      <4>3. \A k \in 1 .. Len(inbound') : k # Len(inbound) + 1 => k \in 1 .. Len(inbound)
        BY <2>2, <2>4
      <4>4. (id \in done <=> id \in done') /\ (Held(id) <=> Held(id)')
        BY <2>2 DEF Held
      <4>5. id \in done \/ Held(id) => answers'[id] >= 2
        BY <3>1, <4>1 DEF CountedFor
      <4>6. \A k \in 1 .. Len(inbound) : UnderWay(k, id)' => answers'[id] >= 2
        BY <3>1, <4>1, <4>2 DEF CountedFor
      <4>7. answers'[id] >= 1
        BY <3>1, <4>1
      <4>8. QED BY <4>3, <4>4, <4>5, <4>6, <4>7 DEF CountedFor, Held, UnderWay
    <3>4. QED BY <3>2, <3>3
  <2>6. OnlyDuplicatesPanic'
    BY <2>2, <2>3 DEF Counted, OnlyDuplicatesPanic
  <2>7. QED BY <2>5, <2>6 DEF Counted
<1>8. CASE PageCalls
  <2>1. PICK n \in Nat : inbound' = Append(inbound, CallFrame(n))
    BY <1>8 DEF PageCalls, Typed, TypeOK
  <2>2. UNCHANGED <<loop, found, done, answers>> /\ Len(inbound) \in Nat
    BY <1>8 DEF PageCalls, Typed, TypeOK
  <2>3. /\ Len(inbound') = Len(inbound) + 1
        /\ \A k \in 1 .. Len(inbound) : inbound'[k] = inbound[k]
        /\ inbound'[Len(inbound) + 1].kind = "call"
    BY <2>1, <2>2 DEF Typed, TypeOK, Frames, CallFrame
  <2>4. ASSUME NEW id \in CallIds PROVE CountedFor(id)'
    <3>1. \A k \in 1 .. Len(inbound') : UnderWay(k, id)' => k \in 1 .. Len(inbound) /\ UnderWay(k, id)
      BY <2>2, <2>3 DEF UnderWay
    <3>2. QED BY <2>2, <3>1 DEF Counted, CountedFor, Held
  <2>5. QED BY <2>2, <2>4 DEF Counted, OnlyDuplicatesPanic
<1>9. QED
  BY <1>2, <1>3, <1>4, <1>6, <1>7, <1>8 DEF Next

\* The read loop can only be brought down by a page that answers a call twice.
THEOREM LoopSurvivesSingleAnswers == Spec => []OnlyDuplicatesPanic
<1>1. Counted => OnlyDuplicatesPanic
  BY DEF Counted
<1>2. QED
  BY <1>1, CountedInit, CountedNext, TypedInit, TypedNext, PTL DEF Spec

----------------------------------------------------------------------------
(* The page's own CALLs wait in the order they were made, from the first one  *)
(* not yet answered, for as long as the loop reads.                           *)
IsCall(i) == inbound[i].kind = "call"

Waiting ==
    /\ Len(replied) <= issued
    /\ \A i \in 1 .. Len(inbound) : IsCall(i) => inbound[i].number \in Len(replied) + 1 .. issued
    /\ \A i, j \in 1 .. Len(inbound) :
         IsCall(i) /\ IsCall(j) /\ i < j => inbound[i].number < inbound[j].number
    /\ \A n \in Len(replied) + 1 .. issued :
         \E i \in 1 .. Len(inbound) : IsCall(i) /\ inbound[i].number = n

Queued == CallsAnsweredInOrder /\ (loop \in {"read", "resolve"} => Waiting)

LEMMA QueuedInit == Init => Queued
  BY DEF Init, Queued, CallsAnsweredInOrder, Waiting

LEMMA QueuedNext == Typed /\ Queued /\ [Next]_vars => Queued'
<1> SUFFICES ASSUME Typed, Queued, [Next]_vars PROVE Queued'
  OBVIOUS
<1> USE DEF callVars, pageVars, loopVars
<1>a. /\ inbound \in Seq(Frames) /\ Len(inbound) \in Nat
      /\ replied \in Seq(Nat) /\ Len(replied) \in Nat /\ issued \in Nat
  BY DEF Typed, TypeOK
<1>1. ASSUME UNCHANGED <<inbound, replied, issued>>,
             loop' \in {"read", "resolve"} => loop \in {"read", "resolve"}
      PROVE  Queued'
  BY <1>1 DEF Queued, CallsAnsweredInOrder, Waiting, IsCall
<1>2. ASSUME NEW c \in Callers, Register(c) \/ CallStep(c) \/ Expire(c) PROVE Queued'
  BY <1>1, <1>2 DEF Register, CallStep, Send, SendFails, CallCancelled, CallAnswered,
                    Return, Expire
<1>3. CASE Teardown \/ PageLeaves \/ Resolve \/ ReadFails \/ UNCHANGED vars
  BY <1>1, <1>3 DEF Teardown, CloseConn, CancelContext, PageLeaves, Resolve, ReadFails, vars
\* The first frame is an answer: the queue of CALLs only moves up.
<1>4. CASE ReadAnswer
  <2>1. /\ inbound # <<>> /\ inbound' = Tail(inbound) /\ ~IsCall(1) /\ loop = "read"
        /\ UNCHANGED <<replied, issued>>
    BY <1>4, <1>a DEF ReadAnswer, Reading, IsCall
  <2>2. \A k \in 1 .. Len(inbound') : inbound'[k] = inbound[k + 1] /\ k + 1 \in 1 .. Len(inbound)
    BY <1>a, <2>1, TailIndex
  <2>3. Len(inbound') = Len(inbound) - 1
    BY <1>a, <2>1
  <2>4. Waiting
    BY <2>1 DEF Queued
  <2>5. \A n \in Len(replied') + 1 .. issued' :
           \E i \in 1 .. Len(inbound') : IsCall(i)' /\ inbound'[i].number = n
    <3> SUFFICES ASSUME NEW n \in Len(replied) + 1 .. issued
                 PROVE  \E i \in 1 .. Len(inbound') : IsCall(i)' /\ inbound'[i].number = n
      BY <2>1
    <3>1. PICK i \in 1 .. Len(inbound) : IsCall(i) /\ inbound[i].number = n
      BY <2>4 DEF Waiting
    <3>2. i # 1 /\ i - 1 \in 1 .. Len(inbound') /\ (i - 1) + 1 = i
      BY <1>a, <2>1, <2>3, <3>1
    <3>3. inbound'[i - 1] = inbound[i]
      BY <2>2, <3>2
    <3>4. QED BY <3>1, <3>2, <3>3 DEF IsCall
  <2>6. Waiting'
    BY <1>a, <2>1, <2>2, <2>3, <2>4, <2>5 DEF Waiting, IsCall
  <2>7. QED BY <2>1, <2>6 DEF Queued, CallsAnsweredInOrder
\* The first frame is a CALL, and the first one not yet answered.
<1>5. CASE ReadCall
  <2>1. /\ inbound # <<>> /\ inbound' = Tail(inbound) /\ IsCall(1) /\ loop = "read"
        /\ replied' = Append(replied, inbound[1].number) /\ UNCHANGED issued
    BY <1>5, <1>a DEF ReadCall, Reading, IsCall, AnswerCall
  <2>2. \A k \in 1 .. Len(inbound') : inbound'[k] = inbound[k + 1] /\ k + 1 \in 1 .. Len(inbound)
    BY <1>a, <2>1, TailIndex
  <2>3. Len(inbound') = Len(inbound) - 1 /\ 1 \in 1 .. Len(inbound)
    BY <1>a, <2>1
  <2>4. Waiting
    BY <2>1 DEF Queued
  <2>5. inbound[1].number = Len(replied) + 1
    <3>1. inbound[1].number \in Len(replied) + 1 .. issued
      BY <2>1, <2>3, <2>4 DEF Waiting
    <3>2. PICK i \in 1 .. Len(inbound) : IsCall(i) /\ inbound[i].number = Len(replied) + 1
      BY <1>a, <2>4, <3>1, SMTT(30) DEF Waiting
    <3>3. i # 1 => inbound[1].number < inbound[i].number
      BY <2>1, <2>3, <2>4, <3>2 DEF Waiting
    <3>4. QED BY <1>a, <3>1, <3>2, <3>3
  <2>6. Len(replied') = Len(replied) + 1
    BY <1>a, <2>1
  <2>7. CallsAnsweredInOrder'
    BY <1>a, <2>1, <2>5, <2>6 DEF Queued, CallsAnsweredInOrder
  <2>8. \A n \in Len(replied') + 1 .. issued' :
           \E i \in 1 .. Len(inbound') : IsCall(i)' /\ inbound'[i].number = n
    <3> SUFFICES ASSUME NEW n \in Len(replied') + 1 .. issued'
                 PROVE  \E i \in 1 .. Len(inbound') : IsCall(i)' /\ inbound'[i].number = n
      OBVIOUS
    <3>0. n \in Len(replied) + 1 .. issued /\ n # Len(replied) + 1
      BY <1>a, <2>1, <2>6
    <3>1. PICK i \in 1 .. Len(inbound) : IsCall(i) /\ inbound[i].number = n
      BY <2>4, <3>0 DEF Waiting
    <3>2. i # 1 /\ i - 1 \in 1 .. Len(inbound') /\ (i - 1) + 1 = i
      BY <1>a, <2>3, <2>5, <3>0, <3>1
    <3>3. inbound'[i - 1] = inbound[i]
      BY <2>2, <3>2
    <3>4. QED BY <3>1, <3>2, <3>3 DEF IsCall
  <2>9. ASSUME NEW k \in 1 .. Len(inbound'), IsCall(k)'
        PROVE  inbound'[k].number \in Len(replied') + 1 .. issued'
    <3>1. IsCall(k + 1) /\ inbound'[k] = inbound[k + 1] /\ 1 < k + 1
      BY <1>a, <2>2, <2>3, <2>9 DEF IsCall
    <3>2. /\ inbound[1].number < inbound[k + 1].number
          /\ inbound[k + 1].number \in Len(replied) + 1 .. issued
      BY <2>1, <2>2, <2>3, <2>4, <3>1 DEF Waiting
    <3>3. QED BY <1>a, <2>1, <2>5, <2>6, <3>1, <3>2
  <2>10. ASSUME NEW i \in 1 .. Len(inbound'), NEW j \in 1 .. Len(inbound'),
                IsCall(i)', IsCall(j)', i < j
         PROVE  inbound'[i].number < inbound'[j].number
    <3>1. i + 1 < j + 1 /\ i + 1 \in 1 .. Len(inbound) /\ j + 1 \in 1 .. Len(inbound)
      BY <1>a, <2>2, <2>3, <2>10
    <3>2. inbound'[i] = inbound[i + 1] /\ inbound'[j] = inbound[j + 1]
      BY <2>2
    <3>3. IsCall(i + 1) /\ IsCall(j + 1)
      BY <2>10, <3>2 DEF IsCall
    <3>4. QED BY <2>4, <3>1, <3>2, <3>3 DEF Waiting
  <2>11. Len(replied') <= issued'
    BY <1>a, <2>1, <2>3, <2>4, <2>5, <2>6 DEF Waiting
  <2>12. QED BY <2>7, <2>8, <2>9, <2>10, <2>11 DEF Queued, Waiting
<1>6. CASE ReadCallFails
  BY <1>6 DEF ReadCallFails, Queued, CallsAnsweredInOrder
\* A frame joins the tail of the queue.
<1>7. CASE PageAnswers
  <2>1. PICK new \in asked, a \in Answers : inbound' = Append(inbound, AnswerFrame(new, a))
    BY <1>7 DEF PageAnswers
  <2>2. UNCHANGED <<loop, replied, issued>> /\ AnswerFrame(new, a).kind = "answer"
    BY <1>7 DEF PageAnswers, AnswerFrame
  <2>3. /\ Len(inbound') = Len(inbound) + 1
        /\ \A k \in 1 .. Len(inbound) : inbound'[k] = inbound[k]
        /\ inbound'[Len(inbound) + 1] = AnswerFrame(new, a)
    BY <1>a, <2>1
  <2>4. \A k \in 1 .. Len(inbound') : IsCall(k)' => k \in 1 .. Len(inbound) /\ IsCall(k)
    BY <1>a, <2>2, <2>3 DEF IsCall
  <2>5. Waiting => Waiting'
    <3> SUFFICES ASSUME Waiting PROVE Waiting'
      OBVIOUS
    <3>1. \A k \in 1 .. Len(inbound) : inbound'[k] = inbound[k] /\ k \in 1 .. Len(inbound')
      BY <1>a, <2>3
    <3>2. \A k \in 1 .. Len(inbound') :
             IsCall(k)' => inbound'[k].number \in Len(replied') + 1 .. issued'
      BY <2>2, <2>4, <3>1 DEF Waiting
    <3>3. \A i, j \in 1 .. Len(inbound') :
             IsCall(i)' /\ IsCall(j)' /\ i < j => inbound'[i].number < inbound'[j].number
      BY <2>4, <3>1 DEF Waiting
    <3>4. \A n \in Len(replied') + 1 .. issued' :
             \E i \in 1 .. Len(inbound') : IsCall(i)' /\ inbound'[i].number = n
      BY <2>2, <3>1 DEF Waiting, IsCall
    <3>5. QED BY <2>2, <3>2, <3>3, <3>4 DEF Waiting
  <2>6. QED BY <2>2, <2>5 DEF Queued, CallsAnsweredInOrder
<1>8. CASE PageCalls
  <2>1. /\ inbound' = Append(inbound, CallFrame(issued + 1)) /\ issued' = issued + 1
        /\ UNCHANGED <<loop, replied>>
    BY <1>8 DEF PageCalls
  <2>2. /\ Len(inbound') = Len(inbound) + 1
        /\ \A k \in 1 .. Len(inbound) : inbound'[k] = inbound[k]
        /\ inbound'[Len(inbound) + 1] = [kind |-> "call", number |-> issued + 1]
    BY <1>a, <2>1 DEF CallFrame
  <2>3. Waiting => Waiting'
    <3> SUFFICES ASSUME Waiting PROVE Waiting'
      OBVIOUS
    <3>1. \A k \in 1 .. Len(inbound') :
             \/ k \in 1 .. Len(inbound) /\ inbound'[k] = inbound[k]
             \/ k = Len(inbound) + 1 /\ IsCall(k)' /\ inbound'[k].number = issued'
      BY <1>a, <2>1, <2>2 DEF IsCall
    <3>2. \A k \in 1 .. Len(inbound') :
             IsCall(k)' => inbound'[k].number \in Len(replied') + 1 .. issued'
      BY <1>a, <2>1, <3>1 DEF Waiting, IsCall
    <3>3. \A i, j \in 1 .. Len(inbound') :
             IsCall(i)' /\ IsCall(j)' /\ i < j => inbound'[i].number < inbound'[j].number
      BY <1>a, <2>1, <2>2, <3>1 DEF Waiting, IsCall
    <3>4. \A n \in Len(replied') + 1 .. issued' :
             \E i \in 1 .. Len(inbound') : IsCall(i)' /\ inbound'[i].number = n
      <4> SUFFICES ASSUME NEW n \in Len(replied) + 1 .. issued + 1
                   PROVE  \E i \in 1 .. Len(inbound') : IsCall(i)' /\ inbound'[i].number = n
        BY <2>1
      <4>1. CASE n = issued + 1
        BY <1>a, <2>2, <4>1 DEF IsCall
      <4>2. CASE n # issued + 1
        <5>1. n \in Len(replied) + 1 .. issued
          BY <1>a, <4>2
        <5>2. PICK i \in 1 .. Len(inbound) : IsCall(i) /\ inbound[i].number = n
          BY <5>1 DEF Waiting
        <5>3. i \in 1 .. Len(inbound') /\ inbound'[i] = inbound[i]
          BY <1>a, <2>2
        <5>4. QED BY <5>2, <5>3 DEF IsCall
      <4>3. QED BY <4>1, <4>2
    <3>5. QED BY <1>a, <2>1, <3>2, <3>3, <3>4 DEF Waiting
  <2>4. QED BY <2>1, <2>3 DEF Queued, CallsAnsweredInOrder
<1>9. QED
  BY <1>2, <1>3, <1>4, <1>5, <1>6, <1>7, <1>8 DEF Next, LoopStep

\* The page's CALLs are answered once each and in their order, however many it makes
\* and whatever answers of its own come between them.
THEOREM CallsInOrder == Spec => []CallsAnsweredInOrder
<1>1. Queued => CallsAnsweredInOrder
  BY DEF Queued
<1>2. QED
  BY <1>1, QueuedInit, QueuedNext, TypedInit, TypedNext, PTL DEF Spec
=============================================================================
