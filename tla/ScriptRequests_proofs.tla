------------------------ MODULE ScriptRequests_proofs ------------------------
(***************************************************************************)
(* A script as the backend sees it: theorems about the requests of its      *)
(* threads (ScriptRequests, for any threads, kinds of request and bounds)   *)
(* and about its process and the capture of its stderr (Process, for a pipe *)
(* of any size and any output).                                            *)
(*                                                                         *)
(* The module extends the first and takes the second as an instance.  The   *)
(* name reader stands for the variable of the one that a formula is about,  *)
(* and what Process assumes of its constants, OutputBounds, is a hypothesis *)
(* of its theorems.                                                        *)
(***************************************************************************)
EXTENDS ScriptRequests, SequenceTheorems, TLAPS

\* A thread is inside _request_lock.
Holds(t) == thread[t] \in {"put", "waiting"}

Exclusive == \A t, u \in Thread : Holds(t) /\ Holds(u) => t = u

\* A request that was made has a number.
Numbered == \A t \in Thread : thread[t] # "idle" => call[t].id # 0

\* The reader ends after Execute, when it has read everything.
Endings == reader = "ended" => exec = "ended" /\ down = <<>>

OnlyCancels(s)  == \A i \in 1..Len(s) : s[i] = Cancel
OneAnswer(s, m) == \E i \in 1..Len(s) :
                      s[i] = m /\ \A j \in 1..Len(s) : j # i => s[j] = Cancel

\* Where the request m, or its answer, can be, and nothing else anywhere.
Nowhere ==
    /\ requests = <<>> /\ exec # "serving" /\ OnlyCancels(down)
    /\ queue = <<>> \/ (queue = <<End>> /\ reader = "ended")
Sent(m) ==
    /\ requests = <<m>> /\ exec = "recv" /\ OnlyCancels(down)
    /\ queue = <<>>
Served(m) ==
    /\ requests = <<>> /\ exec = "serving" /\ serving = m /\ OnlyCancels(down)
    /\ queue = <<>>
Answered(m) ==
    /\ requests = <<>> /\ exec # "serving" /\ OneAnswer(down, m)
    /\ queue = <<>>
Queued(m) ==
    /\ requests = <<>> /\ exec # "serving" /\ OnlyCancels(down)
    /\ queue = <<m>> \/ (queue = <<m, End>> /\ reader = "ended")

Carried(m) == Nowhere \/ Sent(m) \/ Served(m) \/ Answered(m) \/ Queued(m)

\* At most one request is on its way, that of the thread that waits.
OneInFlight ==
    timeouts = 0 =>
        /\ (\A t \in Thread : thread[t] # "waiting") => Nowhere
        /\ \A t \in Thread : thread[t] = "waiting" => Carried(call[t])

Inv ==
    /\ TypeOK /\ Exclusive /\ Numbered /\ Endings
    /\ OneInFlight /\ AnswersMatch

-----------------------------------------------------------------------------
(* Sequences of messages *)

LEMMA OnlyCancelsAppend ==
    ASSUME NEW S, Cancel \in S, NEW s \in Seq(S), OnlyCancels(s)
    PROVE  OnlyCancels(Append(s, Cancel))
BY DEF OnlyCancels

LEMMA OnlyCancelsTail ==
    ASSUME NEW S, NEW s \in Seq(S), s # <<>>, OnlyCancels(s)
    PROVE  OnlyCancels(Tail(s)) /\ Head(s) = Cancel
BY DEF OnlyCancels

LEMMA AnswerAppended ==
    ASSUME NEW S, NEW s \in Seq(S), NEW m \in S, OnlyCancels(s)
    PROVE  OneAnswer(Append(s, m), m)
<1>1. /\ Append(s, m)[Len(s) + 1] = m /\ Len(Append(s, m)) = Len(s) + 1
      /\ \A j \in 1..Len(s) : Append(s, m)[j] = s[j]
  OBVIOUS
<1> QED  BY <1>1 DEF OnlyCancels, OneAnswer

LEMMA OneAnswerAppend ==
    ASSUME NEW S, Cancel \in S, NEW s \in Seq(S), NEW m \in S, OneAnswer(s, m)
    PROVE  OneAnswer(Append(s, Cancel), m)
<1>1. /\ Append(s, Cancel)[Len(s) + 1] = Cancel /\ Len(Append(s, Cancel)) = Len(s) + 1
      /\ \A j \in 1..Len(s) : Append(s, Cancel)[j] = s[j]
  OBVIOUS
<1> QED  BY <1>1 DEF OneAnswer

LEMMA AppendShort ==
    ASSUME NEW S, NEW a \in S, NEW b \in S
    PROVE  Append(<<>>, a) = <<a>> /\ Append(<<a>>, b) = <<a, b>>
<1>1. <<>> \in Seq(S) /\ <<a>> \in Seq(S) /\ <<a, b>> \in Seq(S)
  OBVIOUS
<1>2. Append(<<>>, a) \in Seq(S) /\ Len(Append(<<>>, a)) = 1 /\ Append(<<>>, a)[1] = a
  BY <1>1, AppendProperties
<1>3. Append(<<>>, a) = <<a>>
  BY <1>1, <1>2, SeqEqual
<1>4. /\ Append(<<a>>, b) \in Seq(S) /\ Len(Append(<<a>>, b)) = 2
      /\ Append(<<a>>, b)[1] = a /\ Append(<<a>>, b)[2] = b
  BY <1>1, AppendProperties
<1>5. Append(<<a>>, b) = <<a, b>>
  <2>1. Len(<<a, b>>) = 2 /\ <<a, b>>[1] = a /\ <<a, b>>[2] = b
    OBVIOUS
  <2>2. \A i \in 1..2 : Append(<<a>>, b)[i] = <<a, b>>[i]
    BY <1>4, <2>1
  <2> QED  BY <1>1, <1>4, <2>1, <2>2, SeqEqual
<1> QED  BY <1>3, <1>5

\* The reader takes a CancelRequest, or the answer and leaves only CancelRequests.
LEMMA OneAnswerTail ==
    ASSUME NEW S, NEW s \in Seq(S), NEW m \in S, m # Cancel, OneAnswer(s, m)
    PROVE  /\ s # <<>>
           /\ \/ Head(s) = Cancel /\ OneAnswer(Tail(s), m)
              \/ Head(s) = m /\ OnlyCancels(Tail(s))
<1>1. PICK i \in 1..Len(s) : s[i] = m /\ \A j \in 1..Len(s) : j # i => s[j] = Cancel
  BY DEF OneAnswer
<1>2. s # <<>> /\ Len(Tail(s)) = Len(s) - 1 /\ Head(s) = s[1]
      /\ \A j \in 1..Len(Tail(s)) : Tail(s)[j] = s[j + 1]
  BY <1>1
<1>3. CASE i = 1
  BY <1>1, <1>2, <1>3 DEF OnlyCancels
<1>4. CASE i # 1
  <2>1. i - 1 \in 1..Len(Tail(s)) /\ Tail(s)[i - 1] = m
    BY <1>1, <1>2, <1>4
  <2>2. \A j \in 1..Len(Tail(s)) : j # i - 1 => Tail(s)[j] = Cancel
    BY <1>1, <1>2
  <2> QED  BY <1>1, <1>2, <1>4, <2>1, <2>2 DEF OneAnswer
<1> QED  BY <1>3, <1>4

-----------------------------------------------------------------------------
LEMMA InitInv == Init => Inv
<1> SUFFICES ASSUME Init PROVE Inv
  OBVIOUS
<1> USE DialogAssumption, MaxCallsAssumption, MaxTimeoutsAssumption DEF Init
<1>1. TypeOK
  <2>1. Nothing \in Request /\ 0 \in 0..MaxCalls /\ 0 \in 0..MaxTimeouts
    BY DEF Nothing, Request
  <2>2. outcome \in [Thread -> [how : {"none", "answer", "mismatch", "timeout", "closed", "cancelled"},
                              got : 0..MaxCalls]]
    BY <2>1
  <2>3. call \in [Thread -> Request] /\ serving \in Request
    BY <2>1
  <2>4. thread \in [Thread -> {"idle", "lock", "put", "waiting"}]
    OBVIOUS
  <2>5. /\ requests \in Seq(Request) /\ down \in Seq(Request \cup {Cancel})
        /\ queue \in Seq(Request \cup {End})
    OBVIOUS
  <2>6. calls \in 0..MaxCalls /\ timeouts \in 0..MaxTimeouts
    OBVIOUS
  <2> QED  BY <2>2, <2>3, <2>4, <2>5, <2>6 DEF TypeOK
<1>2. Exclusive /\ Numbered /\ AnswersMatch
  BY DEF Exclusive, Numbered, AnswersMatch, Holds
<1>3. Endings  BY DEF Endings
<1>4. OneInFlight  BY DEF OneInFlight, Nowhere, OnlyCancels
<1> QED  BY <1>1, <1>2, <1>3, <1>4 DEF Inv

LEMMA TypeNext == TypeOK /\ [Next]_vars => TypeOK'
<1> SUFFICES ASSUME TypeOK, [Next]_vars PROVE TypeOK'
  OBVIOUS
<1> USE DialogAssumption, MaxCallsAssumption, MaxTimeoutsAssumption DEF TypeOK
<1>1. ASSUME NEW t \in Thread, NEW k \in Kind, Call(t, k) PROVE TypeOK'
  BY <1>1 DEF Call, Request, serverVars
<1>2. ASSUME NEW t \in Thread, SendCancelled(t) \/ SendChecked(t)
      PROVE  TypeOK'
  <2>1. CASE SendCancelled(t)
    BY <2>1 DEF SendCancelled, Return, serverVars
  <2>2. CASE SendChecked(t)
    BY <2>2 DEF SendChecked, serverVars
  <2> QED  BY <1>2, <2>1, <2>2
<1>12. ASSUME NEW t \in Thread, GiveUp(t) PROVE TypeOK'
  <2>1. 0 \in 0..MaxCalls /\ timeouts' \in 0..MaxTimeouts
    BY <1>12 DEF GiveUp, ResponseTimeout
  <2> QED  BY <1>12, <2>1 DEF GiveUp, Return, serverVars
<1>9. ASSUME NEW t \in Thread, Put(t) PROVE TypeOK'
  <2>1. call[t] \in Request  OBVIOUS
  <2>2. Append(requests, call[t]) \in Seq(Request)  BY <2>1
  <2>3. requests' \in Seq(Request)  BY <1>9, <2>2 DEF Put
  <2> QED  BY <1>9, <2>3 DEF Put, serverVars
<1>3. ASSUME NEW t \in Thread, Recv(t) PROVE TypeOK'
  <2>1. Head(queue) \in Request \cup {End} /\ Tail(queue) \in Seq(Request \cup {End})
    BY <1>3 DEF Recv
  <2>2. Head(queue).id \in 0..MaxCalls
    BY <2>1 DEF Request, End
  <2> QED  BY <1>3, <2>1, <2>2 DEF Recv, Return, serverVars
<1>4. CASE Finish  BY <1>4 DEF Finish, callVars, serverVars
<1>5. CASE ExecTake
  <2>1. Head(requests) \in Request /\ Tail(requests) \in Seq(Request)
    BY <1>5 DEF ExecTake
  <2> QED  BY <1>5, <2>1 DEF ExecTake, callVars
<1>13. CASE ExecEnd \/ StreamBreaks
  <2>1. requests' = requests \/ requests' = <<>>
    BY <1>13 DEF ExecEnd, StreamBreaks
  <2>2. requests' \in Seq(Request)
    <3>1. <<>> \in Seq(Request)
      OBVIOUS
    <3>2. requests \in Seq(Request)
      OBVIOUS
    <3> QED  BY ONLY <2>1, <3>1, <3>2
  <2>3. exec' = "ended" /\ UNCHANGED <<callVars, serving, down, queue, reader, cancelSent,
                                       cancelEvent, finished>>
    BY <1>13 DEF ExecEnd, StreamBreaks
  <2> QED  BY <2>2, <2>3 DEF callVars
<1>10. CASE ExecAnswer  BY <1>10 DEF ExecAnswer, callVars
<1>11. CASE SendCancel  BY <1>11 DEF SendCancel, callVars
<1>6. CASE ReaderTake
  <2>1. Head(down) \in Request \cup {Cancel} /\ Tail(down) \in Seq(Request \cup {Cancel})
    BY <1>6 DEF ReaderTake
  <2> QED  BY <1>6, <2>1 DEF ReaderTake, IsAnswer, callVars
<1>7. CASE ReaderEnd  BY <1>7 DEF ReaderEnd, callVars, serverVars
<1>8. CASE UNCHANGED vars  BY <1>8 DEF vars, callVars, serverVars
<1> QED
  BY <1>1, <1>2, <1>3, <1>4, <1>5, <1>6, <1>7, <1>8, <1>9, <1>10, <1>11,
     <1>12, <1>13
  DEF Next, Script, Reader, Terminated

-----------------------------------------------------------------------------
\* One thread at a time is inside the lock, and a request in the making has a number.
LEMMA LockNext ==
    ASSUME Inv, [Next]_vars
    PROVE  Exclusive' /\ Numbered'
<1> USE MaxCallsAssumption DEF Inv, TypeOK, Exclusive, Numbered, Holds
<1>1. ASSUME NEW t \in Thread, NEW k \in Kind, Call(t, k) PROVE Exclusive' /\ Numbered'
  BY <1>1 DEF Call
<1>2. ASSUME NEW t \in Thread, SendCancelled(t) \/ SendChecked(t) \/ Put(t)
      PROVE  Exclusive' /\ Numbered'
  BY <1>2 DEF SendCancelled, SendChecked, Put, Return, RequestLockFree
<1>3. ASSUME NEW t \in Thread, Recv(t) \/ GiveUp(t) PROVE Exclusive' /\ Numbered'
  BY <1>3 DEF Recv, GiveUp, Return
<1>4. CASE UNCHANGED callVars
  BY <1>4 DEF callVars
<1> QED
  BY <1>1, <1>2, <1>3, <1>4
  DEF Next, Script, Reader, Terminated, Finish, ExecTake, ExecAnswer, ExecEnd, SendCancel,
      ReaderTake, ReaderEnd, StreamBreaks, vars, callVars

LEMMA EndingsNext ==
    ASSUME Inv, [Next]_vars
    PROVE  Endings'
<1> USE DEF Inv, Endings
<1>1. CASE \/ ExecTake \/ ExecAnswer \/ ExecEnd \/ StreamBreaks \/ SendCancel
         \/ ReaderTake \/ ReaderEnd \/ Finish
  BY <1>1 DEF ExecTake, ExecAnswer, ExecEnd, StreamBreaks, SendCancel, ReaderTake, ReaderEnd, ReaderRuns,
              Finish, serverVars
<1>2. CASE UNCHANGED <<exec, reader, down, finished>>
  BY <1>2
<1> QED
  BY <1>1, <1>2
  DEF Next, Script, Reader, Terminated, Call, SendCancelled, SendChecked, Put, Recv, GiveUp,
      vars, serverVars

\* The steps of a calling thread.
LEMMA InFlightThread ==
    ASSUME Inv, NEW t \in Thread, timeouts' = 0,
           Script(t) \/ \E k \in Kind : Call(t, k)
    PROVE  OneInFlight' /\ AnswersMatch'
<1> USE MaxCallsAssumption DEF Inv, TypeOK
<1>0. timeouts = 0
  BY DEF Script, Call, SendCancelled, SendChecked, Put, Recv, GiveUp
<1>1. ASSUME NEW k \in Kind, Call(t, k) PROVE OneInFlight' /\ AnswersMatch'
  <2>1. \A u \in Thread : thread'[u] = "waiting" => thread[u] = "waiting" /\ call'[u] = call[u]
    BY <1>1 DEF Call
  <2>2. \A u \in Thread : thread[u] = "waiting" => thread'[u] = "waiting"
    BY <1>1 DEF Call
  <2>3. OneInFlight'
    BY <1>0, <1>1, <2>1, <2>2
    DEF Call, serverVars, OneInFlight, Carried, Nowhere, Sent, Served, Answered, Queued
  <2> QED  BY <1>0, <1>1, <2>3 DEF Call, AnswersMatch
<1>2. CASE SendCancelled(t)
  <2>1. OneInFlight'
    BY <1>0, <1>2
    DEF SendCancelled, Return, serverVars, OneInFlight, Carried, Nowhere, Sent, Served,
        Answered, Queued
  <2> QED  BY <1>0, <1>2, <2>1 DEF SendCancelled, Return, AnswersMatch
<1>3. CASE SendChecked(t)
  <2>1. Nowhere
    BY <1>0, <1>3 DEF SendChecked, RequestLockFree, OneInFlight
  <2>2. Nowhere'
    BY <1>3, <2>1 DEF SendChecked, serverVars, Nowhere
  <2> QED  BY <1>0, <1>3, <2>2 DEF SendChecked, OneInFlight, Carried, AnswersMatch
<1>4. CASE Put(t)
  <2>1. Nowhere
    BY <1>0, <1>4 DEF Put, OneInFlight, Exclusive, Holds
  <2>2. \A u \in Thread : thread'[u] = "waiting" => u = t
    BY <1>4 DEF Put, Exclusive, Holds
  <2>3. Carried(call[t])'
    <3>1. CASE UNCHANGED requests
      BY <1>4, <2>1, <3>1 DEF Put, serverVars, Nowhere, Carried
    <3>2. CASE exec # "ended" /\ requests' = Append(requests, call[t])
      <4>1. Append(requests, call[t]) = <<call[t]>>
        BY <2>1, AppendShort DEF Nowhere
      <4>2. exec = "recv" /\ queue = <<>>
        BY <2>1, <3>2 DEF Nowhere, Endings
      <4>3. Sent(call[t])'
        BY <1>4, <2>1, <3>2, <4>1, <4>2 DEF Put, serverVars, Nowhere, Sent
      <4> QED  BY <4>3 DEF Carried
    <3> QED  BY <1>4, <3>1, <3>2 DEF Put
  <2>4. thread'[t] = "waiting"
    BY <1>4 DEF Put
  <2> QED  BY <1>0, <1>4, <2>2, <2>3, <2>4 DEF Put, OneInFlight, AnswersMatch
<1>5. CASE Recv(t)
  <2>1. Carried(call[t]) /\ call[t].id # 0
    BY <1>0, <1>5 DEF Recv, OneInFlight, Numbered
  <2>2. call[t] # End
    BY <2>1 DEF End
  <2>3. \/ Nowhere /\ queue = <<End>>
        \/ Queued(call[t])
    BY <1>5, <2>1 DEF Recv, Carried, Nowhere, Sent, Served, Answered
  <2>4. Nowhere'
    <3>1. \A m, e : Tail(<<m>>) = <<>> /\ Tail(<<m, e>>) = <<e>>
      OBVIOUS
    <3>2. queue' = <<>> \/ (queue' = <<End>> /\ reader = "ended")
      BY <1>5, <2>3, <3>1 DEF Recv, Queued
    <3>3. requests = <<>> /\ exec # "serving" /\ OnlyCancels(down)
      BY <2>3 DEF Nowhere, Queued
    <3> QED  BY <1>5, <3>2, <3>3 DEF Recv, serverVars, Nowhere
  <2>5. \A u \in Thread : thread'[u] # "waiting"
    BY <1>5 DEF Recv, Return, Exclusive, Holds
  <2>6. \/ outcome'[t].how = "closed"
        \/ outcome'[t].how = "answer" /\ outcome'[t].got = call[t].id
    BY <1>5, <2>2, <2>3 DEF Recv, Return, Queued
  <2> QED  BY <1>0, <1>5, <2>4, <2>5, <2>6 DEF Recv, Return, OneInFlight, AnswersMatch
<1>6. CASE GiveUp(t)
  <2>1. reader = "ended" /\ queue = <<>>
    BY <1>0, <1>6 DEF GiveUp, ResponseTimeout
  <2>2. Nowhere
    BY <1>0, <1>6, <2>1
    DEF GiveUp, Endings, OneInFlight, Carried, Nowhere, Sent, Served, Answered, Queued, OneAnswer
  <2>3. Nowhere'
    BY <1>6, <2>2 DEF GiveUp, serverVars, Nowhere
  <2> QED  BY <1>0, <1>6, <2>3 DEF GiveUp, Return, OneInFlight, Carried, AnswersMatch
<1> QED  BY <1>1, <1>2, <1>3, <1>4, <1>5, <1>6 DEF Script

\* A step of Execute, of SendCancel or of the reader.
Server == ExecTake \/ ExecAnswer \/ ExecEnd \/ StreamBreaks \/ SendCancel \/ Reader

\* Nothing comes of nothing.
LEMMA NowhereStays ==
    ASSUME TypeOK, Endings, Nowhere, Server
    PROVE  Nowhere'
<1> USE DEF TypeOK, Endings, Nowhere
<1>1. CASE ExecTake \/ ExecAnswer \/ ExecEnd \/ StreamBreaks
  BY <1>1 DEF ExecTake, ExecAnswer, ExecEnd, StreamBreaks
<1>2. CASE SendCancel
  <2>1. OnlyCancels(down')
    BY <1>2, OnlyCancelsAppend DEF SendCancel
  <2> QED  BY <1>2, <2>1 DEF SendCancel
<1>3. CASE ReaderTake
  <2>1. OnlyCancels(down') /\ Head(down) = Cancel
    BY <1>3, OnlyCancelsTail DEF ReaderTake
  <2> QED  BY <1>3, <2>1 DEF ReaderTake, IsAnswer
<1>4. CASE ReaderEnd
  BY <1>4 DEF ReaderEnd, ReaderRuns, serverVars
<1> QED  BY <1>1, <1>2, <1>3, <1>4 DEF Server, Reader

\* The request, or its answer, moves on by itself.
LEMMA CarriedOn ==
    ASSUME TypeOK, Endings, NEW m \in Request, m # Cancel, Carried(m), Server
    PROVE  Carried(m)'
<1> USE DEF TypeOK, Endings, Carried
<1>1. CASE Nowhere
  BY <1>1, NowhereStays
<1>6. CASE StreamBreaks
  BY <1>6 DEF StreamBreaks, Nowhere, Sent, Served, Answered, Queued
<1>2. CASE Sent(m)
  <2>1. CASE ExecTake
    BY <1>2, <2>1 DEF ExecTake, Sent, Served
  <2>2. CASE SendCancel
    <3>1. OnlyCancels(down')
      BY <1>2, <2>2, OnlyCancelsAppend DEF SendCancel, Sent
    <3> QED  BY <1>2, <2>2, <3>1 DEF SendCancel, Sent
  <2>3. CASE ReaderTake
    <3>1. OnlyCancels(down') /\ Head(down) = Cancel
      BY <1>2, <2>3, OnlyCancelsTail DEF ReaderTake, Sent
    <3> QED  BY <1>2, <2>3, <3>1 DEF ReaderTake, IsAnswer, Sent
  <2> QED
    BY <1>2, <1>6, <2>1, <2>2, <2>3 DEF Server, Reader, ExecAnswer, ExecEnd, ReaderEnd, Sent
<1>3. CASE Served(m)
  <2>1. CASE ExecAnswer
    <3>1. OneAnswer(down', m)
      BY <1>3, <2>1, AnswerAppended DEF ExecAnswer, Served
    <3> QED  BY <1>3, <2>1, <3>1 DEF ExecAnswer, Served, Answered
  <2>2. CASE SendCancel
    <3>1. OnlyCancels(down')
      BY <1>3, <2>2, OnlyCancelsAppend DEF SendCancel, Served
    <3> QED  BY <1>3, <2>2, <3>1 DEF SendCancel, Served
  <2>3. CASE ReaderTake
    <3>1. OnlyCancels(down') /\ Head(down) = Cancel
      BY <1>3, <2>3, OnlyCancelsTail DEF ReaderTake, Served
    <3> QED  BY <1>3, <2>3, <3>1 DEF ReaderTake, IsAnswer, Served
  <2> QED
    BY <1>3, <1>6, <2>1, <2>2, <2>3 DEF Server, Reader, ExecTake, ExecEnd, ReaderEnd, Served
<1>4. CASE Answered(m)
  <2>1. CASE SendCancel
    <3>1. OneAnswer(down', m)
      BY <1>4, <2>1, OneAnswerAppend DEF SendCancel, Answered
    <3> QED  BY <1>4, <2>1, <3>1 DEF SendCancel, Answered
  <2>2. CASE ReaderTake
    <3>1. \/ Head(down) = Cancel /\ OneAnswer(down', m)
          \/ Head(down) = m /\ OnlyCancels(down')
      BY <1>4, <2>2, OneAnswerTail DEF ReaderTake, Answered
    <3>2. CASE Head(down) = Cancel /\ OneAnswer(down', m)
      BY <1>4, <2>2, <3>2 DEF ReaderTake, IsAnswer, Answered
    <3>3. CASE Head(down) = m /\ OnlyCancels(down')
      BY <1>4, <2>2, <3>3 DEF ReaderTake, IsAnswer, Answered, Queued
    <3> QED  BY <3>1, <3>2, <3>3
  <2>3. CASE ExecEnd
    BY <1>4, <2>3 DEF ExecEnd, Answered
  <2>4. down # <<>>
    BY <1>4 DEF Answered, OneAnswer
  <2> QED
    BY <1>4, <1>6, <2>1, <2>2, <2>3, <2>4 DEF Server, Reader, ExecTake, ExecAnswer, ReaderEnd, Answered
<1>5. CASE Queued(m)
  <2>1. CASE ExecEnd
    BY <1>5, <2>1 DEF ExecEnd, Queued
  <2>2. CASE SendCancel
    <3>1. OnlyCancels(down')
      BY <1>5, <2>2, OnlyCancelsAppend DEF SendCancel, Queued
    <3> QED  BY <1>5, <2>2, <3>1 DEF SendCancel, Queued
  <2>3. CASE ReaderTake
    <3>1. OnlyCancels(down') /\ Head(down) = Cancel
      BY <1>5, <2>3, OnlyCancelsTail DEF ReaderTake, Queued
    <3> QED  BY <1>5, <2>3, <3>1 DEF ReaderTake, IsAnswer, Queued
  <2>4. CASE ReaderEnd
    <3>1. Append(<<m>>, End) = <<m, End>>
      <4>1. m \in Request \cup {End} /\ End \in Request \cup {End}
        OBVIOUS
      <4> QED  BY <4>1, AppendShort
    <3> QED  BY <1>5, <2>4, <3>1 DEF ReaderEnd, ReaderRuns, serverVars, Queued
  <2> QED
    BY <1>5, <1>6, <2>1, <2>2, <2>3, <2>4 DEF Server, Reader, ExecTake, ExecAnswer, Queued
<1> QED  BY <1>1, <1>2, <1>3, <1>4, <1>5, <1>6

\* Steps of nobody's request call.
LEMMA InFlightServer ==
    ASSUME Inv, timeouts' = 0, Finish \/ Server \/ UNCHANGED vars
    PROVE  OneInFlight' /\ AnswersMatch'
<1> USE DEF Inv
<1>0. UNCHANGED callVars
  BY DEF Finish, Server, ExecTake, ExecAnswer, ExecEnd, StreamBreaks, SendCancel, Reader, ReaderTake,
         ReaderEnd, vars
<1>1. timeouts = 0 /\ thread' = thread /\ call' = call /\ outcome' = outcome
  BY <1>0 DEF callVars
<1>2. AnswersMatch'
  BY <1>1 DEF AnswersMatch
<1>3. CASE Finish \/ UNCHANGED vars
  <2>1. UNCHANGED <<requests, serverVars, queue, reader>>
    BY <1>3 DEF Finish, vars
  <2> QED
    BY <1>1, <1>2, <2>1
    DEF serverVars, OneInFlight, Carried, Nowhere, Sent, Served, Answered, Queued
<1>4. CASE Server
  <2>1. \A t \in Thread : thread[t] = "waiting" =>
           Carried(call[t]) /\ call[t] \in Request /\ call[t] # Cancel
    BY <1>1 DEF OneInFlight, Numbered, Cancel, TypeOK
  <2>2. \A m \in Request : m # Cancel /\ Carried(m) => Carried(m)'
    BY <1>4, CarriedOn
  <2>3. Nowhere => Nowhere'
    BY <1>4, NowhereStays
  <2> QED  BY <1>1, <1>2, <2>1, <2>2, <2>3 DEF OneInFlight
<1> QED  BY <1>3, <1>4

LEMMA InvNext == Inv /\ [Next]_vars => Inv'
<1> SUFFICES ASSUME Inv, [Next]_vars PROVE Inv'
  OBVIOUS
<1>1. TypeOK' /\ Exclusive' /\ Numbered' /\ Endings'
  BY TypeNext, LockNext, EndingsNext DEF Inv
<1>2. OneInFlight' /\ AnswersMatch'
  <2>1. CASE timeouts' # 0
    BY <2>1 DEF OneInFlight, AnswersMatch
  <2>2. CASE timeouts' = 0
    BY <2>2, InFlightThread, InFlightServer DEF Next, Server, Terminated
  <2> QED  BY <2>1, <2>2
<1> QED  BY <1>1, <1>2 DEF Inv

-----------------------------------------------------------------------------
\* The threads, the queues, Execute and the reader stay well typed, whatever is asked,
\* answered and given up (runner.py, handleClientMessage).
THEOREM TypeCorrect == Spec => []TypeOK
<1>1. Inv => TypeOK  BY DEF Inv
<1> QED  BY <1>1, InitInv, InvNext, PTL DEF Spec

\* Until a request is given up each caller gets the answer to its own request, although
\* no message has an id: the lock of runner.py lets one request out at a time.
THEOREM AnswersAreMatched == Spec => []AnswersMatch
<1>1. Inv => AnswersMatch  BY DEF Inv
<1> QED  BY <1>1, InitInv, InvNext, PTL DEF Spec

\* Between two requests nothing of the first is left in the queue, on the stream or in
\* Execute (_request, _recv_response).
THEOREM StaysInSync == Spec => []InSync
<1>1. Inv => InSync
  <2> SUFFICES ASSUME Inv, timeouts = 0,
                      \A t \in Thread : thread[t] \notin {"put", "waiting"}
               PROVE  Nowhere /\ DOMAIN down = 1..Len(down)
    BY DEF InSync, Nowhere, OnlyCancels
  <2>1. Nowhere  BY DEF Inv, OneInFlight
  <2> QED  BY <2>1 DEF Inv, TypeOK
<1> QED  BY <1>1, InitInv, InvNext, PTL DEF Spec
-----------------------------------------------------------------------------
(* The process of the script: Process *)

CONSTANTS PipeCap, MaxOutput
VARIABLES started, ctx, asked, script, child, output, written, pipe, readEnd, data, stderr, waiter,
          captured

Process == INSTANCE Process

OutputBounds == PipeCap \in Nat \ {0} /\ MaxOutput \in Nat

\* The context ends after the process or on request; the buffer is written once.
ProcessInv ==
    /\ Process!TypeOK
    /\ Process!HealthyNotKilled
    /\ started # "yes" => script = "none" /\ reader = "none" /\ waiter = "none"
    /\ waiter \in {"reaped", "draining", "returned"} => Process!Dead
    /\ stderr = IF reader = "done" THEN data ELSE 0
    /\ captured = IF waiter = "returned" THEN stderr ELSE 0
    /\ waiter = "returned" => reader = "done"

LEMMA ProcessInitially == ASSUME OutputBounds PROVE Process!Init => ProcessInv
<1> SUFFICES ASSUME Process!Init PROVE ProcessInv
  OBVIOUS
<1>1. asked \in BOOLEAN
  BY Zenon DEF Process!Init
<1>2. Process!TypeOK
  BY <1>1 DEF OutputBounds, Process!Init, Process!TypeOK, Process!Chunks
<1>3. Process!HealthyNotKilled
  BY DEF Process!Init, Process!HealthyNotKilled
<1> QED
  BY <1>2, <1>3 DEF Process!Init, ProcessInv

LEMMA ProcessInvNext ==
    ASSUME OutputBounds
    PROVE  ProcessInv /\ [Process!Next]_Process!vars => ProcessInv'
<1> SUFFICES ASSUME ProcessInv, [Process!Next]_Process!vars PROVE ProcessInv'
  OBVIOUS
<1> USE DEF OutputBounds, ProcessInv, Process!TypeOK, Process!HealthyNotKilled, Process!Chunks, Process!Dead
<1>1. CASE Process!Start \/ Process!StartFails
  BY <1>1 DEF Process!Start, Process!StartFails, Process!procVars, Process!readerVars, Process!waitVars
<1>2. CASE Process!Cancel \/ Process!Wait
  BY <1>2 DEF Process!Cancel, Process!Wait, Process!procVars, Process!readerVars, Process!waitVars
<1>3. CASE Process!ScriptWrites
  BY <1>3 DEF Process!ScriptWrites, Process!readerVars, Process!waitVars
<1>4. CASE Process!ScriptForks \/ Process!ScriptExits \/ Process!ChildExits
  BY <1>4 DEF Process!ScriptForks, Process!ScriptExits, Process!ChildExits, Process!readerVars, Process!waitVars
<1>5. CASE Process!Killed
  BY <1>5 DEF Process!Killed, Process!readerVars, Process!waitVars
<1>6. CASE Process!Read
  BY <1>6 DEF Process!Read, Process!procVars, Process!waitVars
<1>7. CASE Process!ReadEnds
  BY <1>7 DEF Process!ReadEnds, Process!procVars, Process!waitVars
<1>8. CASE Process!Reap \/ Process!LetGo
  BY <1>8 DEF Process!Reap, Process!LetGo, Process!procVars, Process!readerVars
<1>9. CASE Process!Return
  BY <1>9 DEF Process!Return, Process!procVars, Process!readerVars
<1>10. CASE UNCHANGED Process!vars
  BY <1>10 DEF Process!vars, Process!procVars, Process!readerVars, Process!waitVars
<1> QED
  BY <1>1, <1>2, <1>3, <1>4, <1>5, <1>6, <1>7, <1>8, <1>9, <1>10 DEF Process!Next, Process!Settled

\* The strengthened invariant holds in every reachable state.
LEMMA ProcessInvariant == ASSUME OutputBounds PROVE Process!Spec => []ProcessInv
  BY ProcessInitially, ProcessInvNext, PTL DEF Process!Spec

\* Every variable keeps its type: no chunk is read that was not written.
THEOREM ProcessTyped == ASSUME OutputBounds PROVE Process!Spec => []Process!TypeOK
<1>1. ProcessInv => Process!TypeOK
  BY DEF ProcessInv
<1> QED BY <1>1, ProcessInvariant, PTL

\* A process nobody cancels is never killed, and Done is closed only behind it (Wait).
THEOREM KillIsAskedFor == ASSUME OutputBounds PROVE Process!Spec => []Process!HealthyNotKilled
<1>1. ProcessInv => Process!HealthyNotKilled
  BY DEF ProcessInv
<1> QED BY <1>1, ProcessInvariant, PTL

\* What Wait returns is all the reader will ever have read (Wait).
THEOREM CaptureFinal == ASSUME OutputBounds PROVE Process!Spec => []Process!CaptureIsFinal
<1>1. ProcessInv => Process!CaptureIsFinal
  BY DEF ProcessInv, Process!CaptureIsFinal
<1> QED BY <1>1, ProcessInvariant, PTL
=============================================================================
