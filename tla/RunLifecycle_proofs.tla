------------------------ MODULE RunLifecycle_proofs ------------------------
(***************************************************************************)
(* Safety of RunLifecycle for any set of runs, buffer size and bounds, and *)
(* that it implements RunPromise.                                          *)
(***************************************************************************)
EXTENDS RunLifecycle, SequenceTheorems, FiniteSetTheorems, TLAPS

-----------------------------------------------------------------------------
(* The inductive invariant *)

\* Where the goroutines of r stand relative to each other and to the channel.
Placed(r) ==
    /\ starter[r] = "idle" => phase[r] = "none"
    /\ phase[r] = "none" => starter[r] = "idle"
    /\ starter[r] \in {"idle", "registered", "failed"} => py[r] = "none"
    /\ py[r] = "none" => exec[r] = "none"
    /\ starter[r] # "returned" => /\ waiter[r] = "none"
                                  /\ sender[r] = "none"
                                  /\ db[r] = "absent"
    /\ phase[r] = "done" => starter[r] = "failed" \/ waiter[r] \in {"finalize", "update", "done"}
    /\ waiter[r] \in {"finalize", "update", "done"} => phase[r] = "done"
    /\ exec[r] = "sending" => phase[r] # "done" /\ waiter[r] # "push"

\* The steps of waitForExit after deriveFinalStatus, and after TrySendStatus.
Decided == {"report", "lock", "push", "capture", "unregister", "close",
            "finalize", "update", "done"}
Told    == {"capture", "unregister", "close", "finalize", "update", "done"}

\* What waitForExit has established at each of its steps.
Judged(r) ==
    /\ waiter[r] \notin {"none", "wait"} => py[r] = "exited"
    /\ py[r] = "exited" => exit[r] # "none"
    /\ waiter[r] \in {"none", "wait", "check", "drain"} => drain[r] = "none"
    /\ drain[r] = "eof" \/ acked[r] # "none" => ExecReturned(r)
    /\ acked[r] # "none" => py[r] = "exited"
    /\ (final[r] # "none") <=> (waiter[r] \in Decided)
    /\ waiter[r] \in {"error", "status"} => exit[r] = "zero"
    /\ waiter[r] = "status" /\ (drain[r] = "eof" \/ acked[r] # "none") => ~gotError[r]
    /\ final[r] = "completed" => exit[r] = "zero" /\ pythonStatus[r] = "completed"
    /\ drain[r] = "eof" /\ final[r] # "none" =>
        \/ final[r] = "cancelled" /\ cancelRequested[r]
        \/ final[r] = IF exit[r] = "zero" /\ ~gotError[r] /\ pythonStatus[r] = "completed"
                        THEN "completed" ELSE "failed"
    /\ history[r] # "none" => waiter[r] \in {"update", "done"}
    /\ waiter[r] \in {"update", "done"} => history[r] = final[r]
    /\ db[r] \in Terminal => waiter[r] = "done" /\ db[r] = history[r]

\* No StartRequest is on its way.
NoStart(q) == \A i \in 1..Len(q) : q[i] # "start"

\* Who can have cancelled the context of a process that is still alive.
Unkilled(r) ==
    /\ canceller[r] = "send" \/ timer[r] => cancelRequested[r]
    /\ sender[r] # "done" => NoStart(down[r]) /\ py[r] # "running"
    /\ ctxDone[r] /\ py[r] # "exited" /\ ~cancelRequested[r] =>
          sender[r] = "done" /\ NoStart(down[r]) /\ py[r] # "running"

\* A sequence without a status, and one whose only status is v.
NoStatus(q)      == \A i \in 1..Len(q) : q[i] \notin Terminal
OneStatus(q, v)  == \E i \in 1..Len(q) : /\ q[i] = v
                                         /\ \A j \in 1..Len(q) : q[j] \in Terminal => j = i

\* Where the status of r is: nowhere, in the channel, or at the frontend.
Sent(r) ==
    /\ waiter[r] \notin Told => NoStatus(ui[r]) /\ NoStatus(messages[r])
    /\ waiter[r] \in Told =>
          \/ NoStatus(ui[r]) /\ OneStatus(messages[r], final[r])
          \/ OneStatus(ui[r], final[r]) /\ NoStatus(messages[r])

\* Once the stream was drained the status is also the last message.
SentLast(r) ==
    drain[r] = "eof" /\ waiter[r] \in Told =>
        IF messages[r] = <<>> THEN ui[r] # <<>> /\ ui[r][Len(ui[r])] = final[r]
                              ELSE messages[r][Len(messages[r])] = final[r]

\* The message in the hands of Execute, and the status in those of waitForExit.
Handed(r) ==
    /\ exec[r] \in {"push", "sending"} => execMsg[r] \in Payload
    /\ waiter[r] \in Decided => final[r] \in Terminal
    /\ waiter[r] \in {"update", "done"} => history[r] \in Terminal

\* Every step of a run keeps the variables well typed.
LEMMA TypeStep ==
    ASSUME TypeOK, \A q \in Run : Handed(q), NEW r \in Run, RunStep(r)
    PROVE  TypeOK'
<1> USE DEF startVars, cancelVars, pyVars, netVars, execVars, flagVars,
            verdictVars, recordVars, fwdVars,
            Alive, Terminal, ErrorMsg, Payload, StatusMsg, ClientMsg, UiEvent, Handed, Decided
<1>1. CASE StartRegister(r)
  BY <1>1 DEF StartRegister, TypeOK
<1>2. CASE StartSpawn(r)
  BY <1>2 DEF StartSpawn, TypeOK
<1>3. CASE StartSpawnFails(r)
  BY <1>3 DEF StartSpawnFails, TypeOK
<1>4. CASE StartActivate(r)
  <2>1. activeRuns' \in SUBSET Run
    BY <1>4 DEF StartActivate, TypeOK
  <2>2. starter' \in [Run -> {"idle", "registered", "spawned", "active", "returned", "failed"}]
    BY <1>4 DEF StartActivate, TypeOK
  <2> QED
    BY <1>4, <2>1, <2>2, SMTT(30) DEF StartActivate, TypeOK
<1>5. CASE StartLaunch(r)
  BY <1>5 DEF StartLaunch, TypeOK
<1>6. CASE SenderConnected(r)
  BY <1>6 DEF SenderConnected, TypeOK
<1>7. CASE SenderProcessDone(r)
  BY <1>7 DEF SenderProcessDone, TypeOK
<1>8. CASE SenderTimeout(r)
  BY <1>8 DEF SenderTimeout, TypeOK
<1>9. CASE SenderSend(r)
  <2>1. down[r] \in Seq({"start", "cancel"})
    BY <1>9 DEF SenderSend, TypeOK
  <2>2. Append(down[r], "start") \in Seq({"start", "cancel"})
    BY <2>1
  <2>3. down' \in [Run -> Seq({"start", "cancel"})]
    BY <1>9, <2>2 DEF SenderSend, TypeOK
  <2> QED
    BY <1>9, <2>3 DEF SenderSend, TypeOK
<1>10. CASE SenderSendFails(r)
  BY <1>10 DEF SenderSendFails, TypeOK
<1>11. CASE CancelMark(r)
  BY <1>11 DEF CancelMark, TypeOK
<1>12. CASE CancelSend(r)
  <2>1. down[r] \in Seq({"start", "cancel"})
    BY <1>12 DEF CancelSend, TypeOK
  <2>2. Append(down[r], "cancel") \in Seq({"start", "cancel"})
    BY <2>1
  <2>3. down' \in [Run -> Seq({"start", "cancel"})]
    BY <1>12, <2>2 DEF CancelSend, TypeOK
  <2> QED
    BY <1>12, <2>3 DEF CancelSend, TypeOK
<1>13. CASE CancelSendFails(r)
  BY <1>13 DEF CancelSendFails, TypeOK
<1>14. CASE CancelTimer(r)
  BY <1>14 DEF CancelTimer, TypeOK
<1>15. CASE PyOpen(r)
  BY <1>15 DEF PyOpen, TypeOK
<1>16. CASE PyConnected(r)
  <2>1. down[r] \in Seq({"start", "cancel"}) /\ down[r] # <<>>
    BY <1>16 DEF PyConnected, TypeOK
  <2>2. Tail(down[r]) \in Seq({"start", "cancel"})
    BY <2>1
  <2>3. down' \in [Run -> Seq({"start", "cancel"})]
    BY <1>16, <2>2 DEF PyConnected, TypeOK
  <2> QED
    BY <1>16, <2>3 DEF PyConnected, TypeOK
<1>17. CASE PyConnectFails(r)
  <2>1. wire[r] \in Seq(ClientMsg) /\ <<"error", "status_failed">> \in Seq(ClientMsg)
    BY <1>17 DEF PyConnectFails, TypeOK
  <2>2. wire[r] \o <<"error", "status_failed">> \in Seq(ClientMsg)
    BY <2>1
  <2>3. wire' \in [Run -> Seq(ClientMsg)]
    BY <1>17, <2>2 DEF PyConnectFails, TypeOK
  <2> QED
    BY <1>17, <2>3 DEF PyConnectFails, TypeOK
<1>18. ASSUME NEW m \in {"output", "warn"}, PySend(r, m) PROVE TypeOK'
  <2>1. wire[r] \in Seq(ClientMsg) /\ m \in ClientMsg
    BY <1>18 DEF TypeOK
  <2>2. Append(wire[r], m) \in Seq(ClientMsg)
    BY <2>1
  <2>3. wire' \in [Run -> Seq(ClientMsg)]
    BY <1>18, <2>2 DEF PySend, TypeOK
  <2> QED
    BY <1>18, <2>3 DEF PySend, TypeOK
<1>19. CASE PyComplete(r)
  <2>1. wire[r] \in Seq(ClientMsg) /\ "status_completed" \in ClientMsg
    BY DEF TypeOK
  <2>2. Append(wire[r], "status_completed") \in Seq(ClientMsg)
    BY <2>1
  <2>3. wire' \in [Run -> Seq(ClientMsg)]
    BY <1>19, <2>2 DEF PyComplete, TypeOK
  <2> QED
    BY <1>19, <2>3 DEF PyComplete, TypeOK
<1>20. CASE PyFail(r)
  <2>1. wire[r] \in Seq(ClientMsg) /\ <<"error", "status_failed">> \in Seq(ClientMsg)
    BY DEF TypeOK
  <2>2. wire[r] \o <<"error", "status_failed">> \in Seq(ClientMsg)
    BY <2>1
  <2>3. wire' \in [Run -> Seq(ClientMsg)]
    BY <1>20, <2>2 DEF PyFail, TypeOK
  <2> QED
    BY <1>20, <2>3 DEF PyFail, TypeOK
<1>21. CASE PyFailAfterComplete(r)
  <2>1. PICK late \in {<<>>, <<"error", "status_failed">>} : wire' = [wire EXCEPT ![r] = @ \o late]
    BY <1>21 DEF PyFailAfterComplete
  <2>2. wire[r] \in Seq(ClientMsg)
    BY DEF TypeOK
  <2>3. <<>> \in Seq(ClientMsg) /\ <<"error", "status_failed">> \in Seq(ClientMsg)
    OBVIOUS
  <2>4. wire[r] \o <<>> \in Seq(ClientMsg) /\ wire[r] \o <<"error", "status_failed">> \in Seq(ClientMsg)
    BY <2>2, <2>3
  <2>5. wire' \in [Run -> Seq(ClientMsg)]
    <3>1. CASE late = <<>>
      BY <2>1, <2>4, <3>1 DEF TypeOK
    <3>2. CASE late = <<"error", "status_failed">>
      BY <2>1, <2>4, <3>2 DEF TypeOK
    <3> QED
      BY <3>1, <3>2
  <2> QED
    BY <1>21, <2>5 DEF PyFailAfterComplete, TypeOK
<1>22. CASE PyCancelSeen(r)
  <2>1. down[r] \in Seq({"start", "cancel"}) /\ down[r] # <<>>
    BY <1>22 DEF PyCancelSeen, TypeOK
  <2>2. Tail(down[r]) \in Seq({"start", "cancel"})
    BY <2>1
  <2>3. down' \in [Run -> Seq({"start", "cancel"})]
    BY <1>22, <2>2 DEF PyCancelSeen, TypeOK
  <2> QED
    BY <1>22, <2>3 DEF PyCancelSeen, TypeOK
<1>23. CASE PyExit(r)
  <2>1. /\ exit' \in [Run -> {"none", "zero", "nonzero"}]
        /\ stderr' \in [Run -> BOOLEAN]
    BY <1>23 DEF PyExit, TypeOK
  <2>2. acked' \in [Run -> {"none", "completed", "failed"}]
    BY <1>23 DEF PyExit, TypeOK
  <2>3. py' \in [Run -> {"none", "exited"} \cup Alive]
    BY <1>23 DEF PyExit, TypeOK
  <2> QED
    BY <1>23, <2>1, <2>2, <2>3 DEF PyExit, TypeOK
<1>24. CASE PyKilled(r)
  BY <1>24 DEF PyKilled, TypeOK
<1>25. CASE WireLost(r)
  BY <1>25 DEF WireLost, TypeOK
<1>26. CASE ExecConnect(r)
  BY <1>26 DEF ExecConnect, TypeOK
<1>27. CASE ExecReject(r)
  BY <1>27 DEF ExecReject, TypeOK
<1>28. CASE ExecRecvPayload(r)
  <2>1. wire[r] \in Seq(ClientMsg) /\ wire[r] # <<>>
    BY <1>28 DEF ExecRecvPayload, TypeOK
  <2>2. Tail(wire[r]) \in Seq(ClientMsg)
    BY <2>1
  <2>3. wire' \in [Run -> Seq(ClientMsg)]
    BY <1>28, <2>2 DEF ExecRecvPayload, TypeOK
  <2> QED
    BY <1>28, <2>3 DEF ExecRecvPayload, TypeOK
<1>29. CASE ExecRecvStatus(r)
  <2>1. wire[r] \in Seq(ClientMsg) /\ wire[r] # <<>>
    BY <1>29 DEF ExecRecvStatus, TypeOK
  <2>2. Tail(wire[r]) \in Seq(ClientMsg)
    BY <2>1
  <2>3. wire' \in [Run -> Seq(ClientMsg)]
    BY <1>29, <2>2 DEF ExecRecvStatus, TypeOK
  <2> QED
    BY <1>29, <2>3 DEF ExecRecvStatus, TypeOK
<1>30. CASE ExecLock(r)
  BY <1>30 DEF ExecLock, TypeOK
<1>31. CASE ExecDrop(r)
  BY <1>31 DEF ExecDrop, TypeOK
<1>32. CASE ExecSend(r)
  <2>1. messages[r] \in Seq(Payload \cup Terminal) /\ execMsg[r] \in Payload
    BY <1>32 DEF ExecSend, TypeOK
  <2>2. Append(messages[r], execMsg[r]) \in Seq(Payload \cup Terminal)
    BY <2>1
  <2>3. messages' \in [Run -> Seq(Payload \cup Terminal)]
    BY <1>32, <2>2 DEF ExecSend, TypeOK
  <2> QED
    BY <1>32, <2>3 DEF ExecSend, TypeOK
<1>33. CASE ExecEnd(r)
  BY <1>33 DEF ExecEnd, TypeOK
<1>34. CASE WaiterReap(r)
  <2>1. exit[r] \in {"none", "zero", "nonzero"}
    BY DEF TypeOK
  <2>2. PICK code \in {"none", "zero", "nonzero"} : exit' = [exit EXCEPT ![r] = code]
    BY <1>34, <2>1 DEF WaiterReap
  <2> QED
    BY <1>34, <2>2 DEF WaiterReap, TypeOK
<1>35. CASE WaiterCheck(r)
  BY <1>35 DEF WaiterCheck, TypeOK
<1>36. CASE WaiterDrain(r)
  BY <1>36 DEF WaiterDrain, TypeOK
<1>37. CASE WaiterCancelled(r)
  BY <1>37 DEF WaiterCancelled, TypeOK
<1>38. CASE WaiterError(r)
  BY <1>38 DEF WaiterError, TypeOK
<1>39. CASE WaiterStatus(r)
  BY <1>39 DEF WaiterStatus, TypeOK, StatusVerdict
<1>40. CASE WaiterReport(r)
  <2>1. ui' = ui \/ ui' = [ui EXCEPT ![r] = Append(@, "crash")]
    BY <1>40 DEF WaiterReport
  <2>0. ui \in [Run -> Seq(UiEvent)] /\ "crash" \in UiEvent
    BY DEF TypeOK
  <2>2. ui[r] \in Seq(UiEvent)
    BY <2>0
  <2>5. Append(ui[r], "crash") \in Seq(UiEvent)
    BY ONLY <2>0, <2>2
  <2>3. ui' \in [Run -> Seq(UiEvent)]
    <3> HIDE DEF UiEvent
    <3> QED
      BY <2>0, <2>1, <2>5
  <2>4. waiter' = [waiter EXCEPT ![r] = "lock"]
    BY <1>40 DEF WaiterReport
  <2> QED
    BY <1>40, <2>3, <2>4 DEF WaiterReport, TypeOK
<1>41. CASE WaiterLock(r)
  BY <1>41 DEF WaiterLock, TypeOK
<1>42. CASE WaiterPush(r)
  <2>1. messages[r] \in Seq(Payload \cup Terminal) /\ final[r] \in Terminal
    BY <1>42 DEF WaiterPush, TypeOK
  <2>2. Append(messages[r], final[r]) \in Seq(Payload \cup Terminal)
    BY <2>1
  <2>3. messages' \in [Run -> Seq(Payload \cup Terminal)]
    BY <1>42, <2>2 DEF WaiterPush, TypeOK
  <2> QED
    BY <1>42, <2>3 DEF WaiterPush, TypeOK
<1>43. CASE WaiterCapture(r)
  BY <1>43 DEF WaiterCapture, TypeOK
<1>44. CASE WaiterUnregister(r)
  BY <1>44 DEF WaiterUnregister, TypeOK
<1>45. CASE WaiterClose(r)
  BY <1>45 DEF WaiterClose, TypeOK
<1>46. CASE WaiterFinalize(r)
  BY <1>46 DEF WaiterFinalize, RecordStatus, TypeOK
<1>47. CASE WaiterUpdate(r)
  <2>1. history[r] \in Terminal /\ db[r] \in {"absent", "running"} \cup Terminal
    BY <1>47 DEF WaiterUpdate, TypeOK
  <2>2. PICK row \in {"absent", "running"} \cup Terminal : db' = [db EXCEPT ![r] = row]
    BY <1>47, <2>1 DEF WaiterUpdate
  <2> QED
    BY <1>47, <2>2 DEF WaiterUpdate, TypeOK
<1>48. CASE Forward(r)
  <2>1. ui' \in [Run -> Seq(UiEvent)]
    BY <1>48 DEF Forward, TypeOK, Routed
  <2>2. messages' \in [Run -> Seq(Payload \cup Terminal)]
    BY <1>48 DEF Forward, TypeOK, Routed
  <2>3. UNCHANGED <<startVars, cancelVars, netVars, execVars, phase, flagVars, ctxDone, pyVars, waiter,
                 verdictVars, recordVars, fwd>>
    BY <1>48 DEF Forward
  <2> QED
    BY <2>1, <2>2, <2>3 DEF TypeOK
<1>49. CASE ForwardEnd(r)
  BY <1>49 DEF ForwardEnd, TypeOK
<1>50. CASE PyAsk(r)
  <2>1. wire[r] \in Seq(ClientMsg) /\ "dialog" \in ClientMsg
    BY DEF TypeOK
  <2>2. Append(wire[r], "dialog") \in Seq(ClientMsg)
    BY <2>1
  <2>3. wire' \in [Run -> Seq(ClientMsg)]
    BY <1>50, <2>2 DEF PyAsk, TypeOK
  <2> QED
    BY <1>50, <2>3 DEF PyAsk, TypeOK
<1>51. CASE ExecRecvDialog(r)
  <2>1. wire[r] \in Seq(ClientMsg) /\ wire[r] # <<>>
    BY <1>51 DEF ExecRecvDialog, TypeOK
  <2>2. Tail(wire[r]) \in Seq(ClientMsg)
    BY <2>1
  <2>3. wire' \in [Run -> Seq(ClientMsg)]
    BY <1>51, <2>2 DEF ExecRecvDialog, TypeOK
  <2> QED
    BY <1>51, <2>3 DEF ExecRecvDialog, TypeOK
<1>52. CASE DialogAnswered(r)
  BY <1>52 DEF DialogAnswered, TypeOK
<1>53. CASE StreamBreaks(r)
  BY <1>53 DEF StreamBreaks, TypeOK
<1> QED
  BY <1>1, <1>2, <1>3, <1>4, <1>5, <1>6, <1>7, <1>8, <1>9, <1>10, <1>11, <1>12, <1>13, <1>14, <1>15, <1>16, <1>17, <1>18, <1>19, <1>20, <1>21, <1>22, <1>23, <1>24, <1>25, <1>26, <1>27, <1>28, <1>29, <1>30, <1>31, <1>32, <1>33, <1>34, <1>35, <1>36, <1>37, <1>38, <1>39, <1>40, <1>41, <1>42, <1>43, <1>44, <1>45, <1>46, <1>47, <1>48, <1>49, <1>50, <1>51, <1>52, <1>53 DEF RunStep, Starter, Sender, Canceller,
     Python, Execute, Waiter, Forwarder

\* Every step keeps the goroutines of every run in their places.
LEMMA PlacedStep ==
    ASSUME TypeOK, \A q \in Run : Placed(q), NEW r \in Run, RunStep(r)
    PROVE  \A q \in Run : Placed(q)'
<1> USE DEF startVars, cancelVars, pyVars, netVars, execVars, flagVars,
            verdictVars, recordVars, fwdVars, Alive,
            PhaseMuFree, Registered, ChannelClosed, ConnectTimerRuns
<1>1. CASE StartRegister(r)
  BY <1>1 DEF StartRegister, TypeOK, Placed
<1>2. CASE StartSpawn(r)
  BY <1>2 DEF StartSpawn, TypeOK, Placed
<1>3. CASE StartSpawnFails(r)
  BY <1>3 DEF StartSpawnFails, TypeOK, Placed
<1>4. CASE StartActivate(r)
  BY <1>4 DEF StartActivate, TypeOK, Placed
<1>5. CASE StartLaunch(r)
  BY <1>5 DEF StartLaunch, TypeOK, Placed
<1>6. CASE SenderConnected(r)
  BY <1>6 DEF SenderConnected, TypeOK, Placed
<1>7. CASE SenderProcessDone(r)
  BY <1>7 DEF SenderProcessDone, TypeOK, Placed
<1>8. CASE SenderTimeout(r)
  BY <1>8 DEF SenderTimeout, TypeOK, Placed
<1>9. CASE SenderSend(r)
  BY <1>9 DEF SenderSend, TypeOK, Placed
<1>10. CASE SenderSendFails(r)
  BY <1>10 DEF SenderSendFails, TypeOK, Placed
<1>11. CASE CancelMark(r)
  BY <1>11 DEF CancelMark, TypeOK, Placed
<1>12. CASE CancelSend(r)
  BY <1>12 DEF CancelSend, TypeOK, Placed
<1>13. CASE CancelSendFails(r)
  BY <1>13 DEF CancelSendFails, TypeOK, Placed
<1>14. CASE CancelTimer(r)
  BY <1>14 DEF CancelTimer, TypeOK, Placed
<1>15. CASE PyOpen(r)
  BY <1>15 DEF PyOpen, TypeOK, Placed
<1>16. CASE PyConnected(r)
  BY <1>16 DEF PyConnected, TypeOK, Placed
<1>17. CASE PyConnectFails(r)
  BY <1>17 DEF PyConnectFails, TypeOK, Placed
<1>18. ASSUME NEW m \in {"output", "warn"}, PySend(r, m) PROVE \A q \in Run : Placed(q)'
  BY <1>18 DEF PySend, TypeOK, Placed
<1>19. CASE PyComplete(r)
  BY <1>19 DEF PyComplete, TypeOK, Placed
<1>20. CASE PyFail(r)
  BY <1>20 DEF PyFail, TypeOK, Placed
<1>21. CASE PyFailAfterComplete(r)
  BY <1>21 DEF PyFailAfterComplete, TypeOK, Placed
<1>22. CASE PyCancelSeen(r)
  BY <1>22 DEF PyCancelSeen, TypeOK, Placed
<1>23. CASE PyExit(r)
  BY <1>23 DEF PyExit, TypeOK, Placed
<1>24. CASE PyKilled(r)
  BY <1>24 DEF PyKilled, TypeOK, Placed
<1>25. CASE WireLost(r)
  BY <1>25 DEF WireLost, TypeOK, Placed
<1>26. CASE ExecConnect(r)
  BY <1>26 DEF ExecConnect, TypeOK, Placed
<1>27. CASE ExecReject(r)
  BY <1>27 DEF ExecReject, TypeOK, Placed
<1>28. CASE ExecRecvPayload(r)
  BY <1>28 DEF ExecRecvPayload, TypeOK, Placed
<1>29. CASE ExecRecvStatus(r)
  BY <1>29 DEF ExecRecvStatus, TypeOK, Placed
<1>30. CASE ExecLock(r)
  BY <1>30 DEF ExecLock, TypeOK, Placed
<1>31. CASE ExecDrop(r)
  BY <1>31 DEF ExecDrop, TypeOK, Placed
<1>32. CASE ExecSend(r)
  BY <1>32 DEF ExecSend, TypeOK, Placed
<1>33. CASE ExecEnd(r)
  BY <1>33 DEF ExecEnd, TypeOK, Placed
<1>34. CASE WaiterReap(r)
  BY <1>34 DEF WaiterReap, TypeOK, Placed
<1>35. CASE WaiterCheck(r)
  BY <1>35 DEF WaiterCheck, TypeOK, Placed
<1>36. CASE WaiterDrain(r)
  BY <1>36 DEF WaiterDrain, TypeOK, Placed
<1>37. CASE WaiterCancelled(r)
  BY <1>37 DEF WaiterCancelled, TypeOK, Placed
<1>38. CASE WaiterError(r)
  BY <1>38 DEF WaiterError, TypeOK, Placed
<1>39. CASE WaiterStatus(r)
  BY <1>39 DEF WaiterStatus, TypeOK, Placed
<1>40. CASE WaiterReport(r)
  BY <1>40 DEF WaiterReport, TypeOK, Placed
<1>41. CASE WaiterLock(r)
  BY <1>41 DEF WaiterLock, TypeOK, Placed
<1>42. CASE WaiterPush(r)
  BY <1>42 DEF WaiterPush, TypeOK, Placed
<1>43. CASE WaiterCapture(r)
  BY <1>43 DEF WaiterCapture, TypeOK, Placed
<1>44. CASE WaiterUnregister(r)
  BY <1>44 DEF WaiterUnregister, TypeOK, Placed
<1>45. CASE WaiterClose(r)
  BY <1>45 DEF WaiterClose, TypeOK, Placed
<1>46. CASE WaiterFinalize(r)
  BY <1>46 DEF WaiterFinalize, TypeOK, Placed
<1>47. CASE WaiterUpdate(r)
  BY <1>47 DEF WaiterUpdate, TypeOK, Placed
<1>48. CASE Forward(r)
  BY <1>48 DEF Forward, TypeOK, Placed
<1>49. CASE ForwardEnd(r)
  BY <1>49 DEF ForwardEnd, TypeOK, Placed
<1>50. CASE PyAsk(r)
  BY <1>50 DEF PyAsk, TypeOK, Placed
<1>51. CASE ExecRecvDialog(r)
  BY <1>51 DEF ExecRecvDialog, TypeOK, Placed
<1>52. CASE DialogAnswered(r)
  BY <1>52 DEF DialogAnswered, TypeOK, Placed
<1>53. CASE StreamBreaks(r)
  BY <1>53 DEF StreamBreaks, TypeOK, Placed
<1> QED
  BY <1>1, <1>2, <1>3, <1>4, <1>5, <1>6, <1>7, <1>8, <1>9, <1>10, <1>11, <1>12, <1>13, <1>14, <1>15, <1>16, <1>17, <1>18, <1>19, <1>20, <1>21, <1>22, <1>23, <1>24, <1>25, <1>26, <1>27, <1>28, <1>29, <1>30, <1>31, <1>32, <1>33, <1>34, <1>35, <1>36, <1>37, <1>38, <1>39, <1>40, <1>41, <1>42, <1>43, <1>44, <1>45, <1>46, <1>47, <1>48, <1>49, <1>50, <1>51, <1>52, <1>53 DEF RunStep, Starter, Sender, Canceller,
     Python, Execute, Waiter, Forwarder

\* Every step keeps what waitForExit has established.
LEMMA JudgedStep ==
    ASSUME TypeOK, \A q \in Run : Placed(q) /\ Judged(q),
           NEW r \in Run, RunStep(r)
    PROVE  \A q \in Run : Judged(q)'
<1> USE DEF startVars, cancelVars, pyVars, netVars, execVars, flagVars,
            verdictVars, recordVars, fwdVars, Alive,
            Terminal, Decided, Placed, Registered, GotError, PythonReportedStatus, StatusVerdict,
            RecordStatus, StreamDone, ExecReturned, WasCancelled
<1>1. CASE StartRegister(r)
  BY <1>1 DEF StartRegister, TypeOK, Judged
<1>2. CASE StartSpawn(r)
  BY <1>2 DEF StartSpawn, TypeOK, Judged
<1>3. CASE StartSpawnFails(r)
  BY <1>3 DEF StartSpawnFails, TypeOK, Judged
<1>4. CASE StartActivate(r)
  BY <1>4 DEF StartActivate, TypeOK, Judged
<1>5. CASE StartLaunch(r)
  BY <1>5 DEF StartLaunch, TypeOK, Judged
<1>6. CASE SenderConnected(r)
  BY <1>6 DEF SenderConnected, TypeOK, Judged
<1>7. CASE SenderProcessDone(r)
  BY <1>7 DEF SenderProcessDone, TypeOK, Judged
<1>8. CASE SenderTimeout(r)
  BY <1>8 DEF SenderTimeout, TypeOK, Judged
<1>9. CASE SenderSend(r)
  BY <1>9 DEF SenderSend, TypeOK, Judged
<1>10. CASE SenderSendFails(r)
  BY <1>10 DEF SenderSendFails, TypeOK, Judged
<1>11. CASE CancelMark(r)
  BY <1>11 DEF CancelMark, TypeOK, Judged
<1>12. CASE CancelSend(r)
  BY <1>12 DEF CancelSend, TypeOK, Judged
<1>13. CASE CancelSendFails(r)
  BY <1>13 DEF CancelSendFails, TypeOK, Judged
<1>14. CASE CancelTimer(r)
  BY <1>14 DEF CancelTimer, TypeOK, Judged
<1>15. CASE PyOpen(r)
  BY <1>15 DEF PyOpen, TypeOK, Judged
<1>16. CASE PyConnected(r)
  BY <1>16 DEF PyConnected, TypeOK, Judged
<1>17. CASE PyConnectFails(r)
  BY <1>17 DEF PyConnectFails, TypeOK, Judged
<1>18. ASSUME NEW m \in {"output", "warn"}, PySend(r, m) PROVE \A q \in Run : Judged(q)'
  BY <1>18 DEF PySend, TypeOK, Judged
<1>19. CASE PyComplete(r)
  BY <1>19 DEF PyComplete, TypeOK, Judged
<1>20. CASE PyFail(r)
  BY <1>20 DEF PyFail, TypeOK, Judged
<1>21. CASE PyFailAfterComplete(r)
  BY <1>21 DEF PyFailAfterComplete, TypeOK, Judged
<1>22. CASE PyCancelSeen(r)
  BY <1>22 DEF PyCancelSeen, TypeOK, Judged
<1>23. CASE PyExit(r)
  BY <1>23 DEF PyExit, TypeOK, Judged
<1>24. CASE PyKilled(r)
  BY <1>24 DEF PyKilled, TypeOK, Judged
<1>25. CASE WireLost(r)
  BY <1>25 DEF WireLost, TypeOK, Judged
<1>26. CASE ExecConnect(r)
  BY <1>26 DEF ExecConnect, TypeOK, Judged
<1>27. CASE ExecReject(r)
  BY <1>27 DEF ExecReject, TypeOK, Judged
<1>28. CASE ExecRecvPayload(r)
  BY <1>28 DEF ExecRecvPayload, TypeOK, Judged
<1>29. CASE ExecRecvStatus(r)
  BY <1>29 DEF ExecRecvStatus, TypeOK, Judged
<1>30. CASE ExecLock(r)
  BY <1>30 DEF ExecLock, TypeOK, Judged
<1>31. CASE ExecDrop(r)
  BY <1>31 DEF ExecDrop, TypeOK, Judged
<1>32. CASE ExecSend(r)
  BY <1>32 DEF ExecSend, TypeOK, Judged
<1>33. CASE ExecEnd(r)
  BY <1>33 DEF ExecEnd, TypeOK, Judged
<1>34. CASE WaiterReap(r)
  BY <1>34 DEF WaiterReap, TypeOK, Judged
<1>35. CASE WaiterCheck(r)
  BY <1>35 DEF WaiterCheck, TypeOK, Judged
<1>36. CASE WaiterDrain(r)
  BY <1>36 DEF WaiterDrain, TypeOK, Judged
<1>37. CASE WaiterCancelled(r)
  BY <1>37 DEF WaiterCancelled, TypeOK, Judged
<1>38. CASE WaiterError(r)
  BY <1>38 DEF WaiterError, TypeOK, Judged
<1>39. CASE WaiterStatus(r)
  BY <1>39 DEF WaiterStatus, TypeOK, Judged
<1>40. CASE WaiterReport(r)
  BY <1>40 DEF WaiterReport, TypeOK, Judged
<1>41. CASE WaiterLock(r)
  BY <1>41 DEF WaiterLock, TypeOK, Judged
<1>42. CASE WaiterPush(r)
  BY <1>42 DEF WaiterPush, TypeOK, Judged
<1>43. CASE WaiterCapture(r)
  BY <1>43 DEF WaiterCapture, TypeOK, Judged
<1>44. CASE WaiterUnregister(r)
  BY <1>44 DEF WaiterUnregister, TypeOK, Judged
<1>45. CASE WaiterClose(r)
  BY <1>45 DEF WaiterClose, TypeOK, Judged
<1>46. CASE WaiterFinalize(r)
  BY <1>46 DEF WaiterFinalize, TypeOK, Judged
<1>47. CASE WaiterUpdate(r)
  BY <1>47 DEF WaiterUpdate, TypeOK, Judged
<1>48. CASE Forward(r)
  BY <1>48 DEF Forward, TypeOK, Judged
<1>49. CASE ForwardEnd(r)
  BY <1>49 DEF ForwardEnd, TypeOK, Judged
<1>50. CASE PyAsk(r)
  BY <1>50 DEF PyAsk, TypeOK, Judged
<1>51. CASE ExecRecvDialog(r)
  BY <1>51 DEF ExecRecvDialog, TypeOK, Judged
<1>52. CASE DialogAnswered(r)
  BY <1>52 DEF DialogAnswered, TypeOK, Judged
<1>53. CASE StreamBreaks(r)
  BY <1>53 DEF StreamBreaks, TypeOK, Judged
<1> QED
  BY <1>1, <1>2, <1>3, <1>4, <1>5, <1>6, <1>7, <1>8, <1>9, <1>10, <1>11, <1>12, <1>13, <1>14, <1>15, <1>16, <1>17, <1>18, <1>19, <1>20, <1>21, <1>22, <1>23, <1>24, <1>25, <1>26, <1>27, <1>28, <1>29, <1>30, <1>31, <1>32, <1>33, <1>34, <1>35, <1>36, <1>37, <1>38, <1>39, <1>40, <1>41, <1>42, <1>43, <1>44, <1>45, <1>46, <1>47, <1>48, <1>49, <1>50, <1>51, <1>52, <1>53 DEF RunStep, Starter, Sender, Canceller,
     Python, Execute, Waiter, Forwarder

\* Every step keeps the types of the message and the status being handed on.
LEMMA HandedStep ==
    ASSUME TypeOK, \A q \in Run : Handed(q), NEW r \in Run, RunStep(r)
    PROVE  \A q \in Run : Handed(q)'
<1> USE DEF startVars, cancelVars, pyVars, netVars, execVars, flagVars,
            verdictVars, recordVars, fwdVars, Decided,
            Terminal, Payload, ErrorMsg, StatusVerdict, GotError,
            RecordStatus
<1>1. CASE StartRegister(r)
  BY <1>1 DEF StartRegister, TypeOK, Handed
<1>2. CASE StartSpawn(r)
  BY <1>2 DEF StartSpawn, TypeOK, Handed
<1>3. CASE StartSpawnFails(r)
  BY <1>3 DEF StartSpawnFails, TypeOK, Handed
<1>4. CASE StartActivate(r)
  BY <1>4 DEF StartActivate, TypeOK, Handed
<1>5. CASE StartLaunch(r)
  BY <1>5 DEF StartLaunch, TypeOK, Handed
<1>6. CASE SenderConnected(r)
  BY <1>6 DEF SenderConnected, TypeOK, Handed
<1>7. CASE SenderProcessDone(r)
  BY <1>7 DEF SenderProcessDone, TypeOK, Handed
<1>8. CASE SenderTimeout(r)
  BY <1>8 DEF SenderTimeout, TypeOK, Handed
<1>9. CASE SenderSend(r)
  BY <1>9 DEF SenderSend, TypeOK, Handed
<1>10. CASE SenderSendFails(r)
  BY <1>10 DEF SenderSendFails, TypeOK, Handed
<1>11. CASE CancelMark(r)
  BY <1>11 DEF CancelMark, TypeOK, Handed
<1>12. CASE CancelSend(r)
  BY <1>12 DEF CancelSend, TypeOK, Handed
<1>13. CASE CancelSendFails(r)
  BY <1>13 DEF CancelSendFails, TypeOK, Handed
<1>14. CASE CancelTimer(r)
  BY <1>14 DEF CancelTimer, TypeOK, Handed
<1>15. CASE PyOpen(r)
  BY <1>15 DEF PyOpen, TypeOK, Handed
<1>16. CASE PyConnected(r)
  BY <1>16 DEF PyConnected, TypeOK, Handed
<1>17. CASE PyConnectFails(r)
  BY <1>17 DEF PyConnectFails, TypeOK, Handed
<1>18. ASSUME NEW m \in {"output", "warn"}, PySend(r, m) PROVE \A q \in Run : Handed(q)'
  BY <1>18 DEF PySend, TypeOK, Handed
<1>19. CASE PyComplete(r)
  BY <1>19 DEF PyComplete, TypeOK, Handed
<1>20. CASE PyFail(r)
  BY <1>20 DEF PyFail, TypeOK, Handed
<1>21. CASE PyFailAfterComplete(r)
  BY <1>21 DEF PyFailAfterComplete, TypeOK, Handed
<1>22. CASE PyCancelSeen(r)
  BY <1>22 DEF PyCancelSeen, TypeOK, Handed
<1>23. CASE PyExit(r)
  BY <1>23 DEF PyExit, TypeOK, Handed
<1>24. CASE PyKilled(r)
  BY <1>24 DEF PyKilled, TypeOK, Handed
<1>25. CASE WireLost(r)
  BY <1>25 DEF WireLost, TypeOK, Handed
<1>26. CASE ExecConnect(r)
  BY <1>26 DEF ExecConnect, TypeOK, Handed
<1>27. CASE ExecReject(r)
  BY <1>27 DEF ExecReject, TypeOK, Handed
<1>28. CASE ExecRecvPayload(r)
  BY <1>28 DEF ExecRecvPayload, TypeOK, Handed
<1>29. CASE ExecRecvStatus(r)
  BY <1>29 DEF ExecRecvStatus, TypeOK, Handed
<1>30. CASE ExecLock(r)
  BY <1>30 DEF ExecLock, TypeOK, Handed
<1>31. CASE ExecDrop(r)
  BY <1>31 DEF ExecDrop, TypeOK, Handed
<1>32. CASE ExecSend(r)
  BY <1>32 DEF ExecSend, TypeOK, Handed
<1>33. CASE ExecEnd(r)
  BY <1>33 DEF ExecEnd, TypeOK, Handed
<1>34. CASE WaiterReap(r)
  BY <1>34 DEF WaiterReap, TypeOK, Handed
<1>35. CASE WaiterCheck(r)
  BY <1>35 DEF WaiterCheck, TypeOK, Handed
<1>36. CASE WaiterDrain(r)
  BY <1>36 DEF WaiterDrain, TypeOK, Handed
<1>37. CASE WaiterCancelled(r)
  BY <1>37 DEF WaiterCancelled, TypeOK, Handed
<1>38. CASE WaiterError(r)
  BY <1>38 DEF WaiterError, TypeOK, Handed
<1>39. CASE WaiterStatus(r)
  BY <1>39 DEF WaiterStatus, TypeOK, Handed
<1>40. CASE WaiterReport(r)
  BY <1>40 DEF WaiterReport, TypeOK, Handed
<1>41. CASE WaiterLock(r)
  BY <1>41 DEF WaiterLock, TypeOK, Handed
<1>42. CASE WaiterPush(r)
  BY <1>42 DEF WaiterPush, TypeOK, Handed
<1>43. CASE WaiterCapture(r)
  BY <1>43 DEF WaiterCapture, TypeOK, Handed
<1>44. CASE WaiterUnregister(r)
  BY <1>44 DEF WaiterUnregister, TypeOK, Handed
<1>45. CASE WaiterClose(r)
  BY <1>45 DEF WaiterClose, TypeOK, Handed
<1>46. CASE WaiterFinalize(r)
  BY <1>46 DEF WaiterFinalize, TypeOK, Handed
<1>47. CASE WaiterUpdate(r)
  BY <1>47 DEF WaiterUpdate, TypeOK, Handed
<1>48. CASE Forward(r)
  BY <1>48 DEF Forward, TypeOK, Handed
<1>49. CASE ForwardEnd(r)
  BY <1>49 DEF ForwardEnd, TypeOK, Handed
<1>50. CASE PyAsk(r)
  BY <1>50 DEF PyAsk, TypeOK, Handed
<1>51. CASE ExecRecvDialog(r)
  BY <1>51 DEF ExecRecvDialog, TypeOK, Handed
<1>52. CASE DialogAnswered(r)
  BY <1>52 DEF DialogAnswered, TypeOK, Handed
<1>53. CASE StreamBreaks(r)
  BY <1>53 DEF StreamBreaks, TypeOK, Handed
<1> QED
  BY <1>1, <1>2, <1>3, <1>4, <1>5, <1>6, <1>7, <1>8, <1>9, <1>10, <1>11, <1>12, <1>13, <1>14, <1>15, <1>16, <1>17, <1>18, <1>19, <1>20, <1>21, <1>22, <1>23, <1>24, <1>25, <1>26, <1>27, <1>28, <1>29, <1>30, <1>31, <1>32, <1>33, <1>34, <1>35, <1>36, <1>37, <1>38, <1>39, <1>40, <1>41, <1>42, <1>43, <1>44, <1>45, <1>46, <1>47, <1>48, <1>49, <1>50, <1>51, <1>52, <1>53 DEF RunStep, Starter, Sender, Canceller,
     Python, Execute, Waiter, Forwarder

-----------------------------------------------------------------------------
\* Every step keeps a started, uncancelled run out of reach of a kill.
LEMMA UnkilledStep ==
    ASSUME TypeOK, \A q \in Run : Placed(q) /\ Judged(q) /\ Unkilled(q),
           NEW r \in Run, RunStep(r)
    PROVE  \A q \in Run : Unkilled(q)'
<1> USE DEF startVars, cancelVars, pyVars, netVars, execVars, flagVars,
            verdictVars, recordVars, fwdVars, Alive,
            Placed, Judged, NoStart, ConnectTimerRuns, StreamOpen, SendMayFail
<1>1. CASE StartRegister(r)
  BY <1>1 DEF StartRegister, TypeOK, Unkilled
<1>2. CASE StartSpawn(r)
  BY <1>2 DEF StartSpawn, TypeOK, Unkilled
<1>3. CASE StartSpawnFails(r)
  BY <1>3 DEF StartSpawnFails, TypeOK, Unkilled
<1>4. CASE StartActivate(r)
  BY <1>4 DEF StartActivate, TypeOK, Unkilled
<1>5. CASE StartLaunch(r)
  <2>1. starter[r] # "returned" /\ sender[r] = "none"
    BY <1>5 DEF StartLaunch
  <2>2. /\ sender' = [sender EXCEPT ![r] = "wait"]
        /\ UNCHANGED <<canceller, timer, cancelRequested, down, py, ctxDone>>
    BY <1>5 DEF StartLaunch
  <2> QED
    BY <2>1, <2>2 DEF TypeOK, Unkilled
<1>6. CASE SenderConnected(r)
  BY <1>6 DEF SenderConnected, TypeOK, Unkilled
<1>7. CASE SenderProcessDone(r)
  BY <1>7 DEF SenderProcessDone, TypeOK, Unkilled
<1>8. CASE SenderTimeout(r)
  BY <1>8 DEF SenderTimeout, TypeOK, Unkilled
<1>9. CASE SenderSend(r)
  BY <1>9 DEF SenderSend, TypeOK, Unkilled
<1>10. CASE SenderSendFails(r)
  BY <1>10 DEF SenderSendFails, TypeOK, Unkilled
<1>11. CASE CancelMark(r)
  BY <1>11 DEF CancelMark, TypeOK, Unkilled
<1>12. CASE CancelSend(r)
  <2>1. /\ down' = [down EXCEPT ![r] = Append(@, "cancel")]
        /\ timer' = [timer EXCEPT ![r] = TRUE]
        /\ canceller' = [canceller EXCEPT ![r] = "idle"]
        /\ canceller[r] = "send"
        /\ UNCHANGED <<starter, sender, cancelRequested, py, ctxDone>>
    BY <1>12 DEF CancelSend
  <2>2. cancelRequested[r]
    BY <2>1 DEF Unkilled
  <2> SUFFICES ASSUME NEW q \in Run PROVE Unkilled(q)'
    OBVIOUS
  <2>3. CASE q = r
    <3>1. down'[r] = Append(down[r], "cancel") /\ down[r] \in Seq({"start", "cancel"})
      BY <2>1 DEF TypeOK
    <3>2. NoStart(down[r]) => NoStart(down'[r])
      BY ONLY <3>1 DEF NoStart
    <3>3. (sender[r] # "done" => NoStart(down[r]) /\ py[r] # "running") /\ sender'[r] = sender[r]
      BY <2>1 DEF Unkilled
    <3>4. cancelRequested'[r] /\ py'[r] = py[r]
      BY <2>1, <2>2
    <3> QED
      BY ONLY <2>3, <3>2, <3>3, <3>4 DEF Unkilled
  <2>4. CASE q # r
    <3>1. /\ down'[q] = down[q] /\ timer'[q] = timer[q] /\ canceller'[q] = canceller[q]
          /\ UNCHANGED <<sender, cancelRequested, py, ctxDone>>
      BY <2>1, <2>4 DEF TypeOK
    <3> QED
      BY <3>1 DEF Unkilled
  <2> QED
    BY <2>3, <2>4
<1>13. CASE CancelSendFails(r)
  BY <1>13 DEF CancelSendFails, TypeOK, Unkilled
<1>14. CASE CancelTimer(r)
  BY <1>14 DEF CancelTimer, TypeOK, Unkilled
<1>15. CASE PyOpen(r)
  BY <1>15 DEF PyOpen, TypeOK, Unkilled
<1>16. CASE PyConnected(r)
  BY <1>16 DEF PyConnected, TypeOK, Unkilled
<1>17. CASE PyConnectFails(r)
  BY <1>17 DEF PyConnectFails, TypeOK, Unkilled
<1>18. ASSUME NEW m \in {"output", "warn"}, PySend(r, m) PROVE \A q \in Run : Unkilled(q)'
  BY <1>18 DEF PySend, TypeOK, Unkilled
<1>19. CASE PyComplete(r)
  BY <1>19 DEF PyComplete, TypeOK, Unkilled
<1>20. CASE PyFail(r)
  BY <1>20 DEF PyFail, TypeOK, Unkilled
<1>21. CASE PyFailAfterComplete(r)
  BY <1>21 DEF PyFailAfterComplete, TypeOK, Unkilled
<1>22. CASE PyCancelSeen(r)
  BY <1>22 DEF PyCancelSeen, TypeOK, Unkilled
<1>23. CASE PyExit(r)
  BY <1>23 DEF PyExit, TypeOK, Unkilled
<1>24. CASE PyKilled(r)
  BY <1>24 DEF PyKilled, TypeOK, Unkilled
<1>25. CASE WireLost(r)
  BY <1>25 DEF WireLost, TypeOK, Unkilled
<1>26. CASE ExecConnect(r)
  BY <1>26 DEF ExecConnect, TypeOK, Unkilled
<1>27. CASE ExecReject(r)
  BY <1>27 DEF ExecReject, TypeOK, Unkilled
<1>28. CASE ExecRecvPayload(r)
  BY <1>28 DEF ExecRecvPayload, TypeOK, Unkilled
<1>29. CASE ExecRecvStatus(r)
  BY <1>29 DEF ExecRecvStatus, TypeOK, Unkilled
<1>30. CASE ExecLock(r)
  BY <1>30 DEF ExecLock, TypeOK, Unkilled
<1>31. CASE ExecDrop(r)
  BY <1>31 DEF ExecDrop, TypeOK, Unkilled
<1>32. CASE ExecSend(r)
  BY <1>32 DEF ExecSend, TypeOK, Unkilled
<1>33. CASE ExecEnd(r)
  BY <1>33 DEF ExecEnd, TypeOK, Unkilled
<1>34. CASE WaiterReap(r)
  BY <1>34 DEF WaiterReap, TypeOK, Unkilled
<1>35. CASE WaiterCheck(r)
  BY <1>35 DEF WaiterCheck, TypeOK, Unkilled
<1>36. CASE WaiterDrain(r)
  BY <1>36 DEF WaiterDrain, TypeOK, Unkilled
<1>37. CASE WaiterCancelled(r)
  BY <1>37 DEF WaiterCancelled, TypeOK, Unkilled
<1>38. CASE WaiterError(r)
  BY <1>38 DEF WaiterError, TypeOK, Unkilled
<1>39. CASE WaiterStatus(r)
  BY <1>39 DEF WaiterStatus, TypeOK, Unkilled
<1>40. CASE WaiterReport(r)
  BY <1>40 DEF WaiterReport, TypeOK, Unkilled
<1>41. CASE WaiterLock(r)
  BY <1>41 DEF WaiterLock, TypeOK, Unkilled
<1>42. CASE WaiterPush(r)
  BY <1>42 DEF WaiterPush, TypeOK, Unkilled
<1>43. CASE WaiterCapture(r)
  BY <1>43 DEF WaiterCapture, TypeOK, Unkilled
<1>44. CASE WaiterUnregister(r)
  BY <1>44 DEF WaiterUnregister, TypeOK, Unkilled
<1>45. CASE WaiterClose(r)
  BY <1>45 DEF WaiterClose, TypeOK, Unkilled
<1>46. CASE WaiterFinalize(r)
  BY <1>46 DEF WaiterFinalize, TypeOK, Unkilled
<1>47. CASE WaiterUpdate(r)
  BY <1>47 DEF WaiterUpdate, TypeOK, Unkilled
<1>48. CASE Forward(r)
  BY <1>48 DEF Forward, TypeOK, Unkilled
<1>49. CASE ForwardEnd(r)
  BY <1>49 DEF ForwardEnd, TypeOK, Unkilled
<1>50. CASE PyAsk(r)
  BY <1>50 DEF PyAsk, TypeOK, Unkilled
<1>51. CASE ExecRecvDialog(r)
  BY <1>51 DEF ExecRecvDialog, TypeOK, Unkilled
<1>52. CASE DialogAnswered(r)
  BY <1>52 DEF DialogAnswered, TypeOK, Unkilled
<1>53. CASE StreamBreaks(r)
  BY <1>53 DEF StreamBreaks, TypeOK, Unkilled
<1> QED
  BY <1>1, <1>2, <1>3, <1>4, <1>5, <1>6, <1>7, <1>8, <1>9, <1>10, <1>11, <1>12, <1>13, <1>14, <1>15, <1>16, <1>17, <1>18, <1>19, <1>20, <1>21, <1>22, <1>23, <1>24, <1>25, <1>26, <1>27, <1>28, <1>29, <1>30, <1>31, <1>32, <1>33, <1>34, <1>35, <1>36, <1>37, <1>38, <1>39, <1>40, <1>41, <1>42, <1>43, <1>44, <1>45, <1>46, <1>47, <1>48, <1>49, <1>50, <1>51, <1>52, <1>53 DEF RunStep, Starter, Sender, Canceller,
     Python, Execute, Waiter, Forwarder

-----------------------------------------------------------------------------
(* Sequences with at most one status *)

\* Appending a message that is not a status adds no status.
LEMMA NoStatusAppend ==
    ASSUME NEW S, NEW q \in Seq(S), NEW e \in S, NoStatus(q), e \notin Terminal
    PROVE  NoStatus(Append(q, e))
  BY DEF NoStatus

\* Taking the first message off adds no status.
LEMMA NoStatusTail ==
    ASSUME NEW S, NEW q \in Seq(S), q # <<>>, NoStatus(q)
    PROVE  NoStatus(Tail(q)) /\ Head(q) \notin Terminal
  BY DEF NoStatus

\* Appending a message that is not a status keeps the only one.
LEMMA OneStatusAppend ==
    ASSUME NEW S, NEW q \in Seq(S), NEW e \in S, NEW v, OneStatus(q, v), e \notin Terminal
    PROVE  OneStatus(Append(q, e), v)
  BY DEF OneStatus

\* Appending a status to a sequence without one makes it the only one.
LEMMA OneStatusPush ==
    ASSUME NEW S, NEW q \in Seq(S), NEW v \in S, NoStatus(q)
    PROVE  OneStatus(Append(q, v), v)
  BY DEF OneStatus, NoStatus

\* Taking the first message off keeps the only status unless it is that message.
LEMMA OneStatusTail ==
    ASSUME NEW S, NEW q \in Seq(S), NEW v \in Terminal, q # <<>>, OneStatus(q, v)
    PROVE  \/ Head(q) \notin Terminal /\ OneStatus(Tail(q), v)
           \/ Head(q) = v /\ NoStatus(Tail(q))
  BY DEF OneStatus, NoStatus

-----------------------------------------------------------------------------
\* Every step keeps the status of every run in one place.
LEMMA SentStep ==
    ASSUME TypeOK, \A q \in Run : Handed(q) /\ Placed(q) /\ Sent(q), NEW r \in Run, RunStep(r)
    PROVE  \A q \in Run : Sent(q)'
<1> USE DEF startVars, cancelVars, pyVars, netVars, execVars, flagVars,
            verdictVars, recordVars, fwdVars, Decided, Told
<1>1. CASE Starter(r)
  <2>1. /\ UNCHANGED <<ui, messages, final>>
        /\ waiter' = waiter \/ (waiter[r] = "none" /\ waiter' = [waiter EXCEPT ![r] = "wait"])
    BY <1>1 DEF Starter, StartRegister, StartSpawn, StartSpawnFails, StartActivate,
       StartLaunch, Placed
  <2> QED
    BY <2>1 DEF Sent, TypeOK
<1>2. CASE Sender(r)
  BY <1>2 DEF Sender, SenderConnected, SenderProcessDone, SenderTimeout, SenderSend,
     SenderSendFails, Placed, TypeOK, Sent
<1>3. CASE Canceller(r) \/ CancelMark(r) \/ CancelTimer(r)
  BY <1>3 DEF Canceller, CancelSend, CancelSendFails, CancelMark, CancelTimer, Placed, TypeOK, Sent
<1>4. CASE Python(r) \/ PyKilled(r)
  BY <1>4 DEF Python, PyOpen, PyConnected, PyConnectFails, PySend, PyAsk, PyComplete, PyFail,
     PyFailAfterComplete, PyCancelSeen, PyExit, WireLost, PyKilled, Placed, TypeOK, Sent
<1>5. CASE \/ ExecConnect(r) \/ ExecReject(r) \/ ExecRecvPayload(r) \/ ExecRecvStatus(r)
           \/ ExecRecvDialog(r)
  BY <1>5 DEF ExecConnect, ExecReject, ExecRecvPayload, ExecRecvStatus, ExecRecvDialog, Placed, TypeOK, Sent
<1>6. CASE \/ ExecLock(r) \/ ExecDrop(r) \/ ExecEnd(r) \/ DialogAnswered(r)
           \/ StreamBreaks(r)
  BY <1>6 DEF ExecLock, ExecDrop, ExecEnd, DialogAnswered, StreamBreaks, Placed, TypeOK, Sent
<1>7. CASE WaiterReap(r)
  BY <1>7 DEF WaiterReap, TypeOK, Sent
<1>8. CASE WaiterCheck(r)
  BY <1>8 DEF WaiterCheck, TypeOK, Sent
<1>9. CASE WaiterDrain(r)
  BY <1>9 DEF WaiterDrain, TypeOK, Sent
<1>10. CASE WaiterCancelled(r)
  BY <1>10 DEF WaiterCancelled, TypeOK, Sent
<1>11. CASE WaiterError(r)
  BY <1>11 DEF WaiterError, TypeOK, Sent
<1>12. CASE WaiterStatus(r)
  BY <1>12 DEF WaiterStatus, TypeOK, Sent
<1>13. CASE WaiterLock(r)
  BY <1>13 DEF WaiterLock, TypeOK, Sent
<1>14. CASE WaiterCapture(r)
  BY <1>14 DEF WaiterCapture, TypeOK, Sent
<1>15. CASE WaiterUnregister(r)
  BY <1>15 DEF WaiterUnregister, TypeOK, Sent
<1>16. CASE WaiterClose(r)
  BY <1>16 DEF WaiterClose, TypeOK, Sent
<1>17. CASE WaiterFinalize(r)
  BY <1>17 DEF WaiterFinalize, TypeOK, Sent
<1>18. CASE WaiterUpdate(r)
  BY <1>18 DEF WaiterUpdate, TypeOK, Sent
<1>19. CASE ExecSend(r)
  <2>1. /\ messages' = [messages EXCEPT ![r] = Append(messages[r], execMsg[r])]
        /\ UNCHANGED <<ui, waiter, final>>
    BY <1>19 DEF ExecSend
  <2>2. execMsg[r] \in Payload /\ execMsg[r] \notin Terminal
    BY <1>19 DEF ExecSend, Handed, Payload, ErrorMsg, Terminal
  <2>3. messages[r] \in Seq(Payload \cup Terminal)
    BY DEF TypeOK
  <2>4. NoStatus(messages[r]) => NoStatus(Append(messages[r], execMsg[r]))
    BY <2>2, <2>3, NoStatusAppend
  <2>5. OneStatus(messages[r], final[r]) => OneStatus(Append(messages[r], execMsg[r]), final[r])
    BY <2>2, <2>3, OneStatusAppend
  <2> QED
    BY <2>1, <2>4, <2>5 DEF Sent, TypeOK
<1>20. CASE WaiterReport(r)
  <2>1. /\ waiter[r] = "report" /\ waiter' = [waiter EXCEPT ![r] = "lock"]
        /\ ui' = ui \/ ui' = [ui EXCEPT ![r] = Append(ui[r], "crash")]
        /\ UNCHANGED <<messages, final>>
    BY <1>20 DEF WaiterReport
  <2>2. ui[r] \in Seq(UiEvent) /\ "crash" \in UiEvent /\ "crash" \notin Terminal
    BY DEF TypeOK, UiEvent, Terminal
  <2>3. NoStatus(ui[r]) => NoStatus(Append(ui[r], "crash"))
    BY <2>2, NoStatusAppend
  <2>4. CASE ui' = ui
    BY <2>1, <2>4 DEF Sent, TypeOK
  <2>5. CASE ui' = [ui EXCEPT ![r] = Append(ui[r], "crash")]
    BY <2>1, <2>3, <2>5 DEF Sent, TypeOK
  <2> QED
    BY <2>1, <2>4, <2>5
<1>21. CASE WaiterPush(r)
  <2>1. /\ waiter[r] = "push" /\ waiter' = [waiter EXCEPT ![r] = "capture"]
        /\ messages' = [messages EXCEPT ![r] = Append(messages[r], final[r])]
        /\ UNCHANGED <<ui, final>>
    BY <1>21 DEF WaiterPush
  <2>2. messages[r] \in Seq(Payload \cup Terminal) /\ final[r] \in Payload \cup Terminal
    BY <2>1 DEF TypeOK, Handed
  <2>3. OneStatus(Append(messages[r], final[r]), final[r]) /\ NoStatus(ui[r])
    BY <2>1, <2>2, OneStatusPush DEF Sent
  <2> QED
    BY <2>1, <2>3 DEF Sent, TypeOK
<1>22. CASE Forward(r)
  <2> DEFINE m == Head(messages[r])
             e == Routed(r, m)
  <2>1. /\ messages[r] # <<>>
        /\ ui' = [ui EXCEPT ![r] = Append(ui[r], e)]
        /\ messages' = [messages EXCEPT ![r] = Tail(messages[r])]
        /\ UNCHANGED <<waiter, final>>
    BY <1>22 DEF Forward
  <2>2. messages[r] \in Seq(Payload \cup Terminal) /\ ui[r] \in Seq(UiEvent)
    BY DEF TypeOK
  <2>3. m \in Payload \cup Terminal
    BY <2>1, <2>2
  <2>4. e \in UiEvent /\ (m \in Terminal => e = m) /\ (m \notin Terminal => e \notin Terminal)
    BY <2>3 DEF Routed, UiEvent, Terminal, Payload, ErrorMsg
  <2> HIDE DEF m, e
  <2>5. CASE waiter[r] \notin Told
    <3>1. m \notin Terminal /\ NoStatus(Tail(messages[r]))
      BY <2>1, <2>2, <2>5, NoStatusTail DEF Sent, m
    <3>2. NoStatus(Append(ui[r], e))
      BY <2>2, <2>4, <2>5, <3>1, NoStatusAppend DEF Sent
    <3> QED
      BY <2>1, <2>5, <3>1, <3>2 DEF Sent, TypeOK
  <2>6. CASE waiter[r] \in Told /\ NoStatus(ui[r]) /\ OneStatus(messages[r], final[r])
    <3>0. final[r] \in Terminal /\ final[r] \in UiEvent
      BY <2>6 DEF Handed, UiEvent
    <3>1. CASE m \notin Terminal /\ OneStatus(Tail(messages[r]), final[r])
      <4>1. NoStatus(Append(ui[r], e))
        BY <2>2, <2>4, <2>6, <3>1, NoStatusAppend
      <4> QED
        BY <2>1, <2>6, <3>1, <4>1 DEF Sent, TypeOK
    <3>2. CASE m = final[r] /\ NoStatus(Tail(messages[r]))
      <4>1. OneStatus(Append(ui[r], e), final[r])
        BY <2>2, <2>4, <2>6, <3>0, <3>2, OneStatusPush
      <4> QED
        BY <2>1, <2>6, <3>2, <4>1 DEF Sent, TypeOK
    <3> QED
      BY <2>1, <2>2, <2>6, <3>0, <3>1, <3>2, OneStatusTail DEF m
  <2>7. CASE waiter[r] \in Told /\ OneStatus(ui[r], final[r]) /\ NoStatus(messages[r])
    <3>1. m \notin Terminal /\ NoStatus(Tail(messages[r]))
      BY <2>1, <2>2, <2>7, NoStatusTail DEF m
    <3>2. OneStatus(Append(ui[r], e), final[r])
      BY <2>2, <2>4, <2>7, <3>1, OneStatusAppend
    <3> QED
      BY <2>1, <2>7, <3>1, <3>2 DEF Sent, TypeOK
  <2> QED
    BY <2>5, <2>6, <2>7 DEF Sent
<1>23. CASE ForwardEnd(r)
  BY <1>23 DEF ForwardEnd, TypeOK, Sent
<1> QED
  BY <1>1, <1>2, <1>3, <1>4, <1>5, <1>6, <1>7, <1>8, <1>9, <1>10, <1>11, <1>12, <1>13, <1>14, <1>15, <1>16, <1>17, <1>18, <1>19, <1>20, <1>21, <1>22, <1>23 DEF RunStep, Execute, Waiter, Forwarder

-----------------------------------------------------------------------------
\* Every step keeps the status of a drained run last.
LEMMA SentLastStep ==
    ASSUME TypeOK, \A q \in Run : Handed(q) /\ Placed(q) /\ Judged(q) /\ SentLast(q),
           NEW r \in Run, RunStep(r)
    PROVE  \A q \in Run : SentLast(q)'
<1> USE DEF startVars, cancelVars, pyVars, netVars, execVars, flagVars,
            verdictVars, recordVars, fwdVars, Decided, Told
<1>1. CASE Starter(r)
  <2>1. /\ UNCHANGED <<ui, messages, final, drain>>
        /\ waiter' = waiter \/ (waiter[r] = "none" /\ waiter' = [waiter EXCEPT ![r] = "wait"])
    BY <1>1 DEF Starter, StartRegister, StartSpawn, StartSpawnFails, StartActivate,
       StartLaunch, Placed
  <2> QED
    BY <2>1 DEF SentLast, TypeOK
<1>2. CASE Sender(r)
  BY <1>2 DEF Sender, SenderConnected, SenderProcessDone, SenderTimeout, SenderSend,
     SenderSendFails, TypeOK, SentLast
<1>3. CASE Canceller(r) \/ CancelMark(r) \/ CancelTimer(r)
  BY <1>3 DEF Canceller, CancelSend, CancelSendFails, CancelMark, CancelTimer, TypeOK, SentLast
<1>4. CASE Python(r) \/ PyKilled(r)
  BY <1>4 DEF Python, PyOpen, PyConnected, PyConnectFails, PySend, PyAsk, PyComplete, PyFail,
     PyFailAfterComplete, PyCancelSeen, PyExit, WireLost, PyKilled, TypeOK, SentLast
<1>5. CASE \/ ExecConnect(r) \/ ExecReject(r) \/ ExecRecvPayload(r) \/ ExecRecvStatus(r)
           \/ ExecRecvDialog(r)
  BY <1>5 DEF ExecConnect, ExecReject, ExecRecvPayload, ExecRecvStatus, ExecRecvDialog, TypeOK, SentLast
<1>6. CASE \/ ExecLock(r) \/ ExecDrop(r) \/ ExecEnd(r) \/ DialogAnswered(r)
           \/ StreamBreaks(r)
  BY <1>6 DEF ExecLock, ExecDrop, ExecEnd, DialogAnswered, StreamBreaks, TypeOK, SentLast
<1>7. CASE WaiterReap(r)
  BY <1>7 DEF WaiterReap, TypeOK, SentLast
<1>8. CASE WaiterCheck(r)
  BY <1>8 DEF WaiterCheck, TypeOK, SentLast
<1>9. CASE WaiterDrain(r)
  BY <1>9 DEF WaiterDrain, TypeOK, SentLast
<1>10. CASE WaiterCancelled(r)
  BY <1>10 DEF WaiterCancelled, TypeOK, SentLast
<1>11. CASE WaiterError(r)
  BY <1>11 DEF WaiterError, TypeOK, SentLast
<1>12. CASE WaiterStatus(r)
  BY <1>12 DEF WaiterStatus, TypeOK, SentLast
<1>13. CASE WaiterReport(r)
  BY <1>13 DEF WaiterReport, TypeOK, SentLast
<1>14. CASE WaiterLock(r)
  BY <1>14 DEF WaiterLock, TypeOK, SentLast
<1>15. CASE WaiterCapture(r)
  BY <1>15 DEF WaiterCapture, TypeOK, SentLast
<1>16. CASE WaiterUnregister(r)
  BY <1>16 DEF WaiterUnregister, TypeOK, SentLast
<1>17. CASE WaiterClose(r)
  BY <1>17 DEF WaiterClose, TypeOK, SentLast
<1>18. CASE WaiterFinalize(r)
  BY <1>18 DEF WaiterFinalize, TypeOK, SentLast
<1>19. CASE WaiterUpdate(r)
  BY <1>19 DEF WaiterUpdate, TypeOK, SentLast
<1>20. CASE ExecSend(r)
  <2>1. /\ drain[r] # "eof"
        /\ messages' = [messages EXCEPT ![r] = Append(messages[r], execMsg[r])]
        /\ UNCHANGED <<ui, waiter, final, drain>>
    BY <1>20 DEF ExecSend, Judged, ExecReturned
  <2> QED
    BY <2>1 DEF SentLast, TypeOK
<1>21. CASE WaiterPush(r)
  <2>1. /\ messages' = [messages EXCEPT ![r] = Append(messages[r], final[r])]
        /\ waiter' = [waiter EXCEPT ![r] = "capture"]
        /\ UNCHANGED <<ui, final, drain>>
    BY <1>21 DEF WaiterPush
  <2>2. messages[r] \in Seq(Payload \cup Terminal)
    BY DEF TypeOK
  <2>3. LET q == Append(messages[r], final[r]) IN q # <<>> /\ q[Len(q)] = final[r]
    BY <2>2
  <2> QED
    BY <2>1, <2>3 DEF SentLast, TypeOK
<1>22. CASE Forward(r)
  <2> DEFINE q == messages[r]
             e == Routed(r, Head(q))
  <2>1. /\ q # <<>>
        /\ ui' = [ui EXCEPT ![r] = Append(ui[r], e)]
        /\ messages' = [messages EXCEPT ![r] = Tail(q)]
        /\ UNCHANGED <<waiter, final, drain>>
    BY <1>22 DEF Forward
  <2>2. q \in Seq(Payload \cup Terminal) /\ ui[r] \in Seq(UiEvent)
    BY DEF TypeOK
  <2>3. Head(q) \in Terminal => e = Head(q)
    BY DEF Routed, Terminal, ErrorMsg
  <2>4. IF Tail(q) = <<>> THEN q[Len(q)] = Head(q) ELSE Tail(q)[Len(Tail(q))] = q[Len(q)]
    BY <2>1, <2>2
  <2> HIDE DEF e
  <2>5. Append(ui[r], e) # <<>> /\ Append(ui[r], e)[Len(Append(ui[r], e))] = e
    BY <2>2
  <2>6. waiter[r] \in Told => final[r] \in Terminal
    BY DEF Handed
  <2>9. ui'[r] = Append(ui[r], e) /\ messages'[r] = Tail(q)
    BY <2>1 DEF TypeOK
  <2>7. SentLast(r)'
    <3> SUFFICES ASSUME drain[r] = "eof", waiter[r] \in Told
                 PROVE  IF Tail(q) = <<>> THEN e = final[r] ELSE Tail(q)[Len(Tail(q))] = final[r]
      BY <2>1, <2>5, <2>9 DEF SentLast
    <3>1. q[Len(q)] = final[r]
      BY <2>1 DEF SentLast
    <3> QED
      BY <2>3, <2>4, <2>6, <3>1
  <2>8. ASSUME NEW p \in Run, p # r PROVE SentLast(p)'
    BY <2>1, <2>8 DEF SentLast, TypeOK
  <2> QED
    BY <2>7, <2>8
<1>23. CASE ForwardEnd(r)
  BY <1>23 DEF ForwardEnd, TypeOK, SentLast
<1> QED
  BY <1>1, <1>2, <1>3, <1>4, <1>5, <1>6, <1>7, <1>8, <1>9, <1>10, <1>11, <1>12, <1>13, <1>14, <1>15, <1>16, <1>17, <1>18, <1>19, <1>20, <1>21, <1>22, <1>23 DEF RunStep, Execute, Waiter, Forwarder

-----------------------------------------------------------------------------
(* The invariant and its consequences *)

Inv ==
    /\ TypeOK
    /\ \A r \in Run : /\ Handed(r) /\ Placed(r) /\ Judged(r)
                      /\ Unkilled(r) /\ Sent(r) /\ SentLast(r)

\* The invariant holds initially.
LEMMA InvInit == Init => Inv
  BY DEF Init, Inv, TypeOK, Handed, Placed, Judged, Unkilled, Sent, SentLast, NoStart, NoStatus,
     Decided, Told, Alive, Terminal, Payload, ErrorMsg, ClientMsg, StatusMsg, UiEvent

\* The invariant is inductive.
LEMMA InvNext == Inv /\ [Next]_vars => Inv'
<1> SUFFICES ASSUME Inv, [Next]_vars PROVE Inv'
  OBVIOUS
<1>1. CASE UNCHANGED vars
  BY <1>1 DEF Inv, TypeOK, Handed, Placed, Judged, Unkilled, Sent, SentLast, vars, startVars,
     cancelVars, pyVars, netVars, execVars, flagVars, verdictVars, recordVars, fwdVars, ExecReturned
<1>2. ASSUME NEW r \in Run, RunStep(r) PROVE Inv'
  <2>1. TypeOK'
    BY <1>2, TypeStep DEF Inv
  <2>2. \A q \in Run : Handed(q)'
    BY <1>2, HandedStep DEF Inv
  <2>3. \A q \in Run : Placed(q)'
    BY <1>2, PlacedStep DEF Inv
  <2>4. \A q \in Run : Judged(q)'
    BY <1>2, JudgedStep DEF Inv
  <2>5. \A q \in Run : Unkilled(q)'
    BY <1>2, UnkilledStep DEF Inv
  <2>6. \A q \in Run : Sent(q)'
    BY <1>2, SentStep DEF Inv
  <2>7. \A q \in Run : SentLast(q)'
    BY <1>2, SentLastStep DEF Inv
  <2> QED
    BY <2>1, <2>2, <2>3, <2>4, <2>5, <2>6, <2>7 DEF Inv
<1> QED
  BY <1>1, <1>2 DEF Next, AllReturned

\* The invariant holds in every reachable state, for any set of runs.
THEOREM Invariance == Spec => []Inv
  BY InvInit, InvNext, PTL DEF Spec

\* Every variable keeps its type; in particular waitForExit only ever sends and
\* records one of the three terminal states.
THEOREM TypeCorrect == Spec => []TypeOK
  BY Invariance, PTL DEF Inv

\* RunChannel.Messages is never sent on after UnregisterRun closed it, and phaseMu
\* has one holder: Execute's trySend, waitForExit's trySend or the close.
THEOREM LockSafety == Spec => []NoSendOnClosed
<1>1. Inv => NoSendOnClosed
  BY DEF Inv, NoSendOnClosed, Placed
<1> QED
  BY <1>1, Invariance, PTL

\* deriveFinalStatus gives what its trust order gives on the settled flags.
THEOREM VerdictSound == Spec => []TrustOrder
<1>1. Inv => TrustOrder
  BY DEF Inv, TrustOrder, Judged
<1> QED
  BY <1>1, Invariance, PTL

\* A started script is killed only after a cancel.
THEOREM KillNeedsCancel == Spec => []HealthyRunNotKilled
<1>1. Inv => HealthyRunNotKilled
  BY DEF Inv, HealthyRunNotKilled, Unkilled
<1> QED
  BY <1>1, Invariance, PTL

\* A status that is in the outbox of a run is the verdict of the run.
LEMMA OutboxStatus ==
    ASSUME TypeOK, NEW r \in Run, Sent(r), NEW v \in Terminal,
           v \in Range(ui[r]) \cup Range(messages[r])
    PROVE  final[r] = v /\ waiter[r] \in Told
<1>1. ui[r] \in Seq(UiEvent) /\ messages[r] \in Seq(Payload \cup Terminal)
  BY DEF TypeOK
<1>2. \/ \E i \in 1..Len(ui[r]) : ui[r][i] = v
      \/ \E i \in 1..Len(messages[r]) : messages[r][i] = v
  BY <1>1 DEF Range
<1> QED
  BY <1>2 DEF Sent, NoStatus, OneStatus

\* Nothing says completed unless the process exited 0 and Python said so.
THEOREM SuccessIsEarned == Spec => []NoFalseSuccess
<1>1. ASSUME Inv PROVE NoFalseSuccess
  <2> SUFFICES ASSUME NEW r \in Run,
                      "completed" \in {final[r], history[r], db[r]}
                                        \cup Range(ui[r]) \cup Range(messages[r])
               PROVE  py[r] = "exited" /\ exit[r] = "zero" /\ pythonStatus[r] = "completed"
    BY DEF NoFalseSuccess
  <2>1. final[r] = "completed"
    <3>1. CASE "completed" \in Range(ui[r]) \cup Range(messages[r])
      BY <1>1, <3>1, OutboxStatus DEF Inv, Terminal
    <3>2. CASE "completed" \in {final[r], history[r], db[r]}
      BY <1>1, <3>2 DEF Inv, Judged, Terminal
    <3> QED
      BY <3>1, <3>2
  <2> QED
    BY <1>1, <2>1 DEF Inv, Judged, Decided
<1> QED
  BY <1>1, Invariance, PTL

\* The statuses of two sequences put together.
LEMMA JoinedNone ==
    ASSUME NEW S, NEW u \in Seq(S), NEW m \in Seq(S), NoStatus(u), NoStatus(m)
    PROVE  \A i \in DOMAIN (u \o m) : (u \o m)[i] \notin Terminal
<1>1. /\ DOMAIN (u \o m) = 1..(Len(u) + Len(m)) /\ Len(u) \in Nat /\ Len(m) \in Nat
      /\ \A i \in 1..(Len(u) + Len(m)) :
            (u \o m)[i] = IF i <= Len(u) THEN u[i] ELSE m[i - Len(u)]
  BY ConcatProperties
<1>2. \A k \in 1..(Len(u) + Len(m)) :
         IF k <= Len(u) THEN k \in 1..Len(u) ELSE k - Len(u) \in 1..Len(m)
  BY <1>1
<1> QED
  BY <1>1, <1>2 DEF NoStatus

\* Joining a sequence with one status to one without gives one status.
LEMMA JoinedOnce ==
    ASSUME NEW S, NEW u \in Seq(S), NEW m \in Seq(S), NEW v,
           \/ NoStatus(u) /\ NoStatus(m)
           \/ NoStatus(u) /\ OneStatus(m, v)
           \/ OneStatus(u, v) /\ NoStatus(m)
    PROVE  \A i, j \in DOMAIN (u \o m) :
              (u \o m)[i] \in Terminal /\ (u \o m)[j] \in Terminal => i = j
<1>1. /\ DOMAIN (u \o m) = 1..(Len(u) + Len(m)) /\ Len(u) \in Nat /\ Len(m) \in Nat
      /\ \A i \in 1..(Len(u) + Len(m)) :
            (u \o m)[i] = IF i <= Len(u) THEN u[i] ELSE m[i - Len(u)]
  BY ConcatProperties
<1> SUFFICES ASSUME NEW i \in 1..(Len(u) + Len(m)), NEW j \in 1..(Len(u) + Len(m)),
                    (u \o m)[i] \in Terminal, (u \o m)[j] \in Terminal
             PROVE  i = j
  BY <1>1
<1>2. \A k \in 1..(Len(u) + Len(m)) :
         IF k <= Len(u) THEN k \in 1..Len(u) ELSE k - Len(u) \in 1..Len(m)
  BY <1>1
<1>3. CASE NoStatus(u) /\ NoStatus(m)
  BY <1>1, <1>2, <1>3 DEF NoStatus
<1>4. CASE NoStatus(u) /\ OneStatus(m, v)
  <2>1. PICK k \in 1..Len(m) : \A n \in 1..Len(m) : m[n] \in Terminal => n = k
    BY <1>4 DEF OneStatus
  <2>2. i > Len(u) /\ j > Len(u)
    BY <1>1, <1>2, <1>4 DEF NoStatus
  <2>3. /\ i - Len(u) \in 1..Len(m) /\ j - Len(u) \in 1..Len(m)
        /\ m[i - Len(u)] \in Terminal /\ m[j - Len(u)] \in Terminal
    BY <1>1, <1>2, <2>2
  <2>4. i - Len(u) = k /\ j - Len(u) = k
    BY <2>1, <2>3
  <2> QED
    BY <1>1, <2>4
<1>5. CASE OneStatus(u, v) /\ NoStatus(m)
  <2>1. PICK k \in 1..Len(u) : \A n \in 1..Len(u) : u[n] \in Terminal => n = k
    BY <1>5 DEF OneStatus
  <2>2. i <= Len(u) /\ j <= Len(u)
    BY <1>1, <1>2, <1>5 DEF NoStatus
  <2> QED
    BY <1>1, <1>2, <2>1, <2>2
<1> QED
  BY <1>3, <1>4, <1>5

\* Joining keeps the status of either sequence.
LEMMA JoinedHas ==
    ASSUME NEW S, NEW u \in Seq(S), NEW m \in Seq(S), NEW v, OneStatus(u, v) \/ OneStatus(m, v)
    PROVE  v \in Range(u \o m)
<1>1. /\ DOMAIN (u \o m) = 1..(Len(u) + Len(m)) /\ Len(u) \in Nat /\ Len(m) \in Nat
      /\ \A i \in 1..(Len(u) + Len(m)) :
            (u \o m)[i] = IF i <= Len(u) THEN u[i] ELSE m[i - Len(u)]
  BY ConcatProperties
<1>2. CASE OneStatus(u, v)
  <2>1. PICK k \in 1..Len(u) : u[k] = v
    BY <1>2 DEF OneStatus
  <2>2. k \in DOMAIN (u \o m) /\ (u \o m)[k] = v
    BY <1>1, <2>1
  <2> QED
    BY <2>2 DEF Range
<1>3. CASE OneStatus(m, v)
  <2>1. PICK k \in 1..Len(m) : m[k] = v
    BY <1>3 DEF OneStatus
  <2>2. Len(u) + k \in DOMAIN (u \o m) /\ (u \o m)[Len(u) + k] = v
    BY <1>1, <2>1
  <2> QED
    BY <2>2 DEF Range
<1> QED
  BY <1>2, <1>3

\* The only status is last in a joined sequence if it is last in its second part.
LEMMA JoinedLast ==
    ASSUME NEW S, NEW u \in Seq(S), NEW m \in Seq(S), NEW v \in Terminal,
           \/ m = <<>> /\ u # <<>> /\ u[Len(u)] = v
           \/ m # <<>> /\ m[Len(m)] = v,
           \A i, j \in DOMAIN (u \o m) :
              (u \o m)[i] \in Terminal /\ (u \o m)[j] \in Terminal => i = j
    PROVE  \A i \in DOMAIN (u \o m) : (u \o m)[i] \in Terminal => i = Len(u \o m)
<1>1. /\ Len(u \o m) = Len(u) + Len(m) /\ Len(u) \in Nat /\ Len(m) \in Nat
      /\ DOMAIN (u \o m) = 1..(Len(u) + Len(m))
      /\ \A i \in 1..(Len(u) + Len(m)) :
            (u \o m)[i] = IF i <= Len(u) THEN u[i] ELSE m[i - Len(u)]
  BY ConcatProperties
<1>2. Len(u \o m) \in DOMAIN (u \o m) /\ (u \o m)[Len(u \o m)] = v
  <2>1. CASE m = <<>>
    BY <1>1, <2>1
  <2>2. CASE m # <<>>
    <3>1. Len(m) > 0
      BY <2>2
    <3> QED
      BY <1>1, <2>2, <3>1
  <2> QED
    BY <2>1, <2>2
<1> QED
  BY <1>2

\* Sent gives OneTerminalStatus.
LEMMA OutboxOnce == ASSUME Inv PROVE OneTerminalStatus
<1> SUFFICES ASSUME NEW r \in Run
             PROVE  /\ \A i, j \in DOMAIN Outbox(r) :
                         Outbox(r)[i] \in Terminal /\ Outbox(r)[j] \in Terminal => i = j
                    /\ history[r] # "none" => history[r] \in Range(Outbox(r))
  BY DEF OneTerminalStatus
<1> DEFINE S == UiEvent \cup Payload \cup Terminal
<1>1. ui[r] \in Seq(S) /\ messages[r] \in Seq(S)
  BY DEF Inv, TypeOK
<1>2. Sent(r)
  BY DEF Inv
<1> HIDE DEF S
<1>3. \A i, j \in DOMAIN Outbox(r) :
         Outbox(r)[i] \in Terminal /\ Outbox(r)[j] \in Terminal => i = j
  BY <1>1, <1>2, JoinedOnce DEF Sent, Outbox
<1>4. ASSUME history[r] # "none" PROVE history[r] \in Range(Outbox(r))
  <2>1. waiter[r] \in Told /\ history[r] = final[r]
    BY <1>4 DEF Inv, Judged, Told
  <2>2. OneStatus(ui[r], final[r]) \/ OneStatus(messages[r], final[r])
    BY <1>2, <2>1 DEF Sent
  <2> QED
    BY <1>1, <2>1, <2>2, JoinedHas DEF Outbox
<1> QED
  BY <1>3, <1>4

\* The frontend is sent at most one terminal status for a run, and the one that is
\* recorded: Manager is the sole emitter.
THEOREM StatusOnce == Spec => []OneTerminalStatus
  BY OutboxOnce, Invariance, PTL

\* After a drained stream the terminal status is the last event of the run.
THEOREM StatusEndsRun == Spec => []StatusLast
<1>1. ASSUME Inv PROVE StatusLast
  <2> SUFFICES ASSUME NEW r \in Run, drain[r] = "eof"
               PROVE  \A i \in DOMAIN Outbox(r) :
                         Outbox(r)[i] \in Terminal => i = Len(Outbox(r))
    BY DEF StatusLast
  <2> DEFINE S == UiEvent \cup Payload \cup Terminal
  <2>1. ui[r] \in Seq(S) /\ messages[r] \in Seq(S) /\ Sent(r) /\ SentLast(r)
    BY <1>1 DEF Inv, TypeOK
  <2>2. \A i, j \in DOMAIN Outbox(r) :
           Outbox(r)[i] \in Terminal /\ Outbox(r)[j] \in Terminal => i = j
    BY <1>1, OutboxOnce DEF OneTerminalStatus
  <2> HIDE DEF S
  <2>3. CASE waiter[r] \notin Told
    BY <2>1, <2>3, JoinedNone DEF Sent, Outbox
  <2>4. CASE waiter[r] \in Told
    <3>1. final[r] \in Terminal
      BY <1>1, <2>4 DEF Inv, Handed, Told, Decided
    <3>2. \/ messages[r] = <<>> /\ ui[r] # <<>> /\ ui[r][Len(ui[r])] = final[r]
          \/ messages[r] # <<>> /\ messages[r][Len(messages[r])] = final[r]
      BY <2>1, <2>4 DEF SentLast
    <3> QED
      BY <2>1, <2>2, <3>1, <3>2, JoinedLast DEF Outbox
  <2> QED
    BY <2>3, <2>4
<1> QED
  BY <1>1, Invariance, PTL

-----------------------------------------------------------------------------
(* RunPromise *)

\* What RunPromise sees of a state.
Exited == {q \in Run : py[q] = "exited"}
Shown  == [q \in Run |-> StatusIn(ui[q])]
Stored == [q \in Run |-> IF db[q] \in Terminal THEN db[q] ELSE "none"]

\* A sequence without a status shows none.
LEMMA StatusInNone ==
    ASSUME NEW S, NEW q \in Seq(S), NoStatus(q)
    PROVE  StatusIn(q) = "none"
<1>1. DOMAIN q = 1..Len(q)
  OBVIOUS
<1>2. Range(q) \cap Terminal = {}
  BY <1>1 DEF NoStatus, Range
<1> QED
  BY <1>2 DEF StatusIn

\* A sequence with one status shows it.
LEMMA StatusInOne ==
    ASSUME NEW S, NEW q \in Seq(S), NEW v \in Terminal, OneStatus(q, v)
    PROVE  StatusIn(q) = v
<1>1. DOMAIN q = 1..Len(q)
  OBVIOUS
<1>2. v \in Range(q) /\ \A s \in Range(q) : s \in Terminal => s = v
  BY <1>1 DEF OneStatus, Range
<1>3. Range(q) \cap Terminal # {}
  BY <1>2
<1>4. (CHOOSE s \in Range(q) : s \in Terminal) = v
  BY <1>2
<1> QED
  BY <1>3, <1>4 DEF StatusIn

\* What the frontend has been shown is nothing or the verdict.
LEMMA ShownIsVerdict ==
    ASSUME Inv, NEW r \in Run
    PROVE  \/ StatusIn(ui[r]) = "none" /\ NoStatus(ui[r])
           \/ /\ StatusIn(ui[r]) = final[r] /\ final[r] \in Terminal
              /\ waiter[r] \in Told /\ OneStatus(ui[r], final[r])
<1>1. ui[r] \in Seq(UiEvent) /\ Sent(r)
  BY DEF Inv, TypeOK
<1>2. CASE NoStatus(ui[r])
  BY <1>1, <1>2, StatusInNone
<1>3. CASE waiter[r] \in Told /\ OneStatus(ui[r], final[r])
  <2>1. final[r] \in Terminal
    BY <1>3 DEF Inv, Handed, Told, Decided
  <2> QED
    BY <1>1, <1>3, <2>1, StatusInOne
<1> QED
  BY <1>1, <1>2, <1>3 DEF Sent

\* A forwarded message shows the verdict or changes nothing of what is shown.
LEMMA ShownKept ==
    ASSUME Inv, Inv', NEW r \in Run, Forward(r)
    PROVE  \/ StatusIn(ui'[r]) = StatusIn(ui[r])
           \/ /\ StatusIn(ui[r]) = "none"
              /\ StatusIn(ui'[r]) = final[r] /\ final[r] \in Terminal
<1>1. ui[r] \in Seq(UiEvent) /\ ui'[r] \in Seq(UiEvent) /\ final'[r] = final[r]
  BY DEF Inv, TypeOK, Forward, verdictVars
<1>2. PICK e \in UiEvent : ui'[r] = Append(ui[r], e)
  <2>1. ui' = [ui EXCEPT ![r] = Append(@, Routed(r, Head(messages[r])))]
    BY DEF Forward
  <2>2. ui'[r] = Append(ui[r], Routed(r, Head(messages[r])))
    BY <2>1 DEF Inv, TypeOK
  <2>3. messages[r] \in Seq(Payload \cup Terminal) /\ messages[r] # <<>>
    BY DEF Inv, TypeOK, Forward
  <2>4. Head(messages[r]) \in Payload \cup Terminal
    BY <2>3
  <2>5. Routed(r, Head(messages[r])) \in UiEvent
    BY <2>4 DEF Routed, UiEvent, Payload, ErrorMsg
  <2> QED
    BY <2>2, <2>5
<1>3. \/ StatusIn(ui[r]) = "none" /\ NoStatus(ui[r])
      \/ /\ StatusIn(ui[r]) = final[r] /\ final[r] \in Terminal
         /\ OneStatus(ui[r], final[r])
  BY ShownIsVerdict
<1>4. NoStatus(ui'[r]) \/ (OneStatus(ui'[r], final[r]) /\ final[r] \in Terminal)
  BY <1>1 DEF Inv, Sent, Handed, Told, Decided
<1>5. CASE NoStatus(ui'[r])
  <2>1. NoStatus(ui[r])
    BY <1>1, <1>2, <1>5 DEF NoStatus
  <2> QED
    BY <1>1, <1>5, <2>1, StatusInNone
<1>6. CASE OneStatus(ui'[r], final[r]) /\ final[r] \in Terminal
  <2>1. StatusIn(ui'[r]) = final[r]
    BY <1>1, <1>6, StatusInOne
  <2> QED
    BY <1>3, <1>6, <2>1
<1> QED
  BY <1>4, <1>5, <1>6

\* Initial states map to initial states of RunPromise.
LEMMA PromiseInit == Init => Promise!Init
<1> SUFFICES ASSUME Init PROVE Promise!Init
  OBVIOUS
<1>1. \A r \in Run : StatusIn(ui[r]) = "none"
  <2>1. <<>> \in Seq(UiEvent) /\ NoStatus(<<>>)
    BY DEF NoStatus
  <2> QED
    BY <2>1, StatusInNone DEF Init
<1> QED
  BY <1>1 DEF Init, Promise!Init, Terminal

\* Every step of a run is a step of RunPromise or changes nothing it shows.
LEMMA PromiseStep ==
    ASSUME Inv, Inv', NEW r \in Run, RunStep(r)
    PROVE  [Promise!Next]_(Promise!vars)
<1> USE DEF startVars, cancelVars, pyVars, netVars, execVars, flagVars,
            verdictVars, recordVars, fwdVars
<1>t. TypeOK /\ Placed(r) /\ Judged(r) /\ Handed(r)
  BY DEF Inv
<1>1. CASE PyExit(r) \/ PyKilled(r)
  <2>1. /\ py[r] # "exited" /\ py' = [py EXCEPT ![r] = "exited"]
        /\ UNCHANGED <<final, ui, history, db>>
    BY <1>1 DEF PyExit, PyKilled, Alive
  <2>2. r \notin Exited /\ Exited' = Exited \cup {r}
    BY <1>t, <2>1 DEF Exited, TypeOK
  <2>3. Promise!Exit(r)
    BY <2>1, <2>2 DEF Promise!Exit, Exited
  <2> QED
    BY <2>3 DEF Promise!Next
<1>2. CASE WaiterCancelled(r) \/ WaiterError(r) \/ WaiterStatus(r)
  <2>1. PICK v : final' = [final EXCEPT ![r] = v]
    BY <1>2 DEF WaiterCancelled, WaiterError, WaiterStatus
  <2>2. /\ final[r] = "none" /\ py[r] = "exited"
        /\ UNCHANGED <<py, ui, history, db>>
    BY <1>2, <1>t DEF WaiterCancelled, WaiterError, WaiterStatus, Judged, Decided
  <2>3. v \in {"none"} \cup Terminal
    BY <1>t, <2>1 DEF Inv, TypeOK
  <2>4. CASE v = "none"
    <3>1. final' = final
      BY <1>t, <2>1, <2>2, <2>4 DEF TypeOK
    <3> QED
      BY <2>2, <3>1 DEF Promise!vars
  <2>5. CASE v \in Terminal
    <3>1. v \in Promise!Status
      BY <2>5 DEF Promise!Status, Terminal
    <3>2. r \in Exited
      BY <2>2 DEF Exited
    <3>3. Promise!Decide(r)
      BY <2>1, <2>2, <3>1, <3>2 DEF Promise!Decide, Exited
    <3> QED
      BY <3>3 DEF Promise!Next
  <2> QED
    BY <2>3, <2>4, <2>5
<1>3. CASE Forward(r)
  <2>1. UNCHANGED <<py, final, history, db, waiter>> /\ \A q \in Run \ {r} : ui'[q] = ui[q]
    BY <1>3, <1>t DEF Forward, TypeOK
  <2>2. CASE StatusIn(ui'[r]) = StatusIn(ui[r])
    <3>1. Shown' = Shown
      BY <2>1, <2>2 DEF Shown
    <3> QED
      BY <2>1, <3>1 DEF Promise!vars, Shown
  <2>3. CASE /\ StatusIn(ui[r]) = "none"
             /\ StatusIn(ui'[r]) = final[r] /\ final[r] \in Terminal
    <3>1. Shown' = [Shown EXCEPT ![r] = final[r]] /\ Shown[r] = "none" /\ final[r] # "none"
      BY <2>1, <2>3 DEF Shown, Terminal
    <3>2. Promise!Show(r)
      BY <2>1, <3>1 DEF Promise!Show, Shown
    <3> QED
      BY <3>2 DEF Promise!Next
  <2> QED
    BY <1>3, <2>2, <2>3, ShownKept
<1>4. CASE WaiterFinalize(r)
  <2>1. /\ history' = [history EXCEPT ![r] = final[r]] /\ history[r] = "none" /\ final[r] # "none"
        /\ UNCHANGED <<py, final, ui, db>>
    BY <1>4, <1>t DEF WaiterFinalize, RecordStatus, Judged, Decided
  <2>2. Promise!Record(r)
    BY <2>1 DEF Promise!Record
  <2> QED
    BY <2>2 DEF Promise!Next
<1>5. CASE WaiterUpdate(r)
  <2>1. PICK row \in {db[r]} \cup (IF db[r] = "running" THEN {history[r]} ELSE {}) :
            db' = [db EXCEPT ![r] = row]
    BY <1>5 DEF WaiterUpdate
  <2>2. UNCHANGED <<py, final, ui, history>> /\ history[r] \in Terminal
    BY <1>5, <1>t DEF WaiterUpdate, Handed
  <2>3. CASE row = db[r]
    <3>1. db' = db
      BY <1>t, <2>1, <2>3 DEF TypeOK
    <3> QED
      BY <2>2, <3>1 DEF Promise!vars
  <2>4. CASE row = history[r] /\ db[r] = "running"
    <3>0. db'[r] = history[r] /\ \A q \in Run \ {r} : db'[q] = db[q]
      BY <1>t, <2>1, <2>4 DEF TypeOK
    <3>1. Stored' = [Stored EXCEPT ![r] = history[r]] /\ Stored[r] = "none"
      BY <2>2, <2>4, <3>0 DEF Stored, Terminal
    <3>2. history[r] # "none"
      BY <2>2 DEF Terminal
    <3>3. Promise!Store(r)
      BY <2>2, <3>1, <3>2 DEF Promise!Store, Stored
    <3> QED
      BY <3>3 DEF Promise!Next
  <2> QED
    BY <2>1, <2>3, <2>4
<1>6. CASE StartLaunch(r)
  <2>1. /\ UNCHANGED <<py, final, ui, history>>
        /\ db[r] = "absent" /\ db'[r] \in {"running", "absent"}
        /\ \A q \in Run \ {r} : db'[q] = db[q]
    BY <1>6, <1>t DEF StartLaunch, TypeOK, Placed
  <2>2. Stored' = Stored
    BY <2>1 DEF Stored, Terminal
  <2> QED
    BY <2>1, <2>2 DEF Promise!vars, Stored
<1>7. CASE WaiterReport(r)
  <2>1. UNCHANGED <<py, final, history, db>> /\ \A q \in Run \ {r} : ui'[q] = ui[q]
    BY <1>7, <1>t DEF WaiterReport, TypeOK
  <2>0. waiter[r] \notin Told /\ waiter'[r] \notin Told
    BY <1>7, <1>t DEF WaiterReport, TypeOK, Told
  <2>2. /\ ui[r] \in Seq(UiEvent) /\ NoStatus(ui[r])
        /\ ui'[r] \in Seq(UiEvent) /\ NoStatus(ui'[r])
    BY <2>0 DEF Inv, TypeOK, Sent, Told
  <2>3. StatusIn(ui'[r]) = StatusIn(ui[r])
    BY <2>2, StatusInNone
  <2>4. Shown' = Shown
    BY <2>1, <2>3 DEF Shown
  <2> QED
    BY <2>1, <2>4 DEF Promise!vars, Shown
<1>8. CASE \/ StartSpawn(r) \/ PyOpen(r) \/ PyConnected(r) \/ PyConnectFails(r)
           \/ PyComplete(r) \/ PyFail(r) \/ PyFailAfterComplete(r)
  <2>1. /\ UNCHANGED <<final, ui, history, db>>
        /\ \A q \in Run : (py'[q] = "exited") <=> (py[q] = "exited")
    <3>1. CASE StartSpawn(r)
      BY <3>1, <1>t DEF StartSpawn, TypeOK, Placed
    <3>2. CASE PyOpen(r)
      BY <3>2, <1>t DEF PyOpen, TypeOK
    <3>3. CASE PyConnected(r)
      BY <3>3, <1>t DEF PyConnected, TypeOK
    <3>4. CASE PyConnectFails(r)
      BY <3>4, <1>t DEF PyConnectFails, TypeOK
    <3>5. CASE PyComplete(r)
      BY <3>5, <1>t DEF PyComplete, TypeOK
    <3>6. CASE PyFail(r)
      BY <3>6, <1>t DEF PyFail, TypeOK
    <3>7. CASE PyFailAfterComplete(r)
      BY <3>7, <1>t DEF PyFailAfterComplete, TypeOK
    <3> QED
      BY <1>8, <3>1, <3>2, <3>3, <3>4, <3>5, <3>6, <3>7
  <2>2. Exited' = Exited
    BY <2>1 DEF Exited
  <2> QED
    BY <2>1, <2>2 DEF Promise!vars, Exited
<1>9. CASE UNCHANGED <<py, final, ui, history, db>>
  BY <1>9 DEF Promise!vars
<1>10. CASE \/ StartRegister(r) \/ StartSpawnFails(r) \/ StartActivate(r) \/ Sender(r)
            \/ Canceller(r) \/ CancelMark(r) \/ CancelTimer(r)
  <2>1. UNCHANGED <<py, final, ui, history, db>>
    BY <1>10 DEF StartRegister, StartSpawnFails, StartActivate, Sender, SenderConnected,
                 SenderProcessDone, SenderTimeout, SenderSend, SenderSendFails, Canceller,
                 CancelSend, CancelSendFails, CancelMark, CancelTimer
  <2> QED
    BY <1>9, <2>1
<1>11. CASE \/ \E m \in {"output", "warn"} : PySend(r, m)
            \/ PyAsk(r) \/ PyCancelSeen(r) \/ WireLost(r)
            \/ Execute(r) \/ DialogAnswered(r) \/ StreamBreaks(r)
  <2>1. UNCHANGED <<py, final, ui, history, db>>
    BY <1>11 DEF PySend, PyAsk, PyCancelSeen, WireLost, Execute, ExecConnect, ExecReject,
                 ExecRecvPayload, ExecRecvStatus, ExecRecvDialog, ExecLock, ExecDrop, ExecSend,
                 ExecEnd, DialogAnswered, StreamBreaks
  <2> QED
    BY <1>9, <2>1
<1>12. CASE \/ WaiterReap(r) \/ WaiterCheck(r) \/ WaiterDrain(r) \/ WaiterLock(r)
            \/ WaiterPush(r) \/ WaiterCapture(r) \/ WaiterUnregister(r) \/ WaiterClose(r)
            \/ ForwardEnd(r)
  <2>1. UNCHANGED <<py, final, ui, history, db>>
    BY <1>12 DEF WaiterReap, WaiterCheck, WaiterDrain, WaiterLock, WaiterPush, WaiterCapture,
                 WaiterUnregister, WaiterClose, ForwardEnd
  <2> QED
    BY <1>9, <2>1
<1> QED
  BY <1>1, <1>2, <1>3, <1>4, <1>5, <1>6, <1>7, <1>8, <1>10, <1>11, <1>12
     DEF RunStep, Starter, Python, Waiter, Forwarder

\* The goroutines, locks, channels and timers of a run implement RunPromise: after the
\* exit of the process one verdict is reached, never changes, and is the only one
\* that the frontend, the history and the database ever show.
THEOREM PromiseKept == Spec => KeepsPromise
<1>1. Inv /\ Inv' /\ [Next]_vars => [Promise!Next]_(Promise!vars)
  <2> SUFFICES ASSUME Inv, Inv', [Next]_vars
               PROVE  [Promise!Next]_(Promise!vars)
    OBVIOUS
  <2>1. CASE \E r \in Run : RunStep(r)
    BY <2>1, PromiseStep
  <2>2. CASE AllReturned \/ UNCHANGED vars
    <3>1. UNCHANGED <<py, final, ui, history, db>>
      BY <2>2 DEF AllReturned, vars, pyVars, verdictVars, recordVars, fwdVars
    <3> QED
      BY <3>1 DEF Promise!vars
  <2> QED
    BY <2>1, <2>2 DEF Next
<1> QED
  BY <1>1, PromiseInit, Invariance, PTL DEF Spec, KeepsPromise, Promise!Spec

-----------------------------------------------------------------------------
(* RunEvents *)

\* What RunEvents sees of a state.
EmittedOf(q) == Len(ui[q]) - (IF StatusIn(ui[q]) = "none" THEN 0 ELSE 1)
Said    == [q \in Run |-> SaidOf(q)]
Drained == {q \in Run : drain[q] = "eof"}
Emitted == [q \in Run |-> EmittedOf(q)]

\* The caller of StartRun ranges over the channel only when StartRun has returned.
Following == \A q \in Run : starter[q] # "returned" => fwd[q] = "none"

\* Every step keeps it: nobody but StartLaunch starts forwardMessages.
LEMMA FollowingStep ==
    ASSUME TypeOK, Following, NEW r \in Run, RunStep(r)
    PROVE  Following'
<1> USE DEF startVars, cancelVars, pyVars, netVars, execVars, flagVars,
            verdictVars, recordVars, fwdVars
<1>1. CASE StartRegister(r) \/ StartSpawn(r) \/ StartSpawnFails(r) \/ StartActivate(r)
  BY <1>1 DEF StartRegister, StartSpawn, StartSpawnFails, StartActivate, Following, TypeOK
<1>2. CASE StartLaunch(r)
  BY <1>2 DEF StartLaunch, Following, TypeOK
<1>3. CASE ForwardEnd(r)
  BY <1>3 DEF ForwardEnd, Following, TypeOK
<1>4. CASE UNCHANGED <<starter, fwd>>
  BY <1>4 DEF Following
<1>5. CASE Sender(r) \/ Canceller(r) \/ CancelMark(r) \/ CancelTimer(r)
  <2>1. UNCHANGED <<starter, fwd>>
    BY <1>5 DEF Sender, SenderConnected, SenderProcessDone, SenderTimeout, SenderSend,
                SenderSendFails, Canceller, CancelSend, CancelSendFails, CancelMark, CancelTimer
  <2> QED
    BY <1>4, <2>1
<1>6. CASE \/ Python(r) \/ PyKilled(r)
           \/ Execute(r) \/ DialogAnswered(r) \/ StreamBreaks(r)
  <2>1. UNCHANGED <<starter, fwd>>
    BY <1>6 DEF Python, PyOpen, PyConnected, PyConnectFails, PySend, PyAsk, PyComplete, PyFail,
                PyFailAfterComplete, PyCancelSeen, PyExit, WireLost, PyKilled, Execute,
                ExecConnect, ExecReject, ExecRecvPayload, ExecRecvStatus, ExecRecvDialog,
                ExecLock, ExecDrop, ExecSend, ExecEnd, DialogAnswered, StreamBreaks
  <2> QED
    BY <1>4, <2>1
<1>7. CASE Waiter(r) \/ Forward(r)
  <2>1. UNCHANGED <<starter, fwd>>
    BY <1>7 DEF Waiter, WaiterReap, WaiterCheck, WaiterDrain, WaiterCancelled, WaiterError,
                WaiterStatus, WaiterReport, WaiterLock, WaiterPush, WaiterCapture,
                WaiterUnregister, WaiterClose, WaiterFinalize, WaiterUpdate, Forward
  <2> QED
    BY <1>4, <2>1
<1> QED
  BY <1>1, <1>2, <1>3, <1>5, <1>6, <1>7 DEF RunStep, Starter, Forwarder

\* A forwarded message that is not a status is told before the status, or after it
\* when the stream was not drained; a status is told once.
LEMMA ForwardTells ==
    ASSUME Inv, Inv', NEW r \in Run, Forward(r), starter[r] = "returned"
    PROVE  \/ /\ SaidOf(r) = "running" \/ (SaidOf(r) = "ended" /\ drain[r] # "eof")
              /\ SaidOf(r)' = SaidOf(r) /\ EmittedOf(r)' = EmittedOf(r) + 1
           \/ /\ SaidOf(r) = "running" /\ SaidOf(r)' = "ended"
              /\ EmittedOf(r)' = EmittedOf(r)
<1> DEFINE m == Head(messages[r])
<1>1. /\ ui[r] \in Seq(UiEvent) /\ messages[r] \in Seq(Payload \cup Terminal)
      /\ messages[r] # <<>> /\ starter'[r] = "returned"
      /\ m \in Payload \cup Terminal
  BY DEF Inv, TypeOK, Forward, startVars
<1>2. ui'[r] = Append(ui[r], Routed(r, m))
  <2>1. ui' = [ui EXCEPT ![r] = Append(@, Routed(r, m))]
    BY DEF Forward
  <2> QED
    BY <2>1 DEF Inv, TypeOK
<1>3. /\ Routed(r, m) \in UiEvent
      /\ m \notin Terminal => Routed(r, m) \notin Terminal
      /\ m \in Terminal => Routed(r, m) = m
  BY <1>1 DEF Routed, UiEvent, Payload, ErrorMsg, Terminal
<1> HIDE DEF m
<1>4. ui'[r] \in Seq(UiEvent) /\ Len(ui'[r]) = Len(ui[r]) + 1 /\ Len(ui[r]) \in Nat
  BY <1>1, <1>2, <1>3
<1>5. \/ NoStatus(ui[r])
      \/ /\ OneStatus(ui[r], final[r]) /\ final[r] \in Terminal
         /\ waiter[r] \in Told /\ NoStatus(messages[r])
  <2>1. waiter[r] \in Told => final[r] \in Terminal
    BY DEF Inv, Handed, Told, Decided
  <2> QED
    BY <2>1 DEF Inv, Sent
<1>6. CASE NoStatus(ui[r]) /\ m \notin Terminal
  <2>1. NoStatus(ui'[r])
    BY <1>1, <1>2, <1>3, <1>6, NoStatusAppend
  <2>2. StatusIn(ui[r]) = "none" /\ StatusIn(ui'[r]) = "none"
    BY <1>1, <1>4, <1>6, <2>1, StatusInNone
  <2> QED
    BY <1>1, <1>4, <2>2 DEF SaidOf, EmittedOf
<1>7. CASE NoStatus(ui[r]) /\ m \in Terminal
  <2>1. OneStatus(ui'[r], m)
    BY <1>1, <1>2, <1>3, <1>7, OneStatusPush
  <2>2. StatusIn(ui[r]) = "none" /\ StatusIn(ui'[r]) = m /\ m # "none"
    BY <1>1, <1>4, <1>7, <2>1, StatusInNone, StatusInOne DEF Terminal
  <2> QED
    BY <1>1, <1>4, <2>2 DEF SaidOf, EmittedOf
<1>8. CASE /\ OneStatus(ui[r], final[r]) /\ final[r] \in Terminal
           /\ waiter[r] \in Told /\ NoStatus(messages[r])
  <2>1. m \notin Terminal
    BY <1>1, <1>8, NoStatusTail DEF m
  <2>2. OneStatus(ui'[r], final[r])
    BY <1>1, <1>2, <1>3, <1>8, <2>1, OneStatusAppend
  <2>3. StatusIn(ui[r]) = final[r] /\ StatusIn(ui'[r]) = final[r] /\ final[r] # "none"
    BY <1>1, <1>4, <1>8, <2>2, StatusInOne DEF Terminal
  <2>4. drain[r] # "eof"
    <3>1. Len(messages[r]) \in 1..Len(messages[r])
      BY <1>1
    <3>2. messages[r][Len(messages[r])] # final[r]
      BY <1>8, <3>1 DEF NoStatus
    <3> QED
      BY <1>1, <1>8, <3>2 DEF Inv, SentLast
  <2> QED
    BY <1>1, <1>4, <2>3, <2>4 DEF SaidOf, EmittedOf
<1> QED
  BY <1>5, <1>6, <1>7, <1>8

\* Initial states map to initial states of RunEvents.
LEMMA EventsInit == Init => Events!Init
<1> SUFFICES ASSUME Init PROVE Events!Init
  OBVIOUS
<1>1. \A r \in Run : StatusIn(ui[r]) = "none" /\ Len(ui[r]) = 0
  <2>1. <<>> \in Seq(UiEvent) /\ NoStatus(<<>>)
    BY DEF NoStatus
  <2> QED
    BY <2>1, StatusInNone DEF Init
<1>2. Said = [r \in Run |-> "none"] /\ Drained = {} /\ Emitted = [r \in Run |-> 0]
  BY <1>1 DEF Init, Said, SaidOf, Drained, Emitted, EmittedOf
<1> QED
  BY <1>2 DEF Events!Init, Said, Drained, Emitted, EmittedOf

\* Every step of a run is a step of RunEvents or tells nothing.
LEMMA EventsStep ==
    ASSUME Inv, Inv', Following, NEW r \in Run, RunStep(r)
    PROVE  [Events!Next]_(Events!vars)
<1> USE DEF startVars, cancelVars, pyVars, netVars, execVars, flagVars,
            verdictVars, recordVars, fwdVars
<1>t. TypeOK /\ Placed(r) /\ Judged(r) /\ Sent(r) /\ ui[r] \in Seq(UiEvent)
  BY DEF Inv, TypeOK
<1>n. waiter[r] \notin Told => StatusIn(ui[r]) = "none"
  BY <1>t, StatusInNone DEF Sent
<1>s. ASSUME Said' = Said, Drained' = Drained, Emitted' = Emitted
      PROVE  [Events!Next]_(Events!vars)
  BY <1>s DEF Events!vars, Said, Drained, Emitted, EmittedOf
<1>q. ASSUME \A q \in Run : (starter'[q] = "returned") <=> (starter[q] = "returned"),
             UNCHANGED <<drain, ui>>
      PROVE  [Events!Next]_(Events!vars)
  <2>1. Said' = Said /\ Drained' = Drained /\ Emitted' = Emitted
    BY <1>q DEF Said, SaidOf, Drained, Emitted, EmittedOf
  <2> QED
    BY <1>s, <2>1
<1>1. CASE StartRegister(r) \/ StartSpawn(r) \/ StartSpawnFails(r) \/ StartActivate(r)
  <2>1. \A q \in Run : (starter'[q] = "returned") <=> (starter[q] = "returned")
    BY <1>1, <1>t DEF StartRegister, StartSpawn, StartSpawnFails, StartActivate, TypeOK
  <2>2. UNCHANGED <<drain, ui>>
    BY <1>1 DEF StartRegister, StartSpawn, StartSpawnFails, StartActivate
  <2> QED
    BY <1>q, <2>1, <2>2
<1>2. CASE StartLaunch(r)
  <2>1. /\ starter[r] # "returned" /\ starter'[r] = "returned" /\ waiter[r] = "none"
        /\ \A q \in Run \ {r} : starter'[q] = starter[q]
        /\ UNCHANGED <<drain, ui>>
    BY <1>2, <1>t DEF StartLaunch, Placed, TypeOK
  <2>2. StatusIn(ui[r]) = "none"
    BY <1>n, <2>1 DEF Told
  <2>3. /\ Said[r] = "none" /\ Said' = [Said EXCEPT ![r] = "running"]
        /\ Drained' = Drained /\ Emitted' = Emitted
    BY <2>1, <2>2 DEF Said, SaidOf, Drained, Emitted, EmittedOf
  <2>4. Events!Start(r)
    BY <2>3 DEF Events!Start, Said, Drained, Emitted, EmittedOf
  <2> QED
    BY <2>4 DEF Events!Next
<1>3. CASE WaiterCheck(r) \/ WaiterDrain(r)
  <2>1. /\ waiter[r] \in {"check", "drain"} /\ UNCHANGED <<starter, ui>>
        /\ \A q \in Run \ {r} : drain'[q] = drain[q]
    BY <1>3, <1>t DEF WaiterCheck, WaiterDrain, TypeOK
  <2>2. drain[r] = "none" /\ starter[r] = "returned" /\ StatusIn(ui[r]) = "none"
    BY <1>t, <1>n, <2>1 DEF Judged, Placed, Told
  <2>3. Said' = Said /\ Emitted' = Emitted /\ Said[r] = "running"
    BY <2>1, <2>2 DEF Said, SaidOf, Emitted, EmittedOf
  <2>4. CASE drain'[r] # "eof"
    <3>1. Drained' = Drained
      BY <2>1, <2>2, <2>4 DEF Drained
    <3> QED
      BY <1>s, <2>3, <3>1
  <2>5. CASE drain'[r] = "eof"
    <3>1. Drained' = Drained \cup {r}
      BY <2>1, <2>2, <2>5 DEF Drained
    <3>2. Events!Drain(r)
      BY <2>3, <3>1 DEF Events!Drain, Said, Drained, Emitted, EmittedOf
    <3> QED
      BY <3>2 DEF Events!Next
  <2> QED
    BY <2>4, <2>5
<1>4. CASE WaiterReport(r)
  <2>1. /\ waiter[r] = "report" /\ waiter'[r] = "lock" /\ UNCHANGED <<starter, drain>>
        /\ \A q \in Run \ {r} : ui'[q] = ui[q]
        /\ ui'[r] = ui[r] \/ ui'[r] = Append(ui[r], "crash")
    BY <1>4, <1>t DEF WaiterReport, TypeOK
  <2>0. waiter[r] \notin Told /\ waiter'[r] \notin Told
    BY <2>1 DEF Told
  <2>2. starter[r] = "returned" /\ StatusIn(ui[r]) = "none"
    BY <1>t, <1>n, <2>1, <2>0 DEF Placed
  <2>7. ui'[r] \in Seq(UiEvent) /\ NoStatus(ui'[r])
    BY <2>0 DEF Inv, TypeOK, Sent
  <2>3. StatusIn(ui'[r]) = "none"
    BY <2>7, StatusInNone
  <2>4. Said' = Said /\ Drained' = Drained /\ Said[r] = "running"
    BY <2>1, <2>2, <2>3 DEF Said, SaidOf, Drained
  <2>5. CASE ui'[r] = ui[r]
    <3>1. Emitted' = Emitted
      BY <2>1, <2>5 DEF Emitted, EmittedOf
    <3> QED
      BY <1>s, <2>4, <3>1
  <2>6. CASE ui'[r] = Append(ui[r], "crash")
    <3>1. EmittedOf(r)' = EmittedOf(r) + 1
      BY <1>t, <2>2, <2>3, <2>6, <2>7 DEF EmittedOf, UiEvent
    <3>2. Emitted' = [Emitted EXCEPT ![r] = @ + 1]
      BY <2>1, <3>1 DEF Emitted, EmittedOf
    <3>3. Events!Emit(r)
      BY <2>4, <3>2 DEF Events!Emit, Said, Drained, Emitted, EmittedOf
    <3> QED
      BY <3>3 DEF Events!Next
  <2> QED
    BY <2>1, <2>5, <2>6
<1>5. CASE Forward(r)
  <2>1. /\ starter[r] = "returned" /\ UNCHANGED <<starter, drain>>
        /\ \A q \in Run \ {r} : ui'[q] = ui[q]
    BY <1>5, <1>t DEF Forward, Following, TypeOK
  <2>2. /\ \A q \in Run \ {r} : SaidOf(q)' = SaidOf(q) /\ EmittedOf(q)' = EmittedOf(q)
        /\ Drained' = Drained
    BY <2>1 DEF SaidOf, EmittedOf, Drained
  <2>3. CASE /\ SaidOf(r) = "running" \/ (SaidOf(r) = "ended" /\ drain[r] # "eof")
             /\ SaidOf(r)' = SaidOf(r) /\ EmittedOf(r)' = EmittedOf(r) + 1
    <3>1. /\ Said' = Said /\ Emitted' = [Emitted EXCEPT ![r] = @ + 1]
          /\ Said[r] = "running" \/ (Said[r] = "ended" /\ r \notin Drained)
      BY <2>2, <2>3 DEF Said, Emitted, Drained
    <3>2. Events!Emit(r)
      BY <2>2, <3>1 DEF Events!Emit, Said, Drained, Emitted, EmittedOf
    <3> QED
      BY <3>2 DEF Events!Next
  <2>4. CASE /\ SaidOf(r) = "running" /\ SaidOf(r)' = "ended"
             /\ EmittedOf(r)' = EmittedOf(r)
    <3>1. /\ Said[r] = "running" /\ Said' = [Said EXCEPT ![r] = "ended"]
          /\ Emitted' = Emitted
      BY <2>2, <2>4 DEF Said, Emitted
    <3>2. Events!End(r)
      BY <2>2, <3>1 DEF Events!End, Said, Drained, Emitted, EmittedOf
    <3> QED
      BY <3>2 DEF Events!Next
  <2> QED
    BY <1>5, <2>1, <2>3, <2>4, ForwardTells
<1>6. CASE Sender(r) \/ Canceller(r) \/ CancelMark(r) \/ CancelTimer(r) \/ ForwardEnd(r)
  <2>1. UNCHANGED <<starter, drain, ui>>
    BY <1>6 DEF Sender, SenderConnected, SenderProcessDone, SenderTimeout, SenderSend,
                SenderSendFails, Canceller, CancelSend, CancelSendFails, CancelMark,
                CancelTimer, ForwardEnd
  <2> QED
    BY <1>q, <2>1
<1>7. CASE \/ Python(r) \/ PyKilled(r)
           \/ Execute(r) \/ DialogAnswered(r) \/ StreamBreaks(r)
  <2>1. UNCHANGED <<starter, drain, ui>>
    BY <1>7 DEF Python, PyOpen, PyConnected, PyConnectFails, PySend, PyAsk, PyComplete, PyFail,
                PyFailAfterComplete, PyCancelSeen, PyExit, WireLost, PyKilled, Execute,
                ExecConnect, ExecReject, ExecRecvPayload, ExecRecvStatus, ExecRecvDialog,
                ExecLock, ExecDrop, ExecSend, ExecEnd, DialogAnswered, StreamBreaks
  <2> QED
    BY <1>q, <2>1
<1>8. CASE \/ WaiterReap(r) \/ WaiterCancelled(r) \/ WaiterError(r) \/ WaiterStatus(r)
           \/ WaiterLock(r) \/ WaiterPush(r) \/ WaiterCapture(r) \/ WaiterUnregister(r)
           \/ WaiterClose(r) \/ WaiterFinalize(r) \/ WaiterUpdate(r)
  <2>1. UNCHANGED <<starter, drain, ui>>
    BY <1>8 DEF WaiterReap, WaiterCancelled, WaiterError, WaiterStatus, WaiterLock, WaiterPush,
                WaiterCapture, WaiterUnregister, WaiterClose, WaiterFinalize, WaiterUpdate
  <2> QED
    BY <1>q, <2>1
<1> QED
  BY <1>1, <1>2, <1>3, <1>4, <1>5, <1>6, <1>7, <1>8 DEF RunStep, Starter, Waiter, Forwarder

\* What the frontend hears of a run starts when StartRun has returned, holds one status
\* and nothing after it if the stream was drained, whatever goroutine it comes from:
\* the events of RunsView are those of RunLifecycle.
THEOREM EventsAreOrdered == Spec => EventsInOrder
<1>1. Init => Following
  BY DEF Init, Following
<1>2. Inv /\ Following /\ [Next]_vars => Following'
  <2> SUFFICES ASSUME Inv, Following, [Next]_vars PROVE Following'
    OBVIOUS
  <2>1. CASE \E r \in Run : RunStep(r)
    BY <2>1, FollowingStep DEF Inv
  <2>2. CASE AllReturned \/ UNCHANGED vars
    BY <2>2 DEF AllReturned, vars, startVars, fwdVars, Following
  <2> QED
    BY <2>1, <2>2 DEF Next
<1>3. Inv /\ Inv' /\ Following /\ [Next]_vars => [Events!Next]_(Events!vars)
  <2> SUFFICES ASSUME Inv, Inv', Following, [Next]_vars
               PROVE  [Events!Next]_(Events!vars)
    OBVIOUS
  <2>1. CASE \E r \in Run : RunStep(r)
    BY <2>1, EventsStep
  <2>2. CASE AllReturned \/ UNCHANGED vars
    <3>1. UNCHANGED <<starter, drain, ui>>
      BY <2>2 DEF AllReturned, vars, startVars, verdictVars, fwdVars
    <3> QED
      BY <3>1 DEF Events!vars, SaidOf
  <2> QED
    BY <2>1, <2>2 DEF Next
<1> QED
  BY <1>1, <1>2, <1>3, EventsInit, Invariance, PTL DEF Spec, EventsInOrder, Events!Spec

-----------------------------------------------------------------------------
(* What a script was told had arrived has arrived *)

\* The events that messages of the script become.
Forwarded == {"output", "pane", "toast", "logged"} \cup ErrorMsg

\* The message in the hands of Execute.
InHand(r) == IF exec[r] \in {"push", "sending"} THEN 1 ELSE 0

\* A stream that did not break ends only when the script has closed its side and all
\* of it is read.
Streamed(r) ==
    /\ py[r] \in {"none", "booting"} => exec[r] = "none"
    /\ exec[r] \notin {"none", "pending", "rejected"} => phase[r] \in {"connected", "done"}
    /\ exec[r] = "done" => py[r] \in Closed
    /\ exec[r] = "done" /\ py[r] \in {"completing", "failing"} => wire[r] = <<>>
    /\ acked[r] # "none" => ExecReturned(r) /\ py[r] = "exited"
    /\ acked[r] # "none" /\ exec[r] = "done" => wire[r] = <<>>

\* While the script is alive, and for good once its end was confirmed, every message
\* is in one of four places.  After fail() one more than the script counts is there.
Conserved(r) ==
    /\ py[r] \in {"none", "booting", "opened", "running", "completing", "failing"} =>
          Count(ui[r], Forwarded) + Count(messages[r], Forwarded) + InHand(r)
             + Count(wire[r], Payload)
          = sent[r] + (IF py[r] = "failing" THEN 1 ELSE 0)
    /\ acked[r] # "none" =>
          Count(ui[r], Forwarded) + Count(messages[r], Forwarded) + Count(wire[r], Payload)
          = sent[r] + (IF acked[r] = "failed" THEN 1 ELSE 0)

\* No status is on its way.
NoReport(q) == \A i \in 1..Len(q) : q[i] \notin StatusMsg

\* The stream broke ahead of the status of complete().
Unread(r) == exec[r] = "broken" /\ "status_completed" \in Range(wire[r])

\* What Python has said of its end, from complete() to the verdict.
Reported(r) ==
    /\ py[r] \in {"none", "booting", "opened", "running"} =>
          pythonStatus[r] = "none" /\ NoReport(wire[r])
    /\ py[r] = "completing" =>
          \/ pythonStatus[r] = "completed"
          \/ /\ pythonStatus[r] = "none"
             /\ wire[r] # <<>> /\ wire[r][Len(wire[r])] = "status_completed"
             /\ \A i \in 1..Len(wire[r]) : wire[r][i] \in StatusMsg => i = Len(wire[r])
    /\ acked[r] = "completed" => pythonStatus[r] = "completed" \/ Unread(r)
    /\ acked[r] = "completed" /\ exit[r] = "zero" /\ ~cancelRequested[r] /\ ~Unread(r) =>
          final[r] \in {"none", IF gotError[r] THEN "failed" ELSE "completed"}

Delivered == \A r \in Run : Streamed(r) /\ Conserved(r) /\ Reported(r)

\* Counting in a sequence gives a number; nothing is counted in an empty one.
LEMMA CountType ==
    ASSUME NEW T, NEW q \in Seq(T), NEW S
    PROVE  /\ IsFiniteSet({i \in DOMAIN q : q[i] \in S})
           /\ Count(q, S) \in Nat
           /\ q = <<>> => Count(q, S) = 0
<1>1. DOMAIN q = 1..Len(q) /\ Len(q) \in Nat
  OBVIOUS
<1>2. IsFiniteSet(DOMAIN q)
  BY <1>1, FS_Interval
<1>3. IsFiniteSet({i \in DOMAIN q : q[i] \in S})
  BY <1>2, FS_Subset
<1>4. q = <<>> => {i \in DOMAIN q : q[i] \in S} = {}
  BY <1>1
<1> QED
  BY <1>3, <1>4, FS_CardinalityType, FS_EmptySet DEF Count

\* What is counted in a joined sequence is counted in its parts.
LEMMA CountJoined ==
    ASSUME NEW T, NEW u \in Seq(T), NEW m \in Seq(T), NEW S
    PROVE  Count(u \o m, S) = Count(u, S) + Count(m, S)
<1> DEFINE A == {i \in DOMAIN u : u[i] \in S}
           B == {i \in DOMAIN m : m[i] \in S}
           C == {i \in DOMAIN (u \o m) : (u \o m)[i] \in S}
           f == [i \in B |-> i + Len(u)]
           D == {i + Len(u) : i \in B}
<1>1. /\ DOMAIN u = 1..Len(u) /\ Len(u) \in Nat
      /\ DOMAIN m = 1..Len(m) /\ Len(m) \in Nat
      /\ DOMAIN (u \o m) = 1..(Len(u) + Len(m))
      /\ \A i \in 1..(Len(u) + Len(m)) :
            (u \o m)[i] = IF i <= Len(u) THEN u[i] ELSE m[i - Len(u)]
  BY ConcatProperties
<1>2. f \in Bijection(B, D)
  <2>1. B \subseteq Nat
    BY <1>1
  <2>2. f \in [B -> D] /\ \A i, j \in B : f[i] = f[j] => i = j
    BY <1>1, <2>1
  <2>3. \A d \in D : \E i \in B : f[i] = d
    OBVIOUS
  <2> QED
    BY <2>2, <2>3 DEF Bijection, Injection, Surjection, IsInjective
<1>3. IsFiniteSet(A) /\ IsFiniteSet(B)
  BY CountType
<1>4. IsFiniteSet(D) /\ Cardinality(D) = Cardinality(B)
  <2>1. ExistsBijection(B, D)
    BY <1>2 DEF ExistsBijection
  <2> QED
    BY <1>3, <2>1, FS_Bijection
<1>5. C = A \cup D
  <2>1. \A i \in C : i \in A \cup D
    <3> SUFFICES ASSUME NEW i \in C, i > Len(u) PROVE i \in D
      BY <1>1
    <3>1. i - Len(u) \in B /\ i = (i - Len(u)) + Len(u)
      BY <1>1
    <3> QED
      BY <3>1
  <2>2. \A i \in A : i \in C
    BY <1>1
  <2>3. \A i \in B : i + Len(u) \in C
    BY <1>1
  <2> QED
    BY <2>1, <2>2, <2>3
<1>6. A \cap D = {}
  BY <1>1
<1>7. Cardinality(A) \in Nat /\ Cardinality(D) \in Nat /\ Cardinality({}) = 0
  BY <1>3, <1>4, FS_CardinalityType, FS_EmptySet
<1>8. Cardinality(C) = Cardinality(A) + Cardinality(D) - Cardinality(A \cap D)
  BY <1>3, <1>4, <1>5, FS_Union
<1>9. /\ Count(u \o m, S) = Cardinality(C)
      /\ Count(u, S) = Cardinality(A) /\ Count(m, S) = Cardinality(B)
  BY DEF Count
<1> HIDE DEF A, B, C, D
<1>10. Cardinality(A \cap D) = 0
  BY <1>6, <1>7
<1>11. Cardinality(C) = Cardinality(A) + Cardinality(D)
  BY <1>7, <1>8, <1>10
<1> QED
  BY <1>4, <1>9, <1>11

\* One message more, at either end.
LEMMA CountOne ==
    ASSUME NEW e, NEW S
    PROVE  Count(<<e>>, S) = IF e \in S THEN 1 ELSE 0
<1>1. DOMAIN <<e>> = {1} /\ <<e>>[1] = e
  OBVIOUS
<1>2. {i \in DOMAIN <<e>> : <<e>>[i] \in S} = IF e \in S THEN {1} ELSE {}
  BY <1>1
<1> QED
  BY <1>2, FS_EmptySet, FS_Singleton DEF Count

LEMMA CountAppend ==
    ASSUME NEW T, NEW q \in Seq(T), NEW e \in T, NEW S
    PROVE  Count(Append(q, e), S) = Count(q, S) + (IF e \in S THEN 1 ELSE 0)
<1>1. Append(q, e) = q \o <<e>> /\ <<e>> \in Seq(T)
  OBVIOUS
<1>2. Count(q \o <<e>>, S) = Count(q, S) + Count(<<e>>, S)
  BY <1>1, CountJoined
<1> QED
  BY <1>1, <1>2, CountOne

LEMMA CountTail ==
    ASSUME NEW T, NEW q \in Seq(T), q # <<>>, NEW S
    PROVE  Count(q, S) = (IF Head(q) \in S THEN 1 ELSE 0) + Count(Tail(q), S)
<1>1. /\ q = <<Head(q)>> \o Tail(q)
      /\ <<Head(q)>> \in Seq(T) /\ Tail(q) \in Seq(T)
  OBVIOUS
<1>2. Count(<<Head(q)>> \o Tail(q), S) = Count(<<Head(q)>>, S) + Count(Tail(q), S)
  BY <1>1, CountJoined
<1> QED
  BY <1>1, <1>2, CountOne

\* fail() adds one message that is forwarded.
LEMMA CountFailure ==
    ASSUME NEW q \in Seq(ClientMsg)
    PROVE  /\ Count(q \o <<"error", "status_failed">>, Payload) = Count(q, Payload) + 1
           /\ q \o <<"error", "status_failed">> \in Seq(ClientMsg)
<1>1. /\ "error" \in ClientMsg /\ "status_failed" \in ClientMsg
      /\ "error" \in Payload /\ "status_failed" \notin Payload
  BY DEF ClientMsg, Payload, ErrorMsg, StatusMsg
<1>2. /\ q \o <<"error", "status_failed">> = Append(Append(q, "error"), "status_failed")
      /\ Append(q, "error") \in Seq(ClientMsg)
      /\ q \o <<"error", "status_failed">> \in Seq(ClientMsg)
  BY <1>1
<1>3. Count(Append(q, "error"), Payload) = Count(q, Payload) + 1
  BY <1>1, CountAppend
<1>4. Count(Append(q, "error"), Payload) \in Nat
  BY <1>2, CountType
<1>5. Count(Append(Append(q, "error"), "status_failed"), Payload)
         = Count(Append(q, "error"), Payload)
  <2>1. PICK n \in Nat : n = Count(Append(q, "error"), Payload)
    BY <1>4
  <2>2. Count(Append(Append(q, "error"), "status_failed"), Payload) = n + 0
    BY <1>1, <1>2, <2>1, CountAppend
  <2> QED
    BY <2>1, <2>2
<1> QED
  BY <1>2, <1>3, <1>5, Zenon

\* Nothing that Delivered speaks of changes for r.
Untouched(r) ==
    /\ py'[r] = py[r] /\ exit'[r] = exit[r] /\ sent'[r] = sent[r] /\ acked'[r] = acked[r]
    /\ exec'[r] = exec[r] /\ phase'[r] = phase[r] /\ wire'[r] = wire[r]
    /\ messages'[r] = messages[r] /\ ui'[r] = ui[r] /\ final'[r] = final[r]
    /\ gotError'[r] = gotError[r] /\ pythonStatus'[r] = pythonStatus[r]
    /\ cancelRequested'[r] = cancelRequested[r]

\* A step of one run touches no other.
LEMMA Elsewhere ==
    ASSUME TypeOK, NEW r \in Run, RunStep(r), NEW q \in Run, q # r
    PROVE  Untouched(q)
<1> USE DEF startVars, cancelVars, pyVars, netVars, execVars, flagVars,
            verdictVars, recordVars, fwdVars, Untouched
<1>1. CASE Starter(r) \/ Sender(r)
  BY <1>1 DEF TypeOK, Starter, StartRegister, StartSpawn, StartSpawnFails, StartActivate,
     StartLaunch, Sender, SenderConnected, SenderProcessDone, SenderTimeout, SenderSend,
     SenderSendFails
<1>2. CASE Canceller(r) \/ CancelMark(r) \/ CancelTimer(r)
  BY <1>2 DEF TypeOK, Canceller, CancelSend, CancelSendFails, CancelMark, CancelTimer
<1>3. CASE Python(r) \/ PyKilled(r)
  <2>1. CASE PyOpen(r) \/ PyConnected(r) \/ PyConnectFails(r)
    BY <2>1 DEF TypeOK, PyOpen, PyConnected, PyConnectFails
  <2>2. CASE \/ \E m \in {"output", "warn"} : PySend(r, m)
             \/ PyAsk(r) \/ PyComplete(r) \/ PyFail(r) \/ PyFailAfterComplete(r)
    BY <2>2 DEF TypeOK, PySend, PyAsk, PyComplete, PyFail, PyFailAfterComplete
  <2>3. CASE PyCancelSeen(r) \/ PyExit(r) \/ WireLost(r) \/ PyKilled(r)
    BY <2>3 DEF TypeOK, PyCancelSeen, PyExit, WireLost, PyKilled
  <2> QED
    BY <1>3, <2>1, <2>2, <2>3 DEF Python
<1>4. CASE Execute(r) \/ DialogAnswered(r) \/ StreamBreaks(r)
  BY <1>4 DEF TypeOK, Execute, ExecConnect, ExecReject, ExecRecvPayload, ExecRecvStatus,
     ExecRecvDialog, ExecLock, ExecDrop, ExecSend, ExecEnd, DialogAnswered, StreamBreaks
<1>5. CASE Waiter(r)
  <2>1. CASE \/ WaiterReap(r) \/ WaiterCheck(r) \/ WaiterDrain(r) \/ WaiterCancelled(r)
             \/ WaiterError(r) \/ WaiterStatus(r) \/ WaiterReport(r)
    BY <2>1 DEF TypeOK, WaiterReap, WaiterCheck, WaiterDrain, WaiterCancelled, WaiterError,
       WaiterStatus, WaiterReport
  <2>2. CASE \/ WaiterLock(r) \/ WaiterPush(r) \/ WaiterCapture(r) \/ WaiterUnregister(r)
             \/ WaiterClose(r) \/ WaiterFinalize(r) \/ WaiterUpdate(r)
    BY <2>2 DEF TypeOK, WaiterLock, WaiterPush, WaiterCapture, WaiterUnregister, WaiterClose,
       WaiterFinalize, WaiterUpdate
  <2> QED
    BY <1>5, <2>1, <2>2 DEF Waiter
<1>6. CASE Forwarder(r)
  BY <1>6 DEF TypeOK, Forwarder, Forward, ForwardEnd
<1> QED
  BY <1>1, <1>2, <1>3, <1>4, <1>5, <1>6 DEF RunStep

\* A step that touches nothing of r keeps what is delivered.
LEMMA UntouchedKeeps ==
    ASSUME NEW r \in Run, Untouched(r), Streamed(r), Conserved(r), Reported(r)
    PROVE  Streamed(r)' /\ Conserved(r)' /\ Reported(r)'
<1> USE DEF Untouched
<1>1. Streamed(r)'
  BY DEF Streamed, ExecReturned
<1>2. Conserved(r)'
  BY DEF Conserved, InHand
<1>3. Reported(r)'
  BY DEF Reported, NoReport, Unread
<1> QED
  BY <1>1, <1>2, <1>3

\* The steps that touch nothing of their own run either.
Aside(r) ==
    \/ StartActivate(r) \/ StartLaunch(r) \/ Sender(r) \/ Canceller(r) \/ CancelTimer(r)
    \/ PyCancelSeen(r)
    \/ WaiterCheck(r) \/ WaiterDrain(r) \/ WaiterLock(r) \/ WaiterCapture(r)
    \/ WaiterUnregister(r) \/ WaiterFinalize(r) \/ WaiterUpdate(r) \/ ForwardEnd(r)

LEMMA AsideUntouched ==
    ASSUME NEW r \in Run, Aside(r)
    PROVE  Untouched(r)
BY DEF Aside, Untouched, StartActivate, StartLaunch, Sender, SenderConnected,
   SenderProcessDone, SenderTimeout, SenderSend, SenderSendFails, Canceller, CancelSend,
   CancelSendFails, CancelTimer, PyCancelSeen, WaiterCheck, WaiterDrain, WaiterLock,
   WaiterCapture, WaiterUnregister, WaiterFinalize, WaiterUpdate, ForwardEnd,
   startVars, cancelVars, pyVars, netVars, execVars, flagVars, verdictVars, recordVars, fwdVars

\* The end of the stream.
LEMMA StreamedStep ==
    ASSUME TypeOK, NEW r \in Run, Placed(r), Streamed(r), RunStep(r)
    PROVE  Streamed(r)'
<1> USE DEF startVars, cancelVars, pyVars, netVars, execVars, flagVars,
            verdictVars, recordVars, fwdVars, ExecReturned
<1>1. CASE UNCHANGED <<py, exec, phase, wire, acked>>
  BY <1>1 DEF Streamed
<1>2. CASE Aside(r)
  BY <1>2, AsideUntouched DEF Untouched, Streamed
<1>3. CASE \/ CancelMark(r) \/ WaiterReap(r) \/ WaiterCancelled(r) \/ WaiterError(r)
           \/ WaiterStatus(r) \/ WaiterReport(r) \/ WaiterPush(r) \/ Forward(r)
  <2>1. UNCHANGED <<py, exec, phase, wire, acked>>
    BY <1>3 DEF CancelMark, WaiterReap, WaiterCancelled, WaiterError, WaiterStatus,
       WaiterReport, WaiterPush, Forward
  <2> QED
    BY <1>1, <2>1
<1>4. CASE StartRegister(r) \/ StartSpawn(r) \/ StartSpawnFails(r)
  BY <1>4 DEF StartRegister, StartSpawn, StartSpawnFails, TypeOK, Placed, Streamed, Closed
<1>5. CASE PyOpen(r) \/ PyConnected(r) \/ PyConnectFails(r)
  BY <1>5 DEF PyOpen, PyConnected, PyConnectFails, TypeOK, Streamed, Closed
<1>6. CASE (\E m \in {"output", "warn"} : PySend(r, m)) \/ PyAsk(r) \/ PyComplete(r) \/ PyFail(r)
  BY <1>6 DEF PySend, PyAsk, PyComplete, PyFail, TypeOK, Streamed, Closed
<1>7. CASE PyFailAfterComplete(r) \/ PyExit(r) \/ PyKilled(r)
  BY <1>7 DEF PyFailAfterComplete, PyExit, PyKilled, TypeOK, Streamed, Closed, Alive
<1>8. CASE WireLost(r)
  BY <1>8 DEF WireLost, TypeOK, Streamed, Closed
<1>9. CASE ExecConnect(r) \/ ExecReject(r) \/ ExecLock(r) \/ ExecDrop(r) \/ ExecSend(r)
  BY <1>9 DEF ExecConnect, ExecReject, ExecLock, ExecDrop, ExecSend, TypeOK, Streamed
<1>10. CASE ExecRecvPayload(r) \/ ExecRecvStatus(r) \/ ExecRecvDialog(r)
  BY <1>10 DEF ExecRecvPayload, ExecRecvStatus, ExecRecvDialog, TypeOK, Streamed
<1>11. CASE ExecEnd(r)
  BY <1>11 DEF ExecEnd, StreamEnded, TypeOK, Streamed, Closed
<1>12. CASE WaiterClose(r)
  BY <1>12 DEF WaiterClose, TypeOK, Streamed
<1>13. CASE DialogAnswered(r) \/ StreamBreaks(r)
  BY <1>13 DEF DialogAnswered, StreamBreaks, TypeOK, Streamed
<1> QED
  BY <1>2, <1>3, <1>4, <1>5, <1>6, <1>7, <1>8, <1>9, <1>10, <1>11, <1>12, <1>13
     DEF RunStep, Starter, Python, Execute, Waiter, Forwarder, Aside

\* Counts are numbers.
LEMMA CountsAreNumbers ==
    ASSUME TypeOK, NEW r \in Run
    PROVE  /\ Count(ui[r], Forwarded) \in Nat /\ Count(messages[r], Forwarded) \in Nat
           /\ Count(wire[r], Payload) \in Nat /\ sent[r] \in Nat
<1>1. /\ ui[r] \in Seq(UiEvent) /\ messages[r] \in Seq(Payload \cup Terminal)
      /\ wire[r] \in Seq(ClientMsg) /\ sent[r] \in Nat
  BY DEF TypeOK
<1>2. Count(ui[r], Forwarded) \in Nat
  BY <1>1, CountType
<1>3. Count(messages[r], Forwarded) \in Nat
  BY <1>1, CountType
<1>4. Count(wire[r], Payload) \in Nat
  BY <1>1, CountType
<1> QED
  BY <1>1, <1>2, <1>3, <1>4

\* Every message is accounted for.
LEMMA ConservedStep ==
    ASSUME TypeOK, NEW r \in Run, Placed(r), Judged(r), Handed(r), Streamed(r), Conserved(r),
           RunStep(r)
    PROVE  Conserved(r)'
<1> USE DEF startVars, cancelVars, pyVars, netVars, execVars, flagVars,
            verdictVars, recordVars, fwdVars, ExecReturned
<1>t. /\ ui[r] \in Seq(UiEvent) /\ messages[r] \in Seq(Payload \cup Terminal)
      /\ wire[r] \in Seq(ClientMsg)
  BY DEF TypeOK
<1>n. /\ Count(ui[r], Forwarded) \in Nat /\ Count(messages[r], Forwarded) \in Nat
      /\ Count(wire[r], Payload) \in Nat /\ sent[r] \in Nat
  BY CountsAreNumbers
<1>1. CASE UNCHANGED <<py, exec, wire, acked, ui, messages, sent>>
  BY <1>1 DEF Conserved, InHand
<1>2. CASE Aside(r)
  BY <1>2, AsideUntouched DEF Untouched, Conserved, InHand
<1>3. CASE \/ StartRegister(r) \/ StartSpawnFails(r) \/ CancelMark(r) \/ WaiterReap(r)
           \/ WaiterCancelled(r) \/ WaiterError(r) \/ WaiterStatus(r) \/ WaiterClose(r)
  <2>1. UNCHANGED <<py, exec, wire, acked, ui, messages, sent>>
    BY <1>3 DEF StartRegister, StartSpawnFails, CancelMark, WaiterReap, WaiterCancelled,
       WaiterError, WaiterStatus, WaiterClose
  <2> QED
    BY <1>1, <2>1
<1>4. CASE StartSpawn(r) \/ PyOpen(r) \/ PyConnected(r)
  <2>1. /\ ui' = ui /\ messages' = messages /\ wire' = wire /\ sent' = sent /\ acked' = acked
        /\ InHand(r)' = InHand(r)
        /\ py[r] \in {"none", "booting", "opened"}
        /\ py'[r] \in {"booting", "opened", "running"}
    BY <1>4 DEF StartSpawn, PyOpen, PyConnected, TypeOK, Placed, Streamed, InHand
  <2> QED
    BY <2>1 DEF Conserved
<1>5. CASE PyConnectFails(r) \/ PyFail(r)
  <2>1. /\ ui' = ui /\ messages' = messages /\ sent' = sent /\ acked' = acked /\ exec' = exec
        /\ py[r] \in {"opened", "running"} /\ py'[r] = "failing"
        /\ wire'[r] = wire[r] \o <<"error", "status_failed">>
    BY <1>5 DEF PyConnectFails, PyFail, TypeOK
  <2>2. Count(wire'[r], Payload) = Count(wire[r], Payload) + 1
    BY <1>t, <2>1, CountFailure
  <2>3. acked[r] = "none" /\ InHand(r)' = InHand(r) /\ InHand(r) \in Nat
    BY <2>1 DEF Streamed, InHand, TypeOK
  <2> QED
    BY <1>n, <2>1, <2>2, <2>3 DEF Conserved
<1>6. ASSUME NEW m \in {"output", "warn"}, PySend(r, m) PROVE Conserved(r)'
  <2>1. /\ ui' = ui /\ messages' = messages /\ acked' = acked /\ exec' = exec
        /\ py[r] = "running" /\ py' = py
        /\ wire'[r] = Append(wire[r], m) /\ sent'[r] = sent[r] + 1
    BY <1>6 DEF PySend, TypeOK
  <2>2. Count(wire'[r], Payload) = Count(wire[r], Payload) + 1
    <3>1. m \in ClientMsg /\ m \in Payload
      BY DEF ClientMsg, Payload, ErrorMsg
    <3>2. Count(Append(wire[r], m), Payload)
             = Count(wire[r], Payload) + (IF m \in Payload THEN 1 ELSE 0)
      BY <1>t, <3>1, CountAppend
    <3> QED
      BY <2>1, <3>1, <3>2
  <2>3. acked[r] = "none" /\ InHand(r)' = InHand(r) /\ InHand(r) \in Nat
    BY <2>1 DEF Streamed, InHand, TypeOK
  <2> QED
    BY <1>n, <2>1, <2>2, <2>3 DEF Conserved
<1>7. CASE PyComplete(r)
  <2>1. /\ ui' = ui /\ messages' = messages /\ acked' = acked /\ exec' = exec /\ sent' = sent
        /\ py[r] = "running" /\ py'[r] = "completing"
        /\ wire'[r] = Append(wire[r], "status_completed")
    BY <1>7 DEF PyComplete, TypeOK
  <2>2. Count(wire'[r], Payload) = Count(wire[r], Payload)
    <3>1. "status_completed" \in ClientMsg /\ "status_completed" \notin Payload
      BY DEF ClientMsg, StatusMsg, Payload, ErrorMsg
    <3>2. Count(Append(wire[r], "status_completed"), Payload)
             = Count(wire[r], Payload) + (IF "status_completed" \in Payload THEN 1 ELSE 0)
      BY <1>t, <3>1, CountAppend
    <3> QED
      BY <1>n, <2>1, <3>1, <3>2
  <2>3. acked[r] = "none" /\ InHand(r)' = InHand(r) /\ InHand(r) \in Nat
    BY <2>1 DEF Streamed, InHand, TypeOK
  <2> QED
    BY <1>n, <2>1, <2>2, <2>3 DEF Conserved
<1>8. CASE PyFailAfterComplete(r)
  <2>1. py[r] = "completing" /\ py'[r] = "finished" /\ acked' = acked
    BY <1>8 DEF PyFailAfterComplete, TypeOK
  <2> QED
    BY <2>1 DEF Conserved, Streamed
<1>9. CASE PyExit(r)
  <2>1. /\ ui' = ui /\ messages' = messages /\ sent' = sent /\ wire' = wire /\ exec' = exec
        /\ py'[r] = "exited"
        /\ acked'[r] = "completed" => ExecReturned(r) /\ py[r] = "completing"
        /\ acked'[r] = "failed" => ExecReturned(r) /\ py[r] = "failing"
        /\ acked'[r] \in {"none", "completed", "failed"}
    BY <1>9 DEF PyExit, TypeOK
  <2>2. ExecReturned(r) => InHand(r) = 0
    BY DEF InHand
  <2> QED
    BY <1>n, <2>1, <2>2 DEF Conserved
<1>10. CASE PyKilled(r)
  <2>1. py[r] # "exited" /\ py'[r] = "exited" /\ acked' = acked
    BY <1>10 DEF PyKilled, TypeOK, Alive
  <2> QED
    BY <2>1 DEF Conserved, Streamed
<1>11. CASE WireLost(r)
  <2>1. py[r] = "exited" /\ ~ExecReturned(r) /\ UNCHANGED <<py, acked, sent, ui, messages>>
    BY <1>11 DEF WireLost
  <2>2. acked[r] = "none"
    BY <2>1 DEF Streamed
  <2> QED
    BY <2>1, <2>2 DEF Conserved
<1>12. CASE \/ ExecConnect(r) \/ ExecReject(r) \/ ExecLock(r) \/ ExecEnd(r)
            \/ DialogAnswered(r) \/ StreamBreaks(r)
  <2>1. UNCHANGED <<py, acked, sent, ui, messages, wire>> /\ InHand(r)' = InHand(r)
    BY <1>12 DEF ExecConnect, ExecReject, ExecLock, ExecEnd, DialogAnswered, StreamBreaks,
       InHand, TypeOK
  <2> QED
    BY <2>1 DEF Conserved
<1>13. CASE ExecRecvPayload(r) \/ ExecRecvStatus(r) \/ ExecRecvDialog(r)
  <2>1. /\ UNCHANGED <<py, acked, sent, ui, messages>>
        /\ exec[r] = "recv" /\ wire[r] # <<>> /\ wire'[r] = Tail(wire[r])
    BY <1>13 DEF ExecRecvPayload, ExecRecvStatus, ExecRecvDialog, TypeOK
  <2>2. InHand(r) = 0 /\ InHand(r)' = IF Head(wire[r]) \in Payload THEN 1 ELSE 0
    <3>1. CASE ExecRecvPayload(r)
      BY <3>1 DEF ExecRecvPayload, InHand, TypeOK
    <3>2. CASE ExecRecvStatus(r)
      BY <3>2 DEF ExecRecvStatus, InHand, TypeOK, StatusMsg, Payload, ErrorMsg
    <3>3. CASE ExecRecvDialog(r)
      BY <3>3 DEF ExecRecvDialog, InHand, TypeOK, Payload, ErrorMsg
    <3> QED
      BY <1>13, <3>1, <3>2, <3>3
  <2>3. Count(wire[r], Payload)
           = (IF Head(wire[r]) \in Payload THEN 1 ELSE 0) + Count(wire'[r], Payload)
    BY <1>t, <2>1, CountTail
  <2>4. Count(wire'[r], Payload) \in Nat
    <3>1. Tail(wire[r]) \in Seq(ClientMsg)
      BY <1>t, <2>1
    <3> QED
      BY <2>1, <3>1, CountType
  <2>5. acked[r] = "none"
    BY <2>1 DEF Streamed, TypeOK
  <2>6. InHand(r)' + Count(wire'[r], Payload) = InHand(r) + Count(wire[r], Payload)
    BY <2>2, <2>3, <2>4
  <2>7. InHand(r) \in Nat /\ InHand(r)' \in Nat
    BY DEF InHand
  <2> QED
    BY <1>n, <2>1, <2>4, <2>5, <2>6, <2>7 DEF Conserved
<1>14. CASE ExecDrop(r)
  <2>1. phase[r] = "done" /\ exec[r] = "push" /\ UNCHANGED <<py, acked>>
    BY <1>14 DEF ExecDrop, ChannelClosed
  <2>2. py[r] \in {"none", "exited"}
    BY <2>1 DEF Placed, Judged
  <2>3. py[r] = "exited" /\ acked[r] = "none"
    BY <2>1, <2>2 DEF Placed, Streamed
  <2> QED
    BY <2>1, <2>3 DEF Conserved
<1>15. CASE ExecSend(r)
  <2>1. /\ UNCHANGED <<py, acked, sent, ui, wire>> /\ exec[r] = "sending"
        /\ InHand(r) = 1 /\ InHand(r)' = 0
        /\ messages'[r] = Append(messages[r], execMsg[r])
    BY <1>15 DEF ExecSend, InHand, TypeOK
  <2>2. execMsg[r] \in Payload /\ execMsg[r] \in Forwarded
    BY <2>1 DEF Handed, Payload, Forwarded
  <2>3. Count(messages'[r], Forwarded) = Count(messages[r], Forwarded) + 1
    <3>1. Count(Append(messages[r], execMsg[r]), Forwarded)
             = Count(messages[r], Forwarded) + (IF execMsg[r] \in Forwarded THEN 1 ELSE 0)
      BY <1>t, <2>2, CountAppend
    <3> QED
      BY <2>1, <2>2, <3>1
  <2>4. acked[r] = "none"
    BY <2>1 DEF Streamed
  <2> QED
    BY <1>n, <2>1, <2>3, <2>4 DEF Conserved
<1>16. CASE WaiterReport(r)
  <2>1. UNCHANGED <<py, acked, sent, messages, wire, exec>>
    BY <1>16 DEF WaiterReport
  <2>2. ui'[r] = ui[r] \/ ui'[r] = Append(ui[r], "crash")
    BY <1>16 DEF WaiterReport, TypeOK
  <2>3. Count(ui'[r], Forwarded) = Count(ui[r], Forwarded)
    <3>1. "crash" \in UiEvent /\ "crash" \notin Forwarded
      BY DEF UiEvent, Forwarded, ErrorMsg
    <3>2. Count(Append(ui[r], "crash"), Forwarded)
             = Count(ui[r], Forwarded) + (IF "crash" \in Forwarded THEN 1 ELSE 0)
      BY <1>t, <3>1, CountAppend
    <3>3. Count(Append(ui[r], "crash"), Forwarded) = Count(ui[r], Forwarded)
      BY <1>n, <3>1, <3>2
    <3> QED
      BY <2>2, <3>3
  <2> QED
    BY <2>1, <2>3 DEF Conserved, InHand
<1>17. CASE WaiterPush(r)
  <2>1. /\ UNCHANGED <<py, acked, sent, ui, wire, exec>> /\ final[r] \in Terminal
        /\ messages'[r] = Append(messages[r], final[r])
    BY <1>17 DEF WaiterPush, TypeOK, Handed, Decided
  <2>2. Count(messages'[r], Forwarded) = Count(messages[r], Forwarded)
    <3>1. final[r] \in Payload \cup Terminal /\ final[r] \notin Forwarded
      BY <2>1 DEF Terminal, Forwarded, ErrorMsg
    <3>2. Count(Append(messages[r], final[r]), Forwarded)
             = Count(messages[r], Forwarded) + (IF final[r] \in Forwarded THEN 1 ELSE 0)
      BY <1>t, <3>1, CountAppend
    <3> QED
      BY <1>n, <2>1, <3>1, <3>2
  <2> QED
    BY <2>1, <2>2 DEF Conserved, InHand
<1>18. CASE Forward(r)
  <2>1. PICK h, e : h = Head(messages[r]) /\ e = Routed(r, h)
    OBVIOUS
  <2>2. /\ UNCHANGED <<py, acked, sent, wire, exec>> /\ messages[r] # <<>>
        /\ ui'[r] = Append(ui[r], e) /\ messages'[r] = Tail(messages[r])
    BY <1>18, <2>1 DEF Forward, TypeOK
  <2>3. h \in Payload \cup Terminal
    BY <1>t, <2>1, <2>2
  <2>4. e \in UiEvent /\ (h \in Forwarded <=> e \in Forwarded)
    BY <2>1, <2>3 DEF Routed, Payload, Terminal, ErrorMsg, Forwarded, UiEvent
  <2>5. Count(ui'[r], Forwarded) = Count(ui[r], Forwarded) + (IF e \in Forwarded THEN 1 ELSE 0)
    BY <1>t, <2>2, <2>4, CountAppend
  <2>6. Count(messages[r], Forwarded)
           = (IF h \in Forwarded THEN 1 ELSE 0) + Count(messages'[r], Forwarded)
    BY <1>t, <2>1, <2>2, CountTail
  <2>7. Count(messages'[r], Forwarded) \in Nat
    <3>1. Tail(messages[r]) \in Seq(Payload \cup Terminal)
      BY <1>t, <2>2
    <3> QED
      BY <2>2, <3>1, CountType
  <2>8. Count(ui'[r], Forwarded) + Count(messages'[r], Forwarded)
           = Count(ui[r], Forwarded) + Count(messages[r], Forwarded)
    BY <1>n, <2>4, <2>5, <2>6, <2>7
  <2> QED
    BY <2>2, <2>8 DEF Conserved, InHand
<1>19. CASE PyAsk(r)
  <2>1. /\ UNCHANGED <<ui, messages, acked, exec, sent, py>> /\ py[r] = "running"
        /\ wire'[r] = Append(wire[r], "dialog")
    BY <1>19 DEF PyAsk, TypeOK
  <2>2. Count(wire'[r], Payload) = Count(wire[r], Payload)
    <3>1. "dialog" \in ClientMsg /\ "dialog" \notin Payload
      BY DEF ClientMsg, Payload, ErrorMsg
    <3>2. Count(Append(wire[r], "dialog"), Payload)
             = Count(wire[r], Payload) + (IF "dialog" \in Payload THEN 1 ELSE 0)
      BY <1>t, <3>1, CountAppend
    <3> QED
      BY <1>n, <2>1, <3>1, <3>2
  <2>3. InHand(r)' = InHand(r)
    BY <2>1 DEF InHand
  <2> QED
    BY <2>1, <2>2, <2>3 DEF Conserved
<1> QED
  BY <1>2, <1>3, <1>4, <1>5, <1>6, <1>7, <1>8, <1>9, <1>10, <1>11, <1>12, <1>13, <1>14, <1>15,
     <1>16, <1>17, <1>18, <1>19 DEF RunStep, Starter, Python, Execute, Waiter, Forwarder, Aside

\* No report in what is left of a stream, or is added to it.
LEMMA NoReportAppend ==
    ASSUME NEW q \in Seq(ClientMsg), NoReport(q), NEW m \in ClientMsg \ StatusMsg
    PROVE  NoReport(Append(q, m))
BY DEF NoReport

LEMMA NoReportTail ==
    ASSUME NEW q \in Seq(ClientMsg), q # <<>>, NoReport(q)
    PROVE  NoReport(Tail(q)) /\ Head(q) \notin StatusMsg
BY DEF NoReport

\* The status of complete() is the first one Execute finds.
LEMMA ReportedStep ==
    ASSUME TypeOK, NEW r \in Run, Placed(r), Judged(r), Streamed(r), Reported(r), RunStep(r)
    PROVE  Reported(r)'
<1> USE DEF startVars, cancelVars, pyVars, netVars, execVars, flagVars,
            verdictVars, recordVars, fwdVars, ExecReturned
<1>t. wire[r] \in Seq(ClientMsg)
  BY DEF TypeOK
<1>1. CASE UNCHANGED <<py, exec, wire, acked, pythonStatus, exit, gotError, cancelRequested, final>>
  BY <1>1 DEF Reported, NoReport, Unread
<1>2. CASE Aside(r)
  BY <1>2, AsideUntouched DEF Untouched, Reported, NoReport, Unread
<1>3. CASE \/ StartRegister(r) \/ StartSpawnFails(r) \/ WaiterReport(r) \/ WaiterPush(r)
           \/ WaiterClose(r) \/ Forward(r)
  <2>1. UNCHANGED <<py, exec, wire, acked, pythonStatus, exit, gotError, cancelRequested, final>>
    BY <1>3 DEF StartRegister, StartSpawnFails, WaiterReport, WaiterPush, WaiterClose, Forward
  <2> QED
    BY <1>1, <2>1
<1>4. CASE CancelMark(r)
  <2>1. /\ UNCHANGED <<py, exec, wire, acked, pythonStatus, exit, gotError, final>>
        /\ cancelRequested'[r]
    BY <1>4 DEF CancelMark, TypeOK
  <2> QED
    BY <2>1 DEF Reported, NoReport, Unread
<1>5. CASE StartSpawn(r) \/ PyOpen(r) \/ PyConnected(r)
  <2>1. /\ UNCHANGED <<wire, acked, pythonStatus, exit, gotError, cancelRequested, final>>
        /\ py[r] \in {"none", "booting", "opened"}
        /\ py'[r] \in {"booting", "opened", "running"}
    BY <1>5 DEF StartSpawn, PyOpen, PyConnected, TypeOK, Placed
  <2>2. acked[r] = "none"
    BY <2>1 DEF Streamed
  <2> QED
    BY <2>1, <2>2 DEF Reported, NoReport
<1>6. CASE PyConnectFails(r) \/ PyFail(r) \/ PyFailAfterComplete(r)
  <2>1. /\ UNCHANGED <<acked, pythonStatus, exit, gotError, cancelRequested, final>>
        /\ py[r] # "exited" /\ py'[r] \in {"failing", "finished"}
    BY <1>6 DEF PyConnectFails, PyFail, PyFailAfterComplete, TypeOK
  <2> QED
    BY <2>1 DEF Reported, Streamed
<1>7. ASSUME \/ \E m \in {"output", "warn"} : PySend(r, m)
             \/ PyAsk(r)
      PROVE  Reported(r)'
  <2>1. /\ UNCHANGED <<py, acked, pythonStatus, exit, gotError, cancelRequested, final>>
        /\ py[r] = "running"
        /\ \E m \in {"output", "warn", "dialog"} : wire'[r] = Append(wire[r], m)
    BY <1>7 DEF PySend, PyAsk, TypeOK
  <2>2. \A m \in {"output", "warn", "dialog"} : m \in ClientMsg \ StatusMsg
    BY DEF ClientMsg, StatusMsg, Payload, ErrorMsg
  <2>3. NoReport(wire[r]) /\ acked[r] = "none"
    BY <2>1 DEF Reported, Streamed
  <2>4. NoReport(wire'[r])
    BY <1>t, <2>1, <2>2, <2>3, NoReportAppend
  <2> QED
    BY <2>1, <2>3, <2>4 DEF Reported, NoReport
<1>8. CASE PyComplete(r)
  <2>1. /\ UNCHANGED <<acked, pythonStatus, exit, gotError, cancelRequested, final>>
        /\ py[r] = "running" /\ py'[r] = "completing"
        /\ wire'[r] = Append(wire[r], "status_completed")
    BY <1>8 DEF PyComplete, TypeOK
  <2>2. pythonStatus[r] = "none" /\ NoReport(wire[r]) /\ acked[r] = "none"
    BY <2>1 DEF Reported, Streamed
  <2>3. /\ wire'[r] # <<>> /\ wire'[r][Len(wire'[r])] = "status_completed"
        /\ \A i \in 1..Len(wire'[r]) : wire'[r][i] \in StatusMsg => i = Len(wire'[r])
    BY <1>t, <2>1, <2>2 DEF NoReport
  <2> QED
    BY <2>1, <2>2, <2>3 DEF Reported
<1>9. CASE PyExit(r)
  <2>1. /\ UNCHANGED <<exec, wire, pythonStatus, gotError, cancelRequested, final>>
        /\ py[r] # "exited" /\ py'[r] = "exited"
        /\ acked'[r] = "completed" => ExecReturned(r) /\ py[r] = "completing"
    BY <1>9 DEF PyExit, TypeOK, Alive
  <2>2. ASSUME acked'[r] = "completed", pythonStatus[r] # "completed" PROVE Unread(r)
    <3>1. wire[r] # <<>> /\ wire[r][Len(wire[r])] = "status_completed"
      BY <2>1, <2>2 DEF Reported
    <3>2. exec[r] = "broken"
      BY <2>1, <2>2, <3>1 DEF Streamed
    <3>3. Len(wire[r]) \in DOMAIN wire[r]
      BY <1>t, <3>1
    <3> QED
      BY <3>1, <3>2, <3>3 DEF Unread, Range
  <2>3. final[r] = "none" /\ Unread(r)' = Unread(r)
    BY <2>1 DEF Judged, Decided, Unread
  <2> QED
    BY <2>1, <2>2, <2>3 DEF Reported
<1>10. CASE PyKilled(r)
  <2>1. UNCHANGED acked /\ py[r] # "exited" /\ py'[r] = "exited"
    BY <1>10 DEF PyKilled, TypeOK, Alive
  <2> QED
    BY <2>1 DEF Reported, Streamed
<1>11. CASE WireLost(r)
  <2>1. /\ UNCHANGED <<py, acked, pythonStatus, exit, gotError, cancelRequested, final>>
        /\ py[r] = "exited" /\ ~ExecReturned(r)
    BY <1>11 DEF WireLost
  <2>2. acked[r] = "none"
    BY <2>1 DEF Streamed
  <2> QED
    BY <2>1, <2>2 DEF Reported
<1>12. CASE ExecRecvPayload(r) \/ ExecRecvStatus(r) \/ ExecRecvDialog(r)
  <2>1. /\ UNCHANGED <<py, acked, exit, cancelRequested, final>>
        /\ exec[r] = "recv" /\ wire[r] # <<>> /\ wire'[r] = Tail(wire[r])
    BY <1>12 DEF ExecRecvPayload, ExecRecvStatus, ExecRecvDialog, TypeOK
  <2>2. acked[r] = "none"
    BY <2>1 DEF Streamed, TypeOK
  <2>3. CASE py[r] \in {"none", "booting", "opened", "running"}
    <3>1. NoReport(wire'[r]) /\ Head(wire[r]) \notin StatusMsg /\ pythonStatus[r] = "none"
      BY <1>t, <2>1, <2>3, NoReportTail DEF Reported
    <3>2. pythonStatus'[r] = "none"
      BY <1>12, <3>1 DEF ExecRecvPayload, ExecRecvStatus, ExecRecvDialog
    <3> QED
      BY <2>1, <2>2, <2>3, <3>1, <3>2 DEF Reported, NoReport
  <2>4. CASE py[r] = "completing"
    <3>1. CASE pythonStatus[r] = "completed"
      <4>1. pythonStatus'[r] = "completed"
        BY <1>12, <3>1 DEF ExecRecvPayload, ExecRecvStatus, ExecRecvDialog, TypeOK
      <4> QED
        BY <2>1, <2>2, <2>4, <4>1 DEF Reported
    <3>2. CASE pythonStatus[r] # "completed"
      <4>1. /\ pythonStatus[r] = "none" /\ wire[r][Len(wire[r])] = "status_completed"
            /\ \A i \in 1..Len(wire[r]) : wire[r][i] \in StatusMsg => i = Len(wire[r])
        BY <2>4, <3>2 DEF Reported
      <4>2. /\ Len(wire[r]) \in Nat /\ Len(wire[r]) > 0 /\ Head(wire[r]) = wire[r][1]
            /\ Tail(wire[r]) \in Seq(ClientMsg) /\ Len(Tail(wire[r])) = Len(wire[r]) - 1
            /\ \A i \in 1..Len(Tail(wire[r])) : Tail(wire[r])[i] = wire[r][i + 1]
        BY <1>t, <2>1, HeadTailProperties, EmptySeq
      <4>3. CASE ExecRecvPayload(r) \/ ExecRecvDialog(r)
        <5>1. Head(wire[r]) # "status_completed" /\ pythonStatus' = pythonStatus
          BY <4>3 DEF ExecRecvPayload, ExecRecvDialog, Payload, ErrorMsg
        <5>2. Len(wire[r]) # 1
          BY <4>1, <4>2, <5>1
        <5>3. /\ wire'[r] # <<>> /\ wire'[r][Len(wire'[r])] = "status_completed"
              /\ \A i \in 1..Len(wire'[r]) : wire'[r][i] \in StatusMsg => i = Len(wire'[r])
          <6>1. PICK n \in Nat, q \in Seq(ClientMsg) : n = Len(wire[r]) /\ q = Tail(wire[r])
            BY <4>2
          <6>2. q \in Seq(ClientMsg) /\ Len(q) = n - 1
            BY <4>2, <6>1, Zenon
          <6>n. n \in Nat /\ n > 0 /\ n # 1
            BY <4>2, <5>2, <6>1, Zenon
          <6>3. n > 1 /\ Len(q) = n - 1 /\ n - 1 \in 1..(n - 1) /\ (n - 1) + 1 = n
            <7>1. n > 1 /\ n - 1 \in 1..(n - 1) /\ (n - 1) + 1 = n
              BY <6>n
            <7> QED
              BY <6>2, <7>1, Zenon
          <6>4. \A i \in 1..(n - 1) : q[i] = wire[r][i + 1]
            BY <4>2, <6>1, <6>3
          <6>5. q # <<>>
            BY <6>2, <6>3
          <6>6. q[n - 1] = wire[r][n]
            BY <6>3, <6>4
          <6>7. q[n - 1] = "status_completed"
            BY <4>1, <6>1, <6>6
          <6>8. \A i \in 1..(n - 1) : q[i] \in StatusMsg => i = n - 1
            BY <4>1, <6>1, <6>3, <6>4
          <6> QED
            BY <2>1, <6>1, <6>3, <6>5, <6>7, <6>8
        <5> QED
          BY <2>1, <2>2, <2>4, <4>1, <5>1, <5>3 DEF Reported
      <4>4. CASE ExecRecvStatus(r)
        <5>1. Head(wire[r]) \in StatusMsg
          BY <4>4 DEF ExecRecvStatus
        <5>2. Head(wire[r]) = "status_completed"
          BY <4>1, <4>2, <5>1
        <5>3. pythonStatus'[r] = "completed"
          BY <4>1, <4>4, <5>2 DEF ExecRecvStatus, TypeOK
        <5> QED
          BY <2>1, <2>2, <2>4, <5>3 DEF Reported
      <4> QED
        BY <1>12, <4>3, <4>4
    <3> QED
      BY <3>1, <3>2
  <2> QED
    BY <2>1, <2>2, <2>3, <2>4 DEF Reported
<1>13. CASE WaiterReap(r)
  <2>1. /\ UNCHANGED <<py, exec, wire, acked, pythonStatus, gotError, cancelRequested, final>>
        /\ waiter[r] = "wait"
    BY <1>13 DEF WaiterReap
  <2>2. final[r] = "none"
    BY <2>1 DEF Judged, Decided
  <2> QED
    BY <2>1, <2>2 DEF Reported, NoReport, Unread
<1>14. CASE WaiterCancelled(r) \/ WaiterError(r) \/ WaiterStatus(r)
  <2>1. UNCHANGED <<py, exec, wire, acked, pythonStatus, exit, gotError, cancelRequested>>
    BY <1>14 DEF WaiterCancelled, WaiterError, WaiterStatus
  <2>2. ASSUME acked[r] = "completed", exit[r] = "zero", ~cancelRequested[r], ~Unread(r)
        PROVE  final'[r] \in {"none", IF gotError[r] THEN "failed" ELSE "completed"}
    <3>1. /\ pythonStatus[r] = "completed"
          /\ ExecReturned(r) /\ py[r] = "exited"
      BY <2>2 DEF Reported, Streamed
    <3>2. CASE WaiterCancelled(r)
      BY <2>2, <3>2 DEF WaiterCancelled, WasCancelled, TypeOK
    <3>3. waiter[r] \in {"error", "status"} => Registered(r) /\ final[r] = "none"
      BY <3>1 DEF Streamed, Placed, Registered, Judged, Decided
    <3>4. CASE WaiterError(r)
      <4>1. GotError(r) = gotError[r] /\ final[r] = "none"
        BY <3>3, <3>4 DEF WaiterError, GotError, TypeOK
      <4> QED
        BY <3>4, <4>1 DEF WaiterError, TypeOK
    <3>5. CASE WaiterStatus(r)
      <4>1. Registered(r) /\ ~gotError[r]
        BY <2>2, <3>3, <3>5 DEF WaiterStatus, Judged
      <4> QED
        BY <3>1, <3>5, <4>1 DEF WaiterStatus, PythonReportedStatus, StatusVerdict, TypeOK
    <3> QED
      BY <1>14, <3>2, <3>4, <3>5
  <2>3. Unread(r)' = Unread(r)
    BY <2>1 DEF Unread
  <2> QED
    BY <2>1, <2>2, <2>3 DEF Reported, NoReport
<1>15. CASE \/ ExecConnect(r) \/ ExecReject(r) \/ ExecLock(r) \/ ExecDrop(r) \/ ExecSend(r)
            \/ ExecEnd(r) \/ DialogAnswered(r) \/ StreamBreaks(r)
  <2>1. /\ UNCHANGED <<py, wire, acked, pythonStatus, exit, gotError, cancelRequested, final>>
        /\ ~ExecReturned(r)
    BY <1>15 DEF ExecConnect, ExecReject, ExecLock, ExecDrop, ExecSend, ExecEnd,
       DialogAnswered, StreamBreaks
  <2>2. acked[r] = "none"
    BY <2>1 DEF Streamed
  <2> QED
    BY <2>1, <2>2 DEF Reported, NoReport
<1> QED
  BY <1>2, <1>3, <1>4, <1>5, <1>6, <1>7, <1>8, <1>9, <1>10, <1>11, <1>12, <1>13, <1>14, <1>15
     DEF RunStep, Starter, Python, Execute, Waiter, Forwarder, Aside

-----------------------------------------------------------------------------
\* All that was confirmed has arrived, in every reachable state.
LEMMA DeliveredInit == Init => Delivered
<1> SUFFICES ASSUME Init, NEW r \in Run PROVE Streamed(r) /\ Conserved(r) /\ Reported(r)
  BY DEF Delivered
<1>1. Streamed(r)
  BY DEF Init, Streamed, Closed
<1>2. Conserved(r)
  <2>1. <<>> \in Seq(UiEvent)
    OBVIOUS
  <2>2. \A S : Count(<<>>, S) = 0
    BY <2>1, CountType
  <2> QED
    BY <2>2 DEF Init, Conserved, InHand
<1>3. Reported(r)
  BY DEF Init, Reported, NoReport
<1> QED
  BY <1>1, <1>2, <1>3

LEMMA DeliveredNext == Inv /\ Delivered /\ [Next]_vars => Delivered'
<1> SUFFICES ASSUME Inv, Delivered, [Next]_vars, NEW q \in Run
             PROVE  Streamed(q)' /\ Conserved(q)' /\ Reported(q)'
  BY DEF Delivered
<1>t. /\ TypeOK /\ Placed(q) /\ Judged(q) /\ Handed(q)
      /\ Streamed(q) /\ Conserved(q) /\ Reported(q)
  BY DEF Inv, Delivered
<1>1. CASE UNCHANGED vars
  <2>1. Untouched(q)
    BY <1>1 DEF Untouched, vars, startVars, cancelVars, pyVars, netVars, execVars, flagVars,
       verdictVars, recordVars, fwdVars
  <2> QED
    BY <1>t, <2>1, UntouchedKeeps
<1>2. ASSUME NEW r \in Run, RunStep(r)
      PROVE  Streamed(q)' /\ Conserved(q)' /\ Reported(q)'
  <2>1. CASE q = r
    BY <1>t, <1>2, <2>1, StreamedStep, ConservedStep, ReportedStep
  <2>2. CASE q # r
    BY <1>t, <1>2, <2>2, Elsewhere, UntouchedKeeps
  <2> QED
    BY <2>1, <2>2
<1> QED
  BY <1>1, <1>2 DEF Next, AllReturned

LEMMA Delivery == Spec => []Delivered
BY DeliveredInit, DeliveredNext, Invariance, PTL DEF Spec

\* Once complete() or fail() saw the end of the stream, every output, progress, warning
\* and error of the script was forwarded or waits in the channel, exactly once, or lies
\* unread on a stream that broke: however full the channel was and whatever waitForExit
\* did meanwhile, nothing else loses a message.
THEOREM ConfirmedIsForwarded == Spec => []NothingLost
<1>1. ASSUME Inv, Delivered PROVE NothingLost
  <2> SUFFICES ASSUME NEW r \in Run, acked[r] # "none"
               PROVE  /\ Count(Outbox(r), Forwarded) + Count(wire[r], Payload)
                           = sent[r] + (IF acked[r] = "failed" THEN 1 ELSE 0)
                      /\ exec[r] # "broken" => wire[r] = <<>>
    BY DEF NothingLost, Forwarded
  <2> DEFINE S == UiEvent \cup Payload \cup Terminal
  <2>1. ui[r] \in Seq(S) /\ messages[r] \in Seq(S)
    BY <1>1 DEF Inv, TypeOK
  <2> HIDE DEF S
  <2>2. Count(Outbox(r), Forwarded) = Count(ui[r], Forwarded) + Count(messages[r], Forwarded)
    BY <2>1, CountJoined DEF Outbox
  <2>3. Streamed(r) /\ Conserved(r)
    BY <1>1 DEF Delivered
  <2>4. exec[r] # "broken" => wire[r] = <<>>
    BY <2>3 DEF Streamed, ExecReturned
  <2> QED
    BY <2>2, <2>3, <2>4 DEF Conserved
<1> QED
  BY <1>1, Invariance, Delivery, PTL

\* A confirmed success that was not cancelled and whose status Execute did read is
\* recorded as one, or as a failure if so much as a warning came with it:
\* deriveFinalStatus finds Python's report however its reads fall.
THEOREM ConfirmedIsRecorded == Spec => []CleanCompletion
<1>1. ASSUME Inv, Delivered PROVE CleanCompletion
  <2> SUFFICES ASSUME NEW r \in Run, acked[r] = "completed", exit[r] = "zero",
                      ~cancelRequested[r], ~Unread(r), history[r] # "none"
               PROVE  history[r] = IF gotError[r] THEN "failed" ELSE "completed"
    BY DEF CleanCompletion, Unread
  <2>1. history[r] = final[r] /\ final[r] # "none"
    BY <1>1 DEF Inv, Judged
  <2> QED
    BY <1>1, <2>1 DEF Delivered, Reported
<1> QED
  BY <1>1, Invariance, Delivery, PTL
=============================================================================
