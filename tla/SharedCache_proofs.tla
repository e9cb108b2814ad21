------------------------- MODULE SharedCache_proofs -------------------------
(***************************************************************************)
(* Theorems about SharedCache, for any runs, any keys and any number of     *)
(* calls.                                                                  *)
(***************************************************************************)
EXTENDS SharedCache, SequenceTheorems, TLAPS

Gone(r)    == py[r] \in {"exited", "killed"}
Replied(r) == py[r] = "waiting" /\ reply[r] # NoReply
Making(r)  == py[r] = "waiting" /\ call[r].op = "create"

\* The order of a stream: only the last request can be one that waits for an answer,
\* and it is the call the script is in.
Ordered(r) ==
    /\ \A i \in 1..Len(wire[r]) :
          wire[r][i].op # "release" =>
             i = Len(wire[r]) /\ wire[r][i] = call[r] /\ py[r] # "running"
    /\ py[r] = "running" => reply[r] = NoReply
    /\ py[r] = "waiting" => call[r] \in Request /\ call[r].op \in {"create", "lookup"}
    /\ Replied(r) => reply[r] \in Reply /\ wire[r] = <<>>

\* What the end of the process, of Execute and of waitForExit say of each other.
Over(r) ==
    /\ Gone(r) => owned[r] = {} /\ \A k \in Key : handle[r][k] = NoSegment
    /\ exec[r] = "done" => Gone(r) /\ wire[r] = <<>>
    /\ waiter[r] # "wait" => Gone(r)
    /\ drain[r] = "eof" => exec[r] = "done"
    /\ waiter[r] = "done" /\ drain[r] = "eof" => \A k \in Key : blocks[k].refs[r] = 0

\* A segment is named by its creator and one of its calls.
Named(r) ==
    call[r].op = "create" =>
        call[r].shm \in Segment /\ call[r].shm.run = r /\ call[r].shm.n <= calls[r]

\* A block is referred to, by each run at most once, and has its segment to itself.
Kept(k) ==
    /\ \A r \in Run : blocks[k].refs[r] \in {0, 1}
    /\ blocks[k] # NoBlock =>
          /\ blocks[k].shm.n <= calls[blocks[k].shm.run]
          /\ \E r \in Run : blocks[k].refs[r] = 1
          /\ \A j \in Key : blocks[j].shm = blocks[k].shm => j = k

\* The segment of a cache_set in progress: it exists and nobody uses it, and a block
\* has it exactly when the answer is yes.
Made(r) ==
    /\ Making(r) => call[r].shm \in shm /\ \A k \in Key : handle[r][k] # call[r].shm
    /\ Making(r) /\ (reply[r] = NoReply \/ ~reply[r].ok) =>
          \A k \in Key : blocks[k].shm # call[r].shm
    /\ \A i \in 1..Len(wire[r]) : wire[r][i].op = "create" =>
          \A k \in Key : blocks[k].shm # call[r].shm

\* A yes stays true until the script has it.
Promised(r) ==
    Replied(r) /\ reply[r].ok =>
        /\ blocks[call[r].key].shm = reply[r].shm
        /\ blocks[call[r].key].refs[r] = 1
        /\ call[r].op = "create" => reply[r].shm = call[r].shm

\* What is mapped is registered, and no release of it is on its way.
Pinned(r) ==
    \A k \in Key : handle[r][k] # NoSegment =>
        /\ blocks[k].shm = handle[r][k] /\ blocks[k].refs[r] = 1
        /\ \A i \in 1..Len(wire[r]) : wire[r][i].op = "release" => wire[r][i].key # k

Owned(r) ==
    \A k \in owned[r] : handle[r][k] \in shm /\ handle[r][k].run = r

\* A segment that exists is in a block, or in the making.
Accounted ==
    \A s \in shm : \/ \E k \in Key : blocks[k].shm = s
                   \/ py[s.run] \in {"waiting", "killed"} /\ call[s.run].op = "create"
                        /\ call[s.run].shm = s

\* What is known of one run.
Fine(r) ==
    /\ Ordered(r) /\ Over(r) /\ Named(r) /\ Made(r)
    /\ Promised(r) /\ Pinned(r) /\ Owned(r)

Inv ==
    /\ TypeOK /\ Accounted
    /\ \A k \in Key : Kept(k)
    /\ \A r \in Run : Fine(r)

-----------------------------------------------------------------------------
(* What all steps share *)

LEMMA NoSegmentIsNone == NoSegment \notin Segment /\ NoBlock \notin Block
BY MaxCallsAssumption DEF NoSegment, Segment, NoBlock, Block

\* A reply is not the absence of one.
LEMMA ReplyIsSome == NoReply \notin Reply
BY DEF NoReply, Reply

\* A block with a segment is one; NoBlock has none.
LEMMA BlockHasSegment ==
    ASSUME TypeOK, NEW k \in Key
    PROVE  /\ blocks[k].shm \in Segment \cup {NoSegment}
           /\ blocks[k] # NoBlock <=> blocks[k].shm # NoSegment
           /\ blocks[k] # NoBlock => blocks[k] \in Block
           /\ blocks[k].refs \in [Run -> Nat]
BY NoSegmentIsNone DEF TypeOK, Block, NoBlock

\* Nothing of run q changes.
Same(q) ==
    /\ py'[q] = py[q] /\ call'[q] = call[q] /\ calls'[q] = calls[q]
    /\ handle'[q] = handle[q] /\ owned'[q] = owned[q]
    /\ wire'[q] = wire[q] /\ reply'[q] = reply[q] /\ exec'[q] = exec[q]
    /\ waiter'[q] = waiter[q] /\ drain'[q] = drain[q]

\* As long as the blocks stay, so does what is known of a run that makes no step.
LEMMA OthersStay ==
    ASSUME Inv, NEW q \in Run, Same(q), blocks' = blocks,
           Making(q) => call[q].shm \in shm',
           \A k \in owned[q] : handle[q][k] \in shm'
    PROVE  Fine(q)'
<1> USE DEF Inv, Fine, Same
<1>1. Ordered(q)'  BY DEF Ordered, Replied
<1>2. Over(q)'     BY DEF Over, Gone
<1>3. Named(q)'    BY DEF Named
<1>4. Made(q)'     BY DEF Made, Making
<1>5. Promised(q)' BY DEF Promised, Replied
<1>6. Pinned(q)'   BY DEF Pinned
<1>7. Owned(q)'    BY DEF Owned
<1> QED  BY <1>1, <1>2, <1>3, <1>4, <1>5, <1>6, <1>7

\* The blocks stay well kept while calls are counted.
LEMMA KeptStays ==
    ASSUME Inv, blocks' = blocks, \A q \in Run : calls'[q] \in Nat /\ calls[q] <= calls'[q]
    PROVE  \A k \in Key : Kept(k)'
<1> SUFFICES ASSUME NEW k \in Key PROVE Kept(k)'
  OBVIOUS
<1>1. blocks[k] # NoBlock => blocks[k].shm \in Segment /\ calls[blocks[k].shm.run] \in Nat
  BY BlockHasSegment DEF Inv, TypeOK, Segment
<1>2. blocks[k] # NoBlock => blocks[k].shm.run \in Run /\ blocks[k].shm.n \in Nat
  BY <1>1 DEF Segment
<1> QED  BY <1>1, <1>2 DEF Inv, Kept

-----------------------------------------------------------------------------
(* The script: the blocks do not change *)

\* Two owners own two segments, nobody owns one that is being made.
LEMMA OwnersDiffer ==
    ASSUME Inv, NEW r \in Run, NEW k \in owned[r]
    PROVE  /\ k \in Key /\ handle[r][k] \in Segment /\ handle[r][k].run = r
           /\ \A q \in Run : \A j \in owned[q] : handle[q][j] = handle[r][k] => q = r /\ j = k
           /\ \A q \in Run : Making(q) => call[q].shm # handle[r][k]
<1> USE DEF Inv, Fine
<1>1. k \in Key /\ handle[r][k] \in Segment \cup {NoSegment} /\ handle[r][k] \in shm
  BY DEF TypeOK, Owned
<1>2. handle[r][k] \in Segment /\ handle[r][k].run = r /\ handle[r][k] # NoSegment
  BY <1>1, NoSegmentIsNone DEF TypeOK, Owned
<1>3. ASSUME NEW q \in Run, NEW j \in owned[q], handle[q][j] = handle[r][k]
      PROVE  q = r /\ j = k
  <2>1. q = r  BY <1>2, <1>3 DEF Owned
  <2>2. j \in Key  BY DEF TypeOK
  <2>3. blocks[j].shm = handle[r][k] /\ blocks[k].shm = handle[r][k]
    BY <1>1, <1>2, <1>3, <2>1, <2>2 DEF Pinned
  <2>4. blocks[k] # NoBlock
    BY <1>1, <1>2, <2>3 DEF NoBlock
  <2> QED  BY <1>1, <2>1, <2>2, <2>3, <2>4 DEF Kept
<1>4. ASSUME NEW q \in Run, Making(q), call[q].shm = handle[r][k] PROVE FALSE
  <2>1. q = r  BY <1>2, <1>4 DEF Making, Named
  <2> QED  BY <1>1, <1>4, <2>1 DEF Made
<1> QED  BY <1>1, <1>2, <1>3, <1>4

\* A request a script sends is the last of its stream, and no other one is waiting.
LEMMA RequestAppended ==
    ASSUME Inv, NEW r \in Run, py[r] = "running", NEW m \in Request,
           wire' = [wire EXCEPT ![r] = Append(@, m)]
    PROVE  /\ wire' \in [Run -> Seq(Request)]
           /\ \A q \in Run : q # r => wire'[q] = wire[q]
           /\ \A i \in 1..Len(wire'[r]) :
                 \/ i = Len(wire'[r]) /\ wire'[r][i] = m
                 \/ i \in 1..Len(wire[r]) /\ wire'[r][i] = wire[r][i] /\ wire[r][i].op = "release"
<1>1. wire[r] \in Seq(Request) /\ wire'[r] = Append(wire[r], m)
  BY DEF Inv, TypeOK
<1>2. /\ Len(wire'[r]) = Len(wire[r]) + 1 /\ wire'[r][Len(wire[r]) + 1] = m
      /\ \A i \in 1..Len(wire[r]) : wire'[r][i] = wire[r][i]
  BY <1>1, AppendProperties
<1>3. \A i \in 1..Len(wire[r]) : wire[r][i].op = "release"
  BY DEF Inv, Fine, Ordered
<1>4. Append(wire[r], m) \in Seq(Request)
  BY <1>1
<1>5. wire' \in [Run -> Seq(Request)] /\ \A q \in Run : q # r => wire'[q] = wire[q]
  BY <1>4 DEF Inv, TypeOK
<1> QED  BY <1>1, <1>2, <1>3, <1>5

\* A script that runs has a stream that is read, and nobody waits for its end.
LEMMA RunningIsServed ==
    ASSUME Inv, NEW r \in Run, py[r] \in {"running", "waiting", "leaving"}
    PROVE  exec[r] = "recv" /\ waiter[r] = "wait" /\ drain[r] # "eof"
BY DEF Inv, Fine, Over, Gone, TypeOK

LEMMA CacheSetStep ==
    ASSUME Inv, NEW r \in Run, NEW k \in Key, CacheSet(r, k)
    PROVE  Inv'
<1> USE MaxCallsAssumption DEF Inv, Fine
<1> DEFINE n == calls[r] + 1
<1>0. PICK s : s = [run |-> r, n |-> calls[r] + 1]
  OBVIOUS
<1>1. s \in Segment /\ s.run = r /\ s.n = calls[r] + 1 /\ calls[r] \in Nat
  BY <1>0 DEF CacheSet, Calling, TypeOK, Segment
<1>2. PICK m : m = [op |-> "create", key |-> k, shm |-> s]
  OBVIOUS
<1>3. m \in Request /\ m.op = "create" /\ m.key = k /\ m.shm = s
  BY <1>1, <1>2 DEF Request
<1>4. /\ py[r] = "running" /\ calls[r] < MaxCalls
      /\ shm' = shm \cup {s}
      /\ call' = [call EXCEPT ![r] = m]
      /\ wire' = [wire EXCEPT ![r] = Append(@, m)]
      /\ calls' = [calls EXCEPT ![r] = @ + 1]
      /\ py' = [py EXCEPT ![r] = "waiting"]
      /\ UNCHANGED <<blocks, handle, owned, cancelEvent, reply, exec, waiter, drain>>
  BY <1>0, <1>2 DEF CacheSet, Calling, Send, waiterVars
<1>5. TypeOK'
  <2>1. wire' \in [Run -> Seq(Request)]
    BY <1>3, <1>4, RequestAppended
  <2> QED  BY <1>1, <1>3, <1>4, <2>1 DEF TypeOK
<1>6. \A j \in Key : Kept(j)'
  BY <1>4, KeptStays DEF TypeOK
<1>7. \A j \in Key : blocks[j].shm # s
  BY <1>1, BlockHasSegment DEF Kept, Segment, NoSegment
<1>8. ASSUME NEW q \in Run, q # r
      PROVE  Fine(q)'
  <2>1. Same(q)  BY <1>4, <1>8 DEF Same, TypeOK
  <2> QED  BY <1>4, <2>1, OthersStay DEF Made, Owned
<1>9. \A i \in 1..Len(wire'[r]) :
         \/ i = Len(wire'[r]) /\ wire'[r][i] = m
         \/ i \in 1..Len(wire[r]) /\ wire'[r][i] = wire[r][i] /\ wire[r][i].op = "release"
  BY <1>3, <1>4, RequestAppended
<1>10. py'[r] = "waiting" /\ call'[r] = m /\ reply'[r] = NoReply /\ calls'[r] = calls[r] + 1
  BY <1>4 DEF TypeOK, Ordered
<1>11. Ordered(r)'
  BY <1>3, <1>9, <1>10 DEF Ordered, Replied
<1>12. Over(r)' /\ Named(r)'
  <2>1. exec[r] = "recv" /\ waiter[r] = "wait" /\ drain[r] # "eof"
    BY <1>4, RunningIsServed
  <2>2. Over(r)'   BY <1>4, <1>10, <2>1 DEF Over, Gone
  <2>3. Named(r)'  BY <1>1, <1>3, <1>10 DEF Named
  <2> QED  BY <2>2, <2>3
<1>13. Made(r)'
  <2>1. \A j \in Key : handle[r][j] # s
    BY <1>1, <1>7, NoSegmentIsNone DEF Pinned
  <2> QED  BY <1>3, <1>4, <1>7, <1>10, <2>1 DEF Made, Making
<1>14. Promised(r)' /\ Pinned(r)' /\ Owned(r)'
  BY <1>3, <1>4, <1>9, <1>10 DEF Promised, Replied, Pinned, Owned
<1>15. Accounted'
  <2>1. \A q \in Run : q # r => py'[q] = py[q] /\ call'[q] = call[q]
    BY <1>4 DEF TypeOK
  <2>2. \A t \in shm : t.run \in Run
    BY DEF TypeOK, Segment
  <2>3. \A t \in shm : t.run = r => \E j \in Key : blocks[j].shm = t
    BY <1>4 DEF Accounted
  <2> QED  BY <1>1, <1>3, <1>4, <1>10, <2>1, <2>2, <2>3 DEF Accounted
<1> QED
  BY <1>5, <1>6, <1>8, <1>11, <1>12, <1>13, <1>14, <1>15

LEMMA CacheGetStep ==
    ASSUME Inv, NEW r \in Run, NEW k \in Key, CacheGet(r, k)
    PROVE  Inv'
<1> USE MaxCallsAssumption DEF Inv, Fine
<1>1. PICK m : m = [op |-> "lookup", key |-> k, shm |-> NoSegment]
  OBVIOUS
<1>2. m \in Request /\ m.op = "lookup"
  BY <1>1 DEF Request
<1>3. /\ py[r] = "running" /\ calls[r] < MaxCalls
      /\ call' = [call EXCEPT ![r] = m]
      /\ wire' = [wire EXCEPT ![r] = Append(@, m)]
      /\ calls' = [calls EXCEPT ![r] = @ + 1]
      /\ py' = [py EXCEPT ![r] = "waiting"]
      /\ UNCHANGED <<blocks, shm, handle, owned, cancelEvent, reply, exec, waiter, drain>>
  BY <1>1 DEF CacheGet, Calling, Send, waiterVars, registryVars
<1>4. TypeOK'
  <2>1. wire' \in [Run -> Seq(Request)]
    BY <1>2, <1>3, RequestAppended
  <2> QED  BY <1>2, <1>3, <2>1 DEF TypeOK
<1>5. \A j \in Key : Kept(j)'
  BY <1>3, KeptStays DEF TypeOK
<1>6. ASSUME NEW q \in Run, q # r PROVE Fine(q)'
  <2>1. Same(q)  BY <1>3, <1>6 DEF Same, TypeOK
  <2> QED  BY <1>3, <2>1, OthersStay DEF Made, Owned
<1>7. \A i \in 1..Len(wire'[r]) :
         \/ i = Len(wire'[r]) /\ wire'[r][i] = m
         \/ i \in 1..Len(wire[r]) /\ wire'[r][i] = wire[r][i] /\ wire[r][i].op = "release"
  BY <1>2, <1>3, RequestAppended
<1>8. py'[r] = "waiting" /\ call'[r] = m /\ reply'[r] = NoReply /\ calls'[r] = calls[r] + 1
  BY <1>3 DEF TypeOK, Ordered
<1>9. Ordered(r)'
  BY <1>2, <1>7, <1>8 DEF Ordered, Replied
<1>10. Over(r)' /\ Named(r)'
  <2>1. exec[r] = "recv" /\ waiter[r] = "wait" /\ drain[r] # "eof"
    BY <1>3, RunningIsServed
  <2> QED  BY <1>2, <1>3, <1>8, <2>1 DEF Over, Gone, Named
<1>11. Made(r)' /\ Promised(r)'
  BY <1>2, <1>7, <1>8 DEF Made, Making, Promised, Replied
<1>12. Pinned(r)' /\ Owned(r)'
  BY <1>2, <1>3, <1>7 DEF Pinned, Owned
<1>13. Accounted'
  <2>1. \A q \in Run : q # r => py'[q] = py[q] /\ call'[q] = call[q]
    BY <1>3 DEF TypeOK
  <2>2. \A t \in shm : t.run \in Run
    BY DEF TypeOK, Segment
  <2>3. \A t \in shm : t.run = r => \E j \in Key : blocks[j].shm = t
    BY <1>3 DEF Accounted
  <2> QED  BY <1>3, <2>1, <2>2, <2>3 DEF Accounted
<1> QED
  BY <1>4, <1>5, <1>6, <1>9, <1>10, <1>11, <1>12, <1>13

LEMMA CacheReleaseStep ==
    ASSUME Inv, NEW r \in Run, NEW k \in Key, CacheRelease(r, k)
    PROVE  Inv'
<1> USE MaxCallsAssumption DEF Inv, Fine
<1>1. PICK m : m = [op |-> "release", key |-> k, shm |-> NoSegment]
  OBVIOUS
<1>2. m \in Request /\ m.op = "release" /\ m.key = k
  BY <1>1 DEF Request
<1>3. /\ py[r] = "running" /\ calls[r] < MaxCalls
      /\ shm' = IF k \in owned[r] THEN shm \ {handle[r][k]} ELSE shm
      /\ handle' = [handle EXCEPT ![r][k] = NoSegment]
      /\ owned' = [owned EXCEPT ![r] = @ \ {k}]
      /\ calls' = [calls EXCEPT ![r] = @ + 1]
      /\ UNCHANGED <<blocks, py, cancelEvent, reply, exec, waiter, drain>>
  BY DEF CacheRelease, Calling, Send, waiterVars
<1>4. \/ UNCHANGED <<call, wire>>
      \/ /\ call' = [call EXCEPT ![r] = m]
         /\ wire' = [wire EXCEPT ![r] = Append(@, m)]
  BY <1>1 DEF CacheRelease, Send
<1>5. /\ wire' \in [Run -> Seq(Request)]
      /\ \A q \in Run : q # r => wire'[q] = wire[q] /\ call'[q] = call[q]
      /\ \A i \in 1..Len(wire'[r]) :
            \/ wire'[r][i] = m
            \/ i \in 1..Len(wire[r]) /\ wire'[r][i] = wire[r][i] /\ wire[r][i].op = "release"
  <2>1. CASE UNCHANGED <<call, wire>>
    <3>1. \A i \in 1..Len(wire[r]) : wire[r][i].op = "release"
      BY <1>3 DEF Ordered
    <3> QED  BY <2>1, <3>1 DEF TypeOK
  <2>2. CASE /\ call' = [call EXCEPT ![r] = m]
             /\ wire' = [wire EXCEPT ![r] = Append(@, m)]
    <3>1. /\ wire' \in [Run -> Seq(Request)]
          /\ \A q \in Run : q # r => wire'[q] = wire[q]
      BY <1>2, <1>3, <2>2, RequestAppended
    <3>2. \A i \in 1..Len(wire'[r]) :
             \/ wire'[r][i] = m
             \/ i \in 1..Len(wire[r]) /\ wire'[r][i] = wire[r][i] /\ wire[r][i].op = "release"
      <4>1. \A i \in 1..Len(wire'[r]) :
               \/ i = Len(wire'[r]) /\ wire'[r][i] = m
               \/ i \in 1..Len(wire[r]) /\ wire'[r][i] = wire[r][i] /\ wire[r][i].op = "release"
        BY <1>2, <1>3, <2>2, RequestAppended
      <4> QED  BY ONLY <4>1
    <3> QED  BY <2>2, <3>1, <3>2 DEF TypeOK
  <2> QED  BY <1>4, <2>1, <2>2
<1>6. call'[r] \in {call[r], m}
  BY <1>4 DEF TypeOK
<1>7. TypeOK'
  <2>1. call' \in [Run -> Request \cup {NoRequest}]
    BY <1>2, <1>4 DEF TypeOK
  <2>2. handle' \in [Run -> [Key -> Segment \cup {NoSegment}]]
    BY <1>3 DEF TypeOK
  <2>3. owned' \in [Run -> SUBSET Key] /\ shm' \subseteq Segment
    BY <1>3 DEF TypeOK
  <2>4. calls' \in [Run -> 0..MaxCalls]
    BY <1>3 DEF TypeOK
  <2> QED  BY <1>3, <1>5, <2>1, <2>2, <2>3, <2>4 DEF TypeOK
<1>8. \A j \in Key : Kept(j)'
  BY <1>3, KeptStays DEF TypeOK
<1>9. ASSUME NEW q \in Run, q # r PROVE Fine(q)'
  <2>1. Same(q)  BY <1>3, <1>5, <1>9 DEF Same, TypeOK
  <2>2. Making(q) => call[q].shm \in shm'
    BY <1>3, OwnersDiffer DEF Made
  <2>3. \A j \in owned[q] : handle[q][j] \in shm'
    BY <1>3, <1>9, OwnersDiffer DEF Owned
  <2> QED  BY <1>3, <2>1, <2>2, <2>3, OthersStay
<1>10. Ordered(r)'
  BY <1>2, <1>3, <1>5 DEF Ordered, Replied
<1>11. Over(r)' /\ Named(r)'
  <2>1. exec[r] = "recv" /\ waiter[r] = "wait" /\ drain[r] # "eof"
    BY <1>3, RunningIsServed
  <2>2. calls'[r] \in Nat /\ calls[r] \in Nat /\ calls[r] <= calls'[r]
    BY <1>3 DEF TypeOK
  <2>3. Named(r)'
    BY <1>2, <1>6, <2>2 DEF Named, Segment
  <2> QED  BY <1>3, <2>1, <2>3 DEF Over, Gone
<1>12. Made(r)' /\ Promised(r)'
  BY <1>2, <1>3, <1>5 DEF Made, Making, Promised, Replied
<1>13. handle'[r][k] = NoSegment /\ \A j \in Key : j # k => handle'[r][j] = handle[r][j]
  BY <1>3 DEF TypeOK
<1>14. Pinned(r)'
  <2> SUFFICES ASSUME NEW j \in Key, handle'[r][j] # NoSegment
               PROVE  /\ blocks'[j].shm = handle'[r][j] /\ blocks'[j].refs[r] = 1
                      /\ \A i \in 1..Len(wire'[r]) :
                            wire'[r][i].op = "release" => wire'[r][i].key # j
    BY DEF Pinned
  <2>1. j # k /\ handle'[r][j] = handle[r][j]
    BY <1>13
  <2>2. /\ blocks[j].shm = handle[r][j] /\ blocks[j].refs[r] = 1
        /\ \A i \in 1..Len(wire[r]) : wire[r][i].op = "release" => wire[r][i].key # j
    BY <2>1 DEF Pinned
  <2>3. \A i \in 1..Len(wire'[r]) : wire'[r][i].op = "release" => wire'[r][i].key # j
    BY <1>2, <1>5, <2>1, <2>2
  <2> QED  BY <1>3, <2>1, <2>2, <2>3
<1>15. Owned(r)'
  <2> SUFFICES ASSUME NEW j \in owned[r], j # k
               PROVE  handle[r][j] \in shm' /\ handle'[r][j] = handle[r][j] /\ handle[r][j].run = r
    BY <1>3 DEF Owned, TypeOK
  <2>1. j \in Key /\ handle[r][j] \in shm /\ handle[r][j].run = r
    BY DEF TypeOK, Owned
  <2>2. k \in owned[r] => handle[r][j] # handle[r][k]
    BY OwnersDiffer
  <2> QED  BY <1>3, <1>13, <2>1, <2>2
<1>16. Accounted'
  <2>1. \A t \in shm : t.run \in Run
    BY DEF TypeOK, Segment
  <2>2. \A t \in shm : t.run = r => \E j \in Key : blocks[j].shm = t
    BY <1>3 DEF Accounted
  <2> QED  BY <1>3, <1>5, <2>1, <2>2 DEF Accounted
<1> QED
  BY <1>7, <1>8, <1>9, <1>10, <1>11, <1>12, <1>14, <1>15, <1>16

\* The segment of a cache_set is nobody else's: taking it away again hurts no other run.
LEMMA MakerIsAlone ==
    ASSUME Inv, NEW r \in Run, Making(r), NEW q \in Run, q # r
    PROVE  /\ Making(q) => call[q].shm \in shm \ {call[r].shm}
           /\ \A j \in owned[q] : handle[q][j] \in shm \ {call[r].shm}
BY OwnersDiffer DEF Inv, Fine, Named, Making, Made, Owned

LEMMA SetReturnsStep ==
    ASSUME Inv, NEW r \in Run, SetReturns(r)
    PROVE  Inv'
<1> USE MaxCallsAssumption DEF Inv, Fine
<1>1. /\ py[r] = "waiting" /\ call[r].op = "create" /\ reply[r] # NoReply
      /\ reply' = [reply EXCEPT ![r] = NoReply]
      /\ py' = [py EXCEPT ![r] = "running"]
      /\ UNCHANGED <<blocks, call, calls, cancelEvent, wire, exec, waiter, drain>>
  BY DEF SetReturns, waiterVars
<1>2. /\ Making(r) /\ reply[r] \in Reply /\ wire[r] = <<>> /\ call[r] \in Request
      /\ call[r].shm \in Segment /\ call[r].shm.run = r /\ call[r].shm \in shm
  BY <1>1 DEF Making, Replied, Ordered, Named, Made
<1>3. PICK s, k : s = call[r].shm /\ k = call[r].key
  OBVIOUS
<1>4. k \in Key
  BY <1>2, <1>3 DEF Request
<1>5. \A j \in Key : Kept(j)'
  BY <1>1, KeptStays DEF TypeOK
<1>6. /\ py'[r] = "running" /\ reply'[r] = NoReply /\ wire'[r] = <<>>
      /\ \A q \in Run : q # r => py'[q] = py[q] /\ reply'[q] = reply[q]
  BY <1>1, <1>2 DEF TypeOK
<1>7. \A t \in shm : t.run \in Run
  BY DEF TypeOK, Segment
<1>8. Ordered(r)' /\ Named(r)' /\ Made(r)' /\ Promised(r)'
  BY <1>1, <1>6 DEF Ordered, Named, Made, Making, Promised, Replied
<1>9. Over(r)'
  <2>1. exec[r] = "recv" /\ waiter[r] = "wait" /\ drain[r] # "eof"
    BY <1>1, RunningIsServed
  <2> QED  BY <1>1, <1>6, <2>1 DEF Over, Gone
<1>10. CASE reply[r].ok
  <2>1. /\ handle' = [handle EXCEPT ![r][k] = s]
        /\ owned' = [owned EXCEPT ![r] = @ \cup {k}]
        /\ UNCHANGED shm
    BY <1>3, <1>10 DEF SetReturns
  <2>2. blocks[k].shm = s /\ blocks[k].refs[r] = 1
    BY <1>1, <1>3, <1>10 DEF Promised, Replied
  <2>3. /\ handle'[r][k] = s
        /\ \A j \in Key : j # k => handle'[r][j] = handle[r][j]
        /\ owned'[r] = owned[r] \cup {k}
    BY <1>4, <2>1 DEF TypeOK
  <2>4. TypeOK'
    <3>1. handle' \in [Run -> [Key -> Segment \cup {NoSegment}]]
      BY <1>2, <1>3, <1>4, <2>1 DEF TypeOK
    <3> QED  BY <1>1, <1>4, <2>1, <3>1 DEF TypeOK
  <2>5. ASSUME NEW q \in Run, q # r PROVE Fine(q)'
    <3>1. Same(q)  BY <1>1, <1>6, <2>1, <2>5 DEF Same, TypeOK
    <3> QED  BY <1>1, <2>1, <3>1, OthersStay DEF Made, Owned
  <2>6. Pinned(r)'
    BY <1>1, <1>6, <2>2, <2>3 DEF Pinned
  <2>7. Owned(r)'
    BY <1>2, <1>3, <2>1, <2>3 DEF Owned, TypeOK
  <2>8. Accounted'
    BY <1>1, <1>3, <1>4, <1>6, <1>7, <2>1, <2>2 DEF Accounted
  <2> QED  BY <1>5, <1>8, <1>9, <2>4, <2>5, <2>6, <2>7, <2>8
<1>11. CASE ~reply[r].ok
  <2>1. shm' = shm \ {s} /\ UNCHANGED <<handle, owned>>
    BY <1>3, <1>11 DEF SetReturns
  <2>2. TypeOK'
    BY <1>1, <2>1 DEF TypeOK
  <2>3. ASSUME NEW q \in Run, q # r PROVE Fine(q)'
    <3>1. Same(q)  BY <1>1, <1>6, <2>1, <2>3 DEF Same
    <3>2. /\ Making(q) => call[q].shm \in shm'
          /\ \A j \in owned[q] : handle[q][j] \in shm'
      BY <1>2, <1>3, <2>1, <2>3, MakerIsAlone
    <3> QED  BY <1>1, <3>1, <3>2, OthersStay
  <2>4. Pinned(r)'
    BY <1>1, <2>1 DEF Pinned
  <2>5. Owned(r)'
    BY <1>2, <1>3, <2>1 DEF Owned, TypeOK, Made
  <2>6. Accounted'
    BY <1>1, <1>3, <1>6, <1>7, <2>1 DEF Accounted
  <2> QED  BY <1>5, <1>8, <1>9, <2>2, <2>3, <2>4, <2>5, <2>6
<1>12. reply[r].ok \in BOOLEAN
  BY <1>2 DEF Reply
<1> QED  BY <1>10, <1>11, <1>12

LEMMA GetReturnsStep ==
    ASSUME Inv, NEW r \in Run, GetReturns(r)
    PROVE  Inv'
<1> USE MaxCallsAssumption DEF Inv, Fine
<1>1. /\ py[r] = "waiting" /\ call[r].op = "lookup" /\ reply[r] # NoReply
      /\ reply' = [reply EXCEPT ![r] = NoReply]
      /\ py' = [py EXCEPT ![r] = "running"]
      /\ UNCHANGED <<blocks, shm, call, calls, owned, cancelEvent, wire, exec, waiter, drain>>
  BY DEF GetReturns, waiterVars, registryVars
<1>2. reply[r] \in Reply /\ wire[r] = <<>> /\ call[r] \in Request
  BY <1>1 DEF Replied, Ordered
<1>3. PICK s, k : s = reply[r].shm /\ k = call[r].key
  OBVIOUS
<1>4. k \in Key
  BY <1>2, <1>3 DEF Request
<1>5. \/ handle' = handle
      \/ /\ handle' = [handle EXCEPT ![r][k] = s]
         /\ s \in Segment /\ blocks[k].shm = s /\ blocks[k].refs[r] = 1
  BY <1>1, <1>3 DEF GetReturns, TypeOK, Promised, Replied
<1>6. /\ py'[r] = "running" /\ reply'[r] = NoReply /\ wire'[r] = <<>>
      /\ \A q \in Run : q # r => py'[q] = py[q] /\ reply'[q] = reply[q]
  BY <1>1, <1>2 DEF TypeOK
<1>7. \A q \in Run : q # r => handle'[q] = handle[q]
  BY <1>5 DEF TypeOK
<1>8. \A j \in Key : \/ handle'[r][j] = handle[r][j]
                     \/ j = k /\ handle'[r][j] = s /\ blocks[j].shm = s /\ blocks[j].refs[r] = 1
  BY <1>4, <1>5 DEF TypeOK
<1>9. TypeOK'
  <2>1. handle' \in [Run -> [Key -> Segment \cup {NoSegment}]]
    <3>1. CASE handle' = handle  BY <3>1 DEF TypeOK
    <3>2. CASE s \in Segment /\ handle' = [handle EXCEPT ![r][k] = s]
      BY <1>4, <3>2 DEF TypeOK
    <3> QED  BY <1>5, <3>1, <3>2
  <2> QED  BY <1>1, <2>1 DEF TypeOK
<1>10. \A j \in Key : Kept(j)'
  BY <1>1, KeptStays DEF TypeOK
<1>11. ASSUME NEW q \in Run, q # r PROVE Fine(q)'
  <2>1. Same(q)  BY <1>1, <1>6, <1>7, <1>11 DEF Same
  <2> QED  BY <1>1, <2>1, OthersStay DEF Made, Owned
<1>12. Ordered(r)' /\ Named(r)' /\ Made(r)' /\ Promised(r)'
  BY <1>1, <1>6 DEF Ordered, Named, Made, Making, Promised, Replied
<1>13. Over(r)'
  <2>1. exec[r] = "recv" /\ waiter[r] = "wait" /\ drain[r] # "eof"
    BY <1>1, RunningIsServed
  <2> QED  BY <1>1, <1>6, <2>1 DEF Over, Gone
<1>14. Pinned(r)'
  BY <1>1, <1>6, <1>8 DEF Pinned
<1>15. Owned(r)'
  <2> SUFFICES ASSUME NEW j \in owned[r] PROVE handle'[r][j] \in shm /\ handle'[r][j].run = r
    BY <1>1 DEF Owned
  <2>1. j \in Key /\ handle[r][j] \in Segment /\ handle[r][j] \in shm /\ handle[r][j].run = r
    BY OwnersDiffer DEF Owned
  <2>2. blocks[j].shm = handle[r][j]
    BY <2>1, NoSegmentIsNone DEF Pinned
  <2> QED  BY <1>8, <2>1, <2>2
<1>16. Accounted'
  <2>1. \A t \in shm : t.run \in Run
    BY DEF TypeOK, Segment
  <2> QED  BY <1>1, <1>6, <2>1 DEF Accounted
<1> QED
  BY <1>9, <1>10, <1>11, <1>12, <1>13, <1>14, <1>15, <1>16

LEMMA GiveUpStep ==
    ASSUME Inv, NEW r \in Run, GiveUp(r)
    PROVE  Inv'
<1> USE MaxCallsAssumption DEF Inv, Fine
<1>1. /\ py[r] = "waiting"
      /\ shm' = IF call[r].op = "create" THEN shm \ {call[r].shm} ELSE shm
      /\ py' = [py EXCEPT ![r] = "leaving"]
      /\ UNCHANGED <<blocks, call, calls, handle, owned, cancelEvent, wire, reply, exec,
                     waiter, drain>>
  BY DEF GiveUp, waiterVars, streamVars
<1>2. py'[r] = "leaving" /\ \A q \in Run : q # r => py'[q] = py[q]
  BY <1>1 DEF TypeOK
<1>3. TypeOK' /\ \A j \in Key : Kept(j)'
  <2>1. TypeOK'  BY <1>1 DEF TypeOK
  <2> QED  BY <1>1, <2>1, KeptStays DEF TypeOK
<1>4. ASSUME NEW q \in Run, q # r PROVE Fine(q)'
  <2>1. Same(q)  BY <1>1, <1>2, <1>4 DEF Same
  <2>2. /\ Making(q) => call[q].shm \in shm'
        /\ \A j \in owned[q] : handle[q][j] \in shm'
    BY <1>1, <1>4, MakerIsAlone DEF Making, Made, Owned
  <2> QED  BY <1>1, <2>1, <2>2, OthersStay
<1>5. Ordered(r)' /\ Named(r)' /\ Made(r)' /\ Promised(r)' /\ Pinned(r)'
  BY <1>1, <1>2 DEF Ordered, Named, Made, Making, Promised, Replied, Pinned
<1>6. Over(r)'
  <2>1. exec[r] = "recv" /\ waiter[r] = "wait" /\ drain[r] # "eof"
    BY <1>1, RunningIsServed
  <2> QED  BY <1>1, <1>2, <2>1 DEF Over, Gone
<1>7. Owned(r)'
  BY <1>1 DEF Owned, TypeOK, Made, Making
<1>8. Accounted'
  <2>1. \A t \in shm : t.run \in Run
    BY DEF TypeOK, Segment
  <2> QED  BY <1>1, <1>2, <2>1 DEF Accounted
<1> QED  BY <1>3, <1>4, <1>5, <1>6, <1>7, <1>8

LEMMA CancelStep ==
    ASSUME Inv, NEW r \in Run, Cancel(r)
    PROVE  Inv'
<1> USE DEF Inv, Fine
<1>1. /\ cancelEvent' = [cancelEvent EXCEPT ![r] = TRUE]
      /\ UNCHANGED <<blocks, shm, py, call, calls, handle, owned, wire, reply, exec, waiter, drain>>
  BY DEF Cancel, waiterVars, streamVars, registryVars
<1>2. TypeOK' /\ \A j \in Key : Kept(j)'
  <2>1. TypeOK'  BY <1>1 DEF TypeOK
  <2> QED  BY <1>1, <2>1, KeptStays DEF TypeOK
<1>3. ASSUME NEW q \in Run PROVE Fine(q)'
  <2>1. Same(q)  BY <1>1 DEF Same
  <2> QED  BY <1>1, <2>1, OthersStay DEF Made, Owned
<1>4. Accounted'
  BY <1>1 DEF Accounted
<1> QED  BY <1>2, <1>3, <1>4

LEMMA PyExitStep ==
    ASSUME Inv, NEW r \in Run, PyExit(r)
    PROVE  Inv'
<1> USE DEF Inv, Fine
<1>1. /\ py[r] \in {"running", "leaving"}
      /\ shm' = shm \ {handle[r][k] : k \in owned[r]}
      /\ handle' = [handle EXCEPT ![r] = [k \in Key |-> NoSegment]]
      /\ owned' = [owned EXCEPT ![r] = {}]
      /\ py' = [py EXCEPT ![r] = "exited"]
      /\ UNCHANGED <<blocks, call, calls, cancelEvent, wire, reply, exec, waiter, drain>>
  BY DEF PyExit, waiterVars, streamVars
<1>2. /\ py'[r] = "exited" /\ owned'[r] = {} /\ \A k \in Key : handle'[r][k] = NoSegment
      /\ \A q \in Run : q # r =>
            py'[q] = py[q] /\ owned'[q] = owned[q] /\ handle'[q] = handle[q]
  BY <1>1 DEF TypeOK
<1>3. TypeOK' /\ \A j \in Key : Kept(j)'
  <2>1. TypeOK'  BY <1>1 DEF TypeOK
  <2> QED  BY <1>1, <2>1, KeptStays DEF TypeOK
<1>4. ASSUME NEW q \in Run, q # r PROVE Fine(q)'
  <2>1. Same(q)  BY <1>1, <1>2, <1>4 DEF Same
  <2>2. Making(q) => call[q].shm \in shm'
    BY <1>1, OwnersDiffer DEF Made
  <2>3. \A j \in owned[q] : handle[q][j] \in shm'
    BY <1>1, <1>4, OwnersDiffer DEF Owned
  <2> QED  BY <1>1, <2>1, <2>2, <2>3, OthersStay
<1>5. Ordered(r)' /\ Named(r)' /\ Made(r)' /\ Promised(r)' /\ Pinned(r)' /\ Owned(r)'
  BY <1>1, <1>2 DEF Ordered, Named, Made, Making, Promised, Replied, Pinned, Owned
<1>6. Over(r)'
  <2>1. exec[r] = "recv" /\ waiter[r] = "wait" /\ drain[r] # "eof"
    BY <1>1, RunningIsServed
  <2> QED  BY <1>1, <1>2, <2>1 DEF Over, Gone
<1>7. Accounted'
  <2>1. \A t \in shm : t.run \in Run
    BY DEF TypeOK, Segment
  <2> QED  BY <1>1, <1>2, <2>1 DEF Accounted
<1> QED  BY <1>3, <1>4, <1>5, <1>6, <1>7

LEMMA PyKilledStep ==
    ASSUME Inv, NEW r \in Run, PyKilled(r)
    PROVE  Inv'
<1> USE DEF Inv, Fine
<1>1. /\ py[r] \in {"running", "waiting", "leaving"}
      /\ handle' = [handle EXCEPT ![r] = [k \in Key |-> NoSegment]]
      /\ owned' = [owned EXCEPT ![r] = {}]
      /\ py' = [py EXCEPT ![r] = "killed"]
      /\ UNCHANGED <<blocks, shm, call, calls, cancelEvent, reply, exec, waiter, drain>>
  BY DEF PyKilled, waiterVars, registryVars
<1>2. PICK kept \in {wire[r], <<>>} : wire' = [wire EXCEPT ![r] = kept]
  BY DEF PyKilled
<1>3. /\ wire' \in [Run -> Seq(Request)] /\ wire'[r] \in {wire[r], <<>>}
      /\ \A q \in Run : q # r => wire'[q] = wire[q]
  <2>1. kept = wire[r] \/ kept = <<>>
    BY <1>2
  <2>2. wire[r] \in Seq(Request) /\ <<>> \in Seq(Request)
    BY DEF TypeOK
  <2>3. wire' = [wire EXCEPT ![r] = kept] /\ kept \in Seq(Request)
    BY <1>2, <2>1, <2>2
  <2> QED  BY <2>1, <2>3 DEF TypeOK
<1>4. /\ py'[r] = "killed" /\ owned'[r] = {} /\ \A k \in Key : handle'[r][k] = NoSegment
      /\ \A q \in Run : q # r =>
            py'[q] = py[q] /\ owned'[q] = owned[q] /\ handle'[q] = handle[q]
  BY <1>1 DEF TypeOK
<1>5. TypeOK' /\ \A j \in Key : Kept(j)'
  <2>1. TypeOK'  BY <1>1, <1>3 DEF TypeOK
  <2> QED  BY <1>1, <2>1, KeptStays DEF TypeOK
<1>6. ASSUME NEW q \in Run, q # r PROVE Fine(q)'
  <2>1. Same(q)  BY <1>1, <1>3, <1>4, <1>6 DEF Same
  <2> QED  BY <1>1, <2>1, OthersStay DEF Made, Owned
<1>7. Ordered(r)' /\ Made(r)'
  <2>1. CASE wire'[r] = wire[r]
    BY <1>1, <1>4, <2>1 DEF Ordered, Replied, Made, Making
  <2>2. CASE wire'[r] = <<>>
    BY <1>1, <1>4, <2>2 DEF Ordered, Replied, Made, Making
  <2> QED  BY <1>3, <2>1, <2>2
<1>8. Named(r)' /\ Promised(r)' /\ Pinned(r)' /\ Owned(r)'
  BY <1>1, <1>4 DEF Named, Promised, Replied, Pinned, Owned
<1>9. Over(r)'
  <2>1. exec[r] = "recv" /\ waiter[r] = "wait" /\ drain[r] # "eof"
    BY <1>1, RunningIsServed
  <2> QED  BY <1>1, <1>4, <2>1 DEF Over, Gone
<1>10. Accounted'
  <2>1. \A t \in shm : t.run \in Run
    BY DEF TypeOK, Segment
  <2> QED  BY <1>1, <1>4, <2>1 DEF Accounted
<1> QED  BY <1>5, <1>6, <1>7, <1>8, <1>9, <1>10

-----------------------------------------------------------------------------
(* Execute and waitForExit: requests are taken, blocks change *)

\* Execute takes requests in order; one that is answered is the last, and the call
\* the script is in.
LEMMA RequestTaken ==
    ASSUME Inv, NEW r \in Run, wire[r] # <<>>, wire' = [wire EXCEPT ![r] = Tail(@)]
    PROVE  /\ wire' \in [Run -> Seq(Request)]
           /\ \A q \in Run : q # r => wire'[q] = wire[q]
           /\ Head(wire[r]) \in Request
           /\ 1 \in 1..Len(wire[r]) /\ wire[r][1] = Head(wire[r])
           /\ \A i \in 1..Len(wire'[r]) :
                 /\ i + 1 \in 1..Len(wire[r]) /\ wire'[r][i] = wire[r][i + 1]
                 /\ i + 1 = Len(wire[r]) => i = Len(wire'[r])
           /\ Head(wire[r]).op # "release" =>
                 wire'[r] = <<>> /\ Head(wire[r]) = call[r] /\ py[r] # "running"
<1>1. wire[r] \in Seq(Request) /\ wire'[r] = Tail(wire[r])
  BY DEF Inv, TypeOK
<1>2. /\ Head(wire[r]) \in Request /\ Head(wire[r]) = wire[r][1]
      /\ Tail(wire[r]) \in Seq(Request)
  BY <1>1, HeadTailProperties
<1>3. wire'[r] \in Seq(Request) /\ Len(wire'[r]) = Len(wire[r]) - 1
  BY <1>1, HeadTailProperties
<1>4. \A i \in 1..Len(wire'[r]) : wire'[r][i] = wire[r][i + 1]
  BY <1>1, HeadTailProperties
<1>5. Len(wire[r]) \in Nat /\ Len(wire[r]) > 0
  BY <1>1, EmptySeq
<1>6. wire' \in [Run -> Seq(Request)] /\ \A q \in Run : q # r => wire'[q] = wire[q]
  BY <1>2 DEF Inv, TypeOK
<1>7. ASSUME Head(wire[r]).op # "release"
      PROVE  wire'[r] = <<>> /\ Head(wire[r]) = call[r] /\ py[r] # "running"
  <2>1. 1 \in 1..Len(wire[r]) /\ wire[r][1].op # "release"
    BY <1>2, <1>5, <1>7
  <2>2. 1 = Len(wire[r]) /\ wire[r][1] = call[r] /\ py[r] # "running"
    BY <2>1 DEF Inv, Fine, Ordered
  <2>3. wire'[r] = <<>>
    BY <1>3, <2>2, EmptySeq
  <2> QED  BY <1>2, <2>2, <2>3
<1>8. \A i \in 1..Len(wire'[r]) :
         /\ i + 1 \in 1..Len(wire[r]) /\ wire'[r][i] = wire[r][i + 1]
         /\ i + 1 = Len(wire[r]) => i = Len(wire'[r])
  <2>1. Len(wire'[r]) \in Nat
    BY <1>3
  <2> SUFFICES ASSUME NEW i \in 1..Len(wire'[r])
               PROVE  /\ i + 1 \in 1..Len(wire[r])
                      /\ i + 1 = Len(wire[r]) => i = Len(wire'[r])
    BY <1>4
  <2> QED  BY <1>3, <1>5, <2>1
<1>9. 1 \in 1..Len(wire[r])
  BY <1>5
<1> QED  BY <1>2, <1>6, <1>7, <1>8, <1>9

\* A run that makes no step keeps what it has, when its references stay and what is
\* new in the registry is not its own.
LEMMA OthersKeep ==
    ASSUME Inv, NEW r \in Run, NEW q \in Run, q # r, Same(q),
           \A k \in Key : /\ blocks'[k].refs[q] = blocks[k].refs[q]
                          /\ blocks[k].refs[q] = 1 => blocks'[k].shm = blocks[k].shm
                          /\ \/ blocks'[k].shm \in {blocks[k].shm, NoSegment}
                             \/ blocks'[k].shm.run = r,
           Making(q) => call[q].shm \in shm',
           \A k \in owned[q] : handle[q][k] \in shm'
    PROVE  Fine(q)'
<1> USE DEF Inv, Fine, Same
<1>1. Ordered(q)'  BY DEF Ordered, Replied
<1>2. Over(q)'     BY DEF Over, Gone
<1>3. Named(q)'    BY DEF Named
<1>4. \A k \in Key : call[q].op = "create" /\ blocks[k].shm # call[q].shm =>
         blocks'[k].shm # call[q].shm
  BY NoSegmentIsNone DEF Named
<1>5. Made(q)'
  <2>1. Making(q)' = Making(q)  BY DEF Making
  <2>2. Making(q) => call[q].op = "create"  BY DEF Making
  <2>3. \A i \in 1..Len(wire[q]) : wire[q][i].op = "create" => call[q].op = "create"
    BY DEF Ordered
  <2>4. (Making(q) => call[q].shm \in shm /\ \A k \in Key : handle[q][k] # call[q].shm)'
    BY <2>1 DEF Made
  <2>5. (Making(q) /\ (reply[q] = NoReply \/ ~reply[q].ok) =>
            \A k \in Key : blocks[k].shm # call[q].shm)'
    BY <1>4, <2>1, <2>2 DEF Made
  <2>6. (\A i \in 1..Len(wire[q]) : wire[q][i].op = "create" =>
            \A k \in Key : blocks[k].shm # call[q].shm)'
    BY <1>4, <2>3 DEF Made
  <2> QED  BY <2>4, <2>5, <2>6 DEF Made
<1>6. Promised(q)'
  <2>1. Replied(q) => call[q].key \in Key
    BY DEF Replied, Ordered, Request
  <2>2. ASSUME Replied(q), reply[q].ok
        PROVE  /\ blocks'[call[q].key].shm = reply[q].shm
               /\ blocks'[call[q].key].refs[q] = 1
               /\ call[q].op = "create" => reply[q].shm = call[q].shm
    <3>1. PICK k \in Key : k = call[q].key
      BY <2>1, <2>2
    <3>2. /\ blocks[k].shm = reply[q].shm /\ blocks[k].refs[q] = 1
          /\ call[q].op = "create" => reply[q].shm = call[q].shm
      BY <2>2, <3>1 DEF Promised
    <3> QED  BY <3>1, <3>2
  <2> QED  BY <2>2 DEF Promised, Replied
<1>7. Pinned(q)'  BY DEF Pinned
<1>8. Owned(q)'   BY DEF Owned
<1> QED  BY <1>1, <1>2, <1>3, <1>5, <1>6, <1>7, <1>8

\* What becomes of a block when a run's reference is dropped: it stays as it was, it
\* goes because nobody else refers to it, or it stays for the others.
LEMMA DroppedBlock ==
    ASSUME Inv, NEW r \in Run, NEW K, NEW k \in Key
    PROVE  \/ (k \notin K \/ blocks[k] = NoBlock) /\ Dropped(r, K)[k] = blocks[k]
           \/ /\ k \in K /\ blocks[k] # NoBlock /\ Dropped(r, K)[k] = NoBlock
              /\ \A q \in Run : q # r => blocks[k].refs[q] = 0
           \/ /\ k \in K /\ blocks[k] # NoBlock /\ Dropped(r, K)[k] # NoBlock
              /\ Dropped(r, K)[k] \in Block /\ Dropped(r, K)[k].shm = blocks[k].shm
              /\ Dropped(r, K)[k].refs[r] = 0
              /\ \A q \in Run : q # r => Dropped(r, K)[k].refs[q] = blocks[k].refs[q]
              /\ \E q \in Run : Dropped(r, K)[k].refs[q] = 1
<1>1. CASE k \notin K \/ blocks[k] = NoBlock
  BY <1>1 DEF Dropped
<1>2. CASE k \in K /\ blocks[k] # NoBlock
  <2>1. /\ blocks[k] \in Block /\ blocks[k].shm \in Segment
        /\ blocks[k].refs \in [Run -> Nat] /\ blocks[k].refs[r] \in {0, 1}
    BY <1>2, BlockHasSegment DEF Inv, Kept, Block
  <2>2. PICK refs : refs = DropRef(blocks[k].refs, r)
    OBVIOUS
  <2>3. /\ refs \in [Run -> Nat] /\ refs[r] = 0
        /\ \A q \in Run : q # r => refs[q] = blocks[k].refs[q]
    BY <2>1, <2>2 DEF DropRef
  <2>4. Dropped(r, K)[k] = IF Unreferenced(refs) THEN NoBlock
                           ELSE [blocks[k] EXCEPT !.refs = refs]
    BY <1>2, <2>2 DEF Dropped
  <2>5. CASE Unreferenced(refs)
    BY <1>2, <2>3, <2>4, <2>5 DEF Unreferenced
  <2>6. CASE ~Unreferenced(refs)
    <3>1. /\ Dropped(r, K)[k] \in Block /\ Dropped(r, K)[k].shm = blocks[k].shm
          /\ Dropped(r, K)[k].refs = refs
      BY <2>1, <2>3, <2>4, <2>6 DEF Block
    <3>2. PICK q \in Run : refs[q] # 0
      BY <2>6 DEF Unreferenced
    <3>3. refs[q] = 1
      BY <2>3, <3>2 DEF Inv, Kept
    <3>4. Dropped(r, K)[k] # NoBlock
      BY <3>1, NoSegmentIsNone
    <3> QED  BY <1>2, <2>3, <3>1, <3>3, <3>4
  <2> QED  BY <2>5, <2>6
<1> QED  BY <1>1, <1>2

\* Dropping a run's references takes a segment away only when no run refers to it, and
\* then its block too.
LEMMA DropRefsKeeps ==
    ASSUME Inv, NEW r \in Run, NEW K \in SUBSET Key, DropRefs(r, K), UNCHANGED calls
    PROVE  /\ blocks' \in [Key -> Block \cup {NoBlock}] /\ shm' \subseteq shm
           /\ \A k \in Key : Kept(k)'
           /\ \A k \in Key : \A q \in Run : q # r => blocks'[k].refs[q] = blocks[k].refs[q]
           /\ \A k \in Key : blocks'[k].shm \in {blocks[k].shm, NoSegment}
           /\ \A k \in Key : \A q \in Run : q # r /\ blocks[k].refs[q] = 1 =>
                 blocks'[k].shm = blocks[k].shm
           /\ \A k \in K : blocks'[k].refs[r] = 0
           /\ \A k \in Key : k \notin K => blocks'[k] = blocks[k]
           /\ \A s \in shm' : \A k \in Key : blocks[k].shm = s => blocks'[k].shm = s
           /\ \A s \in shm : s \notin shm' =>
                 \E k \in K : /\ blocks[k].shm = s
                              /\ \A q \in Run : q # r => blocks[k].refs[q] = 0
<1>1. /\ blocks' = Dropped(r, K)
      /\ shm' = shm \ Freed(r, K)
  BY DEF DropRefs, UnlinkShm
<1>2. \A k \in Key :
           \/ (k \notin K \/ blocks[k] = NoBlock) /\ blocks'[k] = blocks[k]
           \/ /\ k \in K /\ blocks[k] # NoBlock /\ blocks'[k] = NoBlock
              /\ \A q \in Run : q # r => blocks[k].refs[q] = 0
           \/ /\ k \in K /\ blocks[k] # NoBlock /\ blocks'[k] # NoBlock
              /\ blocks'[k] \in Block /\ blocks'[k].shm = blocks[k].shm
              /\ blocks'[k].refs[r] = 0
              /\ \A q \in Run : q # r => blocks'[k].refs[q] = blocks[k].refs[q]
              /\ \E q \in Run : blocks'[k].refs[q] = 1
  BY <1>1, DroppedBlock
<1>3. \A q \in Run : NoBlock.refs[q] = 0
  BY DEF NoBlock
<1>4. NoBlock.shm = NoSegment /\ NoSegment \notin Segment
  BY NoSegmentIsNone DEF NoBlock
<1>5. \A k \in Key : /\ blocks[k] \in Block \cup {NoBlock}
                     /\ blocks[k] # NoBlock => blocks[k].shm \in Segment
  BY DEF Inv, TypeOK, Block
<1>6. blocks' \in [Key -> Block \cup {NoBlock}]
  <2>1. blocks' = [k \in Key |-> blocks'[k]]
    BY <1>1 DEF Dropped
  <2>2. \A k \in Key : blocks'[k] \in Block \cup {NoBlock}
    BY <1>2, <1>5
  <2> QED  BY <2>1, <2>2
<1>7. \A k \in Key : blocks'[k].shm \in {blocks[k].shm, NoSegment}
  BY <1>2, <1>4
<1>8. \A k \in Key : \A q \in Run : q # r => blocks'[k].refs[q] = blocks[k].refs[q]
  BY <1>2, <1>3
<1>9. \A k \in Key : \A q \in Run : q # r /\ blocks[k].refs[q] = 1 =>
         blocks'[k].shm = blocks[k].shm
  BY <1>2
<1>10. \A k \in K : blocks'[k].refs[r] = 0
  BY <1>2, <1>3
<1>11. \A k \in Key : k \notin K => blocks'[k] = blocks[k]
  BY <1>2
<1>12. \A s \in shm' : \A k \in Key : blocks[k].shm = s => blocks'[k].shm = s
  <2> SUFFICES ASSUME NEW k \in Key, blocks'[k].shm # blocks[k].shm
               PROVE  blocks[k].shm \in Freed(r, K)
    BY <1>1
  <2>1. k \in K /\ blocks[k] # NoBlock /\ Dropped(r, K)[k] = NoBlock
    BY <1>1, <1>2
  <2> QED  BY <2>1 DEF Freed
<1>13. \A s \in shm : s \notin shm' =>
          \E k \in K : /\ blocks[k].shm = s
                       /\ \A q \in Run : q # r => blocks[k].refs[q] = 0
  <2> SUFFICES ASSUME NEW s \in Freed(r, K)
               PROVE  \E k \in K : /\ blocks[k].shm = s
                                   /\ \A q \in Run : q # r => blocks[k].refs[q] = 0
    BY <1>1
  <2>1. PICK k \in K : blocks[k].shm = s /\ blocks[k] # NoBlock /\ Dropped(r, K)[k] = NoBlock
    BY DEF Freed
  <2> QED  BY <1>1, <1>2, <2>1
<1>14. \A k \in Key : Kept(k)'
  <2> SUFFICES ASSUME NEW k \in Key PROVE Kept(k)'
    OBVIOUS
  <2>1. \A q \in Run : blocks[k].refs[q] \in {0, 1}
    BY DEF Inv, Kept
  <2>2. \A q \in Run : blocks'[k].refs[q] \in {0, 1}
    BY <1>2, <1>3, <2>1
  <2>3. ASSUME blocks'[k] # NoBlock
        PROVE  /\ blocks[k] # NoBlock /\ blocks'[k].shm = blocks[k].shm
               /\ \E q \in Run : blocks'[k].refs[q] = 1
    BY <1>2, <2>3 DEF Inv, Kept
  <2>4. ASSUME blocks'[k] # NoBlock, NEW j \in Key, blocks'[j].shm = blocks'[k].shm
        PROVE  j = k
    <3>1. blocks[j].shm = blocks[k].shm
      BY <1>4, <1>5, <1>7, <2>3, <2>4
    <3> QED  BY <2>3, <2>4, <3>1 DEF Inv, Kept
  <2>5. blocks'[k] # NoBlock => blocks'[k].shm.n <= calls'[blocks'[k].shm.run]
    BY <2>3 DEF Inv, Kept
  <2> QED  BY <2>2, <2>3, <2>4, <2>5 DEF Kept
<1> QED
  BY <1>1, <1>6, <1>7, <1>8, <1>9, <1>10, <1>11, <1>12, <1>13, <1>14

\* Dropping references does not touch the segment of a run that uses one.
LEMMA DropRefsSpares ==
    ASSUME Inv, NEW r \in Run, NEW K \in SUBSET Key, DropRefs(r, K), UNCHANGED calls
    PROVE  /\ \A q \in Run : q # r /\ Making(q) => call[q].shm \in shm'
           /\ \A q \in Run : q # r => \A k \in owned[q] : handle[q][k] \in shm'
           /\ Making(r) /\ reply[r] = NoReply => call[r].shm \in shm'
           /\ \A k \in owned[r] : k \notin K => handle[r][k] \in shm'
<1> USE DEF Inv, Fine
<1>1. \A s \in shm : s \notin shm' =>
         \E k \in K : /\ blocks[k].shm = s
                      /\ \A q \in Run : q # r => blocks[k].refs[q] = 0
  BY DropRefsKeeps
<1>2. ASSUME NEW q \in Run, q # r, Making(q) PROVE call[q].shm \in shm'
  <2> SUFFICES ASSUME NEW k \in Key, blocks[k].shm = call[q].shm
               PROVE  \E p \in Run : p # r /\ blocks[k].refs[p] # 0
    BY <1>1, <1>2 DEF Made
  <2>1. Replied(q) /\ reply[q].ok
    BY <1>2 DEF Made, Making, Replied
  <2>2. /\ call[q].op = "create" /\ call[q].key \in Key
        /\ call[q].shm \in Segment
    BY <1>2 DEF Making, Ordered, Request, Named
  <2>3. blocks[call[q].key].shm = call[q].shm /\ blocks[call[q].key].refs[q] = 1
    BY <2>1, <2>2 DEF Promised
  <2>4. blocks[k] # NoBlock
    BY <2>2, NoSegmentIsNone DEF NoBlock
  <2>5. k = call[q].key
    BY <2>2, <2>3, <2>4 DEF Kept
  <2> QED  BY <1>2, <2>3, <2>5
<1>3. ASSUME NEW q \in Run, NEW k \in owned[q], q # r \/ k \notin K
      PROVE  handle[q][k] \in shm'
  <2>1. k \in Key /\ handle[q][k] \in Segment /\ handle[q][k] \in shm
    BY OwnersDiffer DEF Owned
  <2>2. blocks[k].shm = handle[q][k] /\ blocks[k].refs[q] = 1 /\ blocks[k] # NoBlock
    BY <2>1, NoSegmentIsNone DEF Pinned, NoBlock
  <2> SUFFICES ASSUME NEW j \in K, blocks[j].shm = handle[q][k]
               PROVE  \E p \in Run : p # r /\ blocks[j].refs[p] # 0
    BY <1>1, <2>1
  <2>3. j = k
    <3>1. j \in Key /\ k \in Key /\ Kept(k)
      BY <2>1
    <3> QED  BY <2>2, <3>1 DEF Kept
  <2> QED  BY <1>3, <2>2, <2>3
<1>4. Making(r) /\ reply[r] = NoReply => call[r].shm \in shm'
  BY <1>1 DEF Made
<1> QED  BY <1>2, <1>3, <1>4

LEMMA ExecReleaseStep ==
    ASSUME Inv, NEW r \in Run, ExecRelease(r)
    PROVE  Inv'
<1> USE DEF Inv, Fine
<1>1. PICK m : m = Head(wire[r])
  OBVIOUS
<1>2. /\ exec[r] = "recv" /\ wire[r] # <<>> /\ m.op = "release"
      /\ wire' = [wire EXCEPT ![r] = Tail(@)]
      /\ UNCHANGED <<py, call, calls, handle, owned, cancelEvent, reply, exec, waiter, drain>>
  BY <1>1 DEF ExecRelease, Received, scriptVars, waiterVars
<1>3. /\ wire' \in [Run -> Seq(Request)] /\ m \in Request
      /\ \A q \in Run : q # r => wire'[q] = wire[q]
      /\ 1 \in 1..Len(wire[r]) /\ wire[r][1] = m
      /\ \A i \in 1..Len(wire'[r]) :
            /\ i + 1 \in 1..Len(wire[r]) /\ wire'[r][i] = wire[r][i + 1]
            /\ i + 1 = Len(wire[r]) => i = Len(wire'[r])
  BY <1>1, <1>2, RequestTaken
<1>4. PICK k \in Key : k = m.key
  BY <1>3 DEF Request
<1>5. DropRefs(r, {k}) /\ {k} \in SUBSET Key
  BY <1>1, <1>4 DEF ExecRelease
<1>6. /\ blocks' \in [Key -> Block \cup {NoBlock}] /\ shm' \subseteq shm
      /\ \A j \in Key : Kept(j)'
      /\ \A j \in Key : \A q \in Run : q # r => blocks'[j].refs[q] = blocks[j].refs[q]
      /\ \A j \in Key : blocks'[j].shm \in {blocks[j].shm, NoSegment}
      /\ \A j \in Key : \A q \in Run : q # r /\ blocks[j].refs[q] = 1 =>
            blocks'[j].shm = blocks[j].shm
      /\ \A j \in Key : j # k => blocks'[j] = blocks[j]
      /\ \A s \in shm' : \A j \in Key : blocks[j].shm = s => blocks'[j].shm = s
  BY <1>2, <1>5, DropRefsKeeps
<1>7. /\ \A q \in Run : q # r /\ Making(q) => call[q].shm \in shm'
      /\ \A q \in Run : q # r => \A j \in owned[q] : handle[q][j] \in shm'
      /\ Making(r) /\ reply[r] = NoReply => call[r].shm \in shm'
      /\ \A j \in owned[r] : j # k => handle[r][j] \in shm'
  BY <1>2, <1>5, DropRefsSpares
<1>8. TypeOK'
  BY <1>2, <1>3, <1>6 DEF TypeOK
<1>9. ASSUME NEW q \in Run, q # r PROVE Fine(q)'
  <2>1. Same(q)  BY <1>2, <1>3, <1>9 DEF Same
  <2> QED  BY <1>6, <1>7, <1>9, <2>1, OthersKeep
<1>10. wire[r] # <<>> => ~Replied(r)
  BY DEF Ordered
<1>11. Ordered(r)'
  <2>1. \A i \in 1..Len(wire'[r]) : wire'[r][i].op # "release" =>
           i = Len(wire'[r]) /\ wire'[r][i] = call[r] /\ py[r] # "running"
    BY <1>3 DEF Ordered
  <2> QED  BY <1>2, <1>10, <2>1 DEF Ordered, Replied
<1>12. Over(r)' /\ Named(r)' /\ Promised(r)'
  BY <1>2, <1>10 DEF Over, Gone, Named, Promised, Replied
<1>13. handle[r][k] = NoSegment
  BY <1>2, <1>3, <1>4 DEF Pinned
<1>14. \A i \in 1..Len(wire'[r]) : wire'[r][i].op = "create" => call[r].op = "create"
  BY <1>3 DEF Ordered
<1>15. Made(r)'
  <2>1. \A j \in Key : call[r].op = "create" /\ blocks[j].shm # call[r].shm =>
           blocks'[j].shm # call[r].shm
    BY <1>6, NoSegmentIsNone DEF Named
  <2>2. Making(r) => call[r].op = "create" /\ reply[r] = NoReply
    BY <1>2, <1>10 DEF Making, Replied
  <2>3. Making(r)' = Making(r)
    BY <1>2 DEF Making
  <2>4. \A i \in 1..Len(wire'[r]) : wire'[r][i].op = "create" =>
           \A j \in Key : blocks'[j].shm # call[r].shm
    BY <1>3, <1>14, <2>1 DEF Made
  <2>5. Making(r) => \A j \in Key : blocks'[j].shm # call[r].shm /\ handle[r][j] # call[r].shm
    BY <2>1, <2>2 DEF Made
  <2> QED  BY <1>2, <1>7, <2>2, <2>3, <2>4, <2>5 DEF Made
<1>16. Pinned(r)'
  <2> SUFFICES ASSUME NEW j \in Key, handle[r][j] # NoSegment
               PROVE  /\ blocks'[j].shm = handle[r][j] /\ blocks'[j].refs[r] = 1
                      /\ \A i \in 1..Len(wire'[r]) :
                            wire'[r][i].op = "release" => wire'[r][i].key # j
    BY <1>2 DEF Pinned
  <2>1. j # k
    BY <1>13
  <2>2. blocks'[j] = blocks[j]
    BY <1>6, <2>1
  <2>3. /\ blocks[j].shm = handle[r][j] /\ blocks[j].refs[r] = 1
        /\ \A i \in 1..Len(wire[r]) : wire[r][i].op = "release" => wire[r][i].key # j
    BY DEF Pinned
  <2>4. \A i \in 1..Len(wire'[r]) : wire'[r][i].op = "release" => wire'[r][i].key # j
    BY <1>3, <2>3
  <2> QED  BY <2>2, <2>3, <2>4
<1>17. Owned(r)'
  <2>1. \A j \in owned[r] : j # k
    BY <1>13, OwnersDiffer, NoSegmentIsNone
  <2> QED  BY <1>2, <1>7, <2>1 DEF Owned
<1>18. Accounted'
  BY <1>2, <1>6 DEF Accounted
<1> QED
  BY <1>6, <1>8, <1>9, <1>11, <1>12, <1>15, <1>16, <1>17, <1>18

LEMMA CleanupRunStep ==
    ASSUME Inv, NEW r \in Run, CleanupRun(r)
    PROVE  Inv'
<1> USE DEF Inv, Fine
<1>1. /\ waiter[r] = "cleanup" /\ waiter' = [waiter EXCEPT ![r] = "done"]
      /\ UNCHANGED <<py, call, calls, handle, owned, cancelEvent, wire, reply, exec, drain>>
  BY DEF CleanupRun, scriptVars, streamVars
<1>2. /\ Gone(r) /\ py[r] \notin {"running", "waiting"} /\ owned[r] = {}
      /\ \A k \in Key : handle[r][k] = NoSegment
  BY <1>1 DEF Over, Gone
<1>3. DropRefs(r, Key) /\ Key \in SUBSET Key
  BY DEF CleanupRun
<1>4. /\ blocks' \in [Key -> Block \cup {NoBlock}] /\ shm' \subseteq shm
      /\ \A j \in Key : Kept(j)'
      /\ \A j \in Key : \A q \in Run : q # r => blocks'[j].refs[q] = blocks[j].refs[q]
      /\ \A j \in Key : blocks'[j].shm \in {blocks[j].shm, NoSegment}
      /\ \A j \in Key : \A q \in Run : q # r /\ blocks[j].refs[q] = 1 =>
            blocks'[j].shm = blocks[j].shm
      /\ \A j \in Key : blocks'[j].refs[r] = 0
      /\ \A s \in shm' : \A j \in Key : blocks[j].shm = s => blocks'[j].shm = s
  BY <1>1, <1>3, DropRefsKeeps
<1>5. /\ \A q \in Run : q # r /\ Making(q) => call[q].shm \in shm'
      /\ \A q \in Run : q # r => \A j \in owned[q] : handle[q][j] \in shm'
  BY <1>1, <1>3, DropRefsSpares
<1>6. TypeOK'
  BY <1>1, <1>4 DEF TypeOK
<1>7. ASSUME NEW q \in Run, q # r PROVE Fine(q)'
  <2>1. Same(q)  BY <1>1, <1>7 DEF Same, TypeOK
  <2> QED  BY <1>4, <1>5, <1>7, <2>1, OthersKeep
<1>8. Ordered(r)' /\ Named(r)' /\ Promised(r)' /\ Pinned(r)' /\ Owned(r)'
  BY <1>1, <1>2 DEF Ordered, Named, Promised, Replied, Pinned, Owned
<1>9. Over(r)'
  BY <1>1, <1>2, <1>4 DEF Over, Gone
<1>10. Made(r)'
  <2>1. \A j \in Key : call[r].op = "create" /\ blocks[j].shm # call[r].shm =>
           blocks'[j].shm # call[r].shm
    BY <1>4, NoSegmentIsNone DEF Named
  <2>2. \A i \in 1..Len(wire[r]) : wire[r][i].op = "create" => call[r].op = "create"
    BY DEF Ordered
  <2>3. \A i \in 1..Len(wire[r]) : wire[r][i].op = "create" =>
           \A j \in Key : blocks'[j].shm # call[r].shm
    BY <2>1, <2>2 DEF Made
  <2> QED  BY <1>1, <1>2, <2>3 DEF Made, Making
<1>11. Accounted'
  BY <1>1, <1>4 DEF Accounted
<1> QED  BY <1>4, <1>6, <1>7, <1>8, <1>9, <1>10, <1>11

LEMMA ExecCreateStep ==
    ASSUME Inv, NEW r \in Run, ExecCreate(r)
    PROVE  Inv'
<1> USE DEF Inv, Fine
<1>1. PICK m : m = Head(wire[r])
  OBVIOUS
<1>2. /\ exec[r] = "recv" /\ wire[r] # <<>> /\ m.op = "create"
      /\ wire' = [wire EXCEPT ![r] = Tail(@)]
      /\ UNCHANGED <<shm, py, call, calls, handle, owned, cancelEvent, exec, waiter, drain>>
  BY <1>1 DEF ExecCreate, Received, scriptVars, waiterVars
<1>3. /\ wire' \in [Run -> Seq(Request)] /\ m \in Request
      /\ \A q \in Run : q # r => wire'[q] = wire[q]
      /\ 1 \in 1..Len(wire[r]) /\ wire[r][1] = m
  BY <1>1, <1>2, RequestTaken
<1>4. wire'[r] = <<>> /\ m = call[r] /\ py[r] # "running"
  BY <1>1, <1>2, RequestTaken
<1>5. PICK k, s : k = m.key /\ s = m.shm
  OBVIOUS
<1>6. /\ k \in Key /\ s \in Segment /\ s.run = r /\ s.n <= calls[r]
      /\ \A j \in Key : blocks[j].shm # s
  BY <1>2, <1>3, <1>4, <1>5 DEF Request, Named, Made
<1>7. PICK yes \in BOOLEAN : yes = (blocks[k] = NoBlock)
  OBVIOUS
<1>8. reply' = [reply EXCEPT ![r] = IF py[r] = "waiting" THEN [ok |-> yes, shm |-> s] ELSE @]
  BY <1>1, <1>5, <1>7 DEF ExecCreate, Answer, KeyTaken
<1>9. /\ reply' \in [Run -> Reply \cup {NoReply}]
      /\ \A q \in Run : q # r => reply'[q] = reply[q]
      /\ py[r] = "waiting" => reply'[r] \in Reply /\ reply'[r].ok = yes /\ reply'[r].shm = s
  <2>1. [ok |-> yes, shm |-> s] \in Reply
    BY <1>6 DEF Reply
  <2> QED  BY <1>8, <2>1 DEF TypeOK
<1>10. Ordered(r)'
  BY <1>2, <1>4, <1>9 DEF Ordered, Replied
<1>11. Over(r)'
  BY <1>2, <1>4 DEF Over, Gone
<1>12. Named(r)'
  BY <1>2 DEF Named
<1>13. Owned(r)'
  BY <1>2 DEF Owned
<1>14. Making(r)' = Making(r) /\ (Making(r) => call[r].shm = s)
  BY <1>2, <1>4, <1>5 DEF Making
<1>15. Making(r) => call[r].shm \in shm /\ \A j \in Key : handle[r][j] # call[r].shm
  BY DEF Made
<1>16. \A i \in 1..Len(wire'[r]) : FALSE
  BY <1>4
<1>17. CASE ~yes
  <2>1. blocks' = blocks
    BY <1>1, <1>5, <1>7, <1>17 DEF ExecCreate, KeyTaken
  <2>2. TypeOK' /\ \A j \in Key : Kept(j)'
    <3>1. TypeOK'  BY <1>2, <1>3, <1>9, <2>1 DEF TypeOK
    <3> QED  BY <1>2, <2>1, <3>1, KeptStays DEF TypeOK
  <2>3. ASSUME NEW q \in Run, q # r PROVE Fine(q)'
    <3>1. Same(q)  BY <1>2, <1>3, <1>9, <2>3 DEF Same
    <3> QED  BY <1>2, <2>1, <3>1, OthersStay DEF Made, Owned
  <2>4. Made(r)'
    BY <1>2, <1>6, <1>14, <1>15, <1>16, <2>1 DEF Made
  <2>5. Promised(r)' /\ Pinned(r)'
    BY <1>2, <1>9, <1>16, <1>17, <2>1 DEF Promised, Replied, Pinned
  <2>6. Accounted'
    BY <1>2, <2>1 DEF Accounted
  <2> QED  BY <1>10, <1>11, <1>12, <1>13, <2>2, <2>3, <2>4, <2>5, <2>6
<1>18. CASE yes
  <2>1. PICK b : b = [shm |-> s, refs |-> AddRef(NoBlock.refs, r)]
    OBVIOUS
  <2>2. blocks' = [blocks EXCEPT ![k] = b] /\ blocks[k] = NoBlock
    BY <1>1, <1>5, <1>7, <1>18, <2>1 DEF ExecCreate, KeyTaken
  <2>3. /\ b \in Block /\ b.shm = s /\ b.refs[r] = 1
        /\ \A q \in Run : q # r => b.refs[q] = 0
    BY <1>6, <2>1 DEF Block, NoBlock, AddRef
  <2>4. /\ blocks'[k] = b /\ \A j \in Key : j # k => blocks'[j] = blocks[j]
        /\ blocks[k].shm = NoSegment /\ \A q \in Run : blocks[k].refs[q] = 0
    BY <1>6, <2>2 DEF TypeOK, NoBlock
  <2>5. TypeOK'
    <3>1. blocks' \in [Key -> Block \cup {NoBlock}]
      BY <1>6, <2>2, <2>3 DEF TypeOK
    <3> QED  BY <1>2, <1>3, <1>9, <3>1 DEF TypeOK
  <2>6. ASSUME NEW j \in Key PROVE Kept(j)'
    <3>1. CASE j = k
      <4>1. \A q \in Run : b.refs[q] \in {0, 1}
        BY <2>3
      <4>2. \A i \in Key : blocks'[i].shm = s => i = k
        BY <1>6, <2>4
      <4> QED  BY <1>2, <1>6, <2>3, <2>4, <3>1, <4>1, <4>2 DEF Kept
    <3>2. CASE j # k
      <4>1. blocks'[j] = blocks[j] /\ Kept(j)
        BY <2>4, <3>2
      <4>2. blocks[j] # NoBlock => \A i \in Key : blocks'[i].shm = blocks[j].shm => i = j
        BY <1>6, <2>3, <2>4, <4>1 DEF Kept
      <4> QED  BY <1>2, <4>1, <4>2 DEF Kept
    <3> QED  BY <3>1, <3>2
  <2>7. ASSUME NEW q \in Run, q # r PROVE Fine(q)'
    <3>1. Same(q)  BY <1>2, <1>3, <1>9, <2>7 DEF Same
    <3>2. \A j \in Key : /\ blocks'[j].refs[q] = blocks[j].refs[q]
                         /\ blocks[j].refs[q] = 1 => blocks'[j].shm = blocks[j].shm
                         /\ \/ blocks'[j].shm \in {blocks[j].shm, NoSegment}
                            \/ blocks'[j].shm.run = r
      BY <1>6, <2>3, <2>4, <2>7
    <3>3. Making(q) => call[q].shm \in shm'
      BY <1>2 DEF Made
    <3>4. \A j \in owned[q] : handle[q][j] \in shm'
      BY <1>2 DEF Owned
    <3> QED  BY <2>7, <3>1, <3>2, <3>3, <3>4, OthersKeep
  <2>8. Made(r)'
    <3>1. Making(r)' => reply'[r].ok /\ reply'[r] # NoReply
      BY <1>2, <1>9, <1>18, ReplyIsSome DEF Making
    <3> QED  BY <1>2, <1>14, <1>15, <1>16, <3>1 DEF Made
  <2>9. Promised(r)'
    BY <1>2, <1>4, <1>5, <1>9, <2>3, <2>4 DEF Promised, Replied
  <2>10. Pinned(r)'
    <3> SUFFICES ASSUME NEW j \in Key, handle[r][j] # NoSegment
                 PROVE  /\ blocks'[j].shm = handle[r][j] /\ blocks'[j].refs[r] = 1
                        /\ \A i \in 1..Len(wire'[r]) :
                              wire'[r][i].op = "release" => wire'[r][i].key # j
      BY <1>2 DEF Pinned
    <3>1. blocks[j].shm = handle[r][j] /\ blocks[j].refs[r] = 1
      BY DEF Pinned
    <3>2. j # k
      BY <2>4, <3>1
    <3>3. blocks'[j] = blocks[j]
      BY <2>4, <3>2
    <3> QED  BY <1>16, <3>1, <3>3
  <2>11. Accounted'
    <3>1. \A t \in shm : t # NoSegment
      BY NoSegmentIsNone DEF TypeOK
    <3> QED  BY <1>2, <2>4, <3>1 DEF Accounted
  <2> QED  BY <1>10, <1>11, <1>12, <1>13, <2>5, <2>6, <2>7, <2>8, <2>9, <2>10, <2>11
<1> QED  BY <1>17, <1>18

LEMMA ExecLookupStep ==
    ASSUME Inv, NEW r \in Run, ExecLookup(r)
    PROVE  Inv'
<1> USE DEF Inv, Fine
<1>1. PICK m : m = Head(wire[r])
  OBVIOUS
<1>2. /\ exec[r] = "recv" /\ wire[r] # <<>> /\ m.op = "lookup"
      /\ wire' = [wire EXCEPT ![r] = Tail(@)]
      /\ UNCHANGED <<shm, py, call, calls, handle, owned, cancelEvent, exec, waiter, drain>>
  BY <1>1 DEF ExecLookup, Received, scriptVars, waiterVars
<1>3. /\ wire' \in [Run -> Seq(Request)] /\ m \in Request
      /\ \A q \in Run : q # r => wire'[q] = wire[q]
  BY <1>1, <1>2, RequestTaken
<1>4. wire'[r] = <<>> /\ m = call[r] /\ py[r] # "running"
  BY <1>1, <1>2, RequestTaken
<1>5. PICK k, s : k = m.key /\ s = blocks[k].shm
  OBVIOUS
<1>6. k \in Key /\ s \in Segment \cup {NoSegment}
  BY <1>3, <1>5, BlockHasSegment DEF Request
<1>7. PICK yes \in BOOLEAN : yes = (blocks[k] # NoBlock)
  OBVIOUS
<1>8. reply' = [reply EXCEPT ![r] = IF py[r] = "waiting" THEN [ok |-> yes, shm |-> s] ELSE @]
  BY <1>1, <1>5, <1>7 DEF ExecLookup, Answer
<1>9. /\ reply' \in [Run -> Reply \cup {NoReply}]
      /\ \A q \in Run : q # r => reply'[q] = reply[q]
      /\ py[r] = "waiting" => reply'[r] \in Reply /\ reply'[r].ok = yes /\ reply'[r].shm = s
  <2>1. [ok |-> yes, shm |-> s] \in Reply
    BY <1>6 DEF Reply
  <2> QED  BY <1>8, <2>1 DEF TypeOK
<1>10. \A j \in Key : /\ \/ blocks'[j] = blocks[j]
                         \/ /\ blocks[j] # NoBlock /\ blocks'[j] \in Block
                            /\ blocks'[j].refs[r] = 1
                      /\ blocks'[j].shm = blocks[j].shm
                      /\ \A q \in Run : q # r => blocks'[j].refs[q] = blocks[j].refs[q]
                      /\ j = k /\ yes => blocks'[j].refs[r] = 1
  <2>1. CASE ~yes
    <3>1. blocks' = blocks
      BY <1>1, <1>5, <1>7, <2>1 DEF ExecLookup
    <3> QED  BY <2>1, <3>1
  <2>2. CASE yes
    <3>1. blocks' = [blocks EXCEPT ![k].refs = AddRef(@, r)] /\ blocks[k] \in Block
      BY <1>1, <1>5, <1>6, <1>7, <2>2 DEF ExecLookup, TypeOK
    <3>2. PICK refs : refs = AddRef(blocks[k].refs, r)
      OBVIOUS
    <3>3. blocks[k].refs[r] \in {0, 1} /\ blocks[k].refs \in [Run -> Nat]
      BY <1>6, <3>1 DEF Kept, Block
    <3>4. /\ refs \in [Run -> Nat] /\ refs[r] = 1
          /\ \A q \in Run : q # r => refs[q] = blocks[k].refs[q]
      BY <3>2, <3>3 DEF AddRef
    <3>5. /\ blocks'[k] = [blocks[k] EXCEPT !.refs = refs]
          /\ \A j \in Key : j # k => blocks'[j] = blocks[j]
      BY <1>6, <3>1, <3>2 DEF TypeOK
    <3>6. blocks'[k] \in Block /\ blocks'[k].shm = blocks[k].shm /\ blocks'[k].refs = refs
      BY <3>1, <3>4, <3>5 DEF Block
    <3> QED  BY <1>7, <2>2, <3>4, <3>5, <3>6
  <2> QED  BY <2>1, <2>2
<1>11. TypeOK'
  <2>1. blocks' \in [Key -> Block \cup {NoBlock}]
    <3>1. blocks' = [j \in Key |-> blocks'[j]]
      BY <1>1 DEF ExecLookup, TypeOK
    <3>2. \A j \in Key : blocks'[j] \in Block \cup {NoBlock}
      BY <1>10 DEF TypeOK
    <3> QED  BY <3>1, <3>2
  <2> QED  BY <1>2, <1>3, <1>9, <2>1 DEF TypeOK
<1>12. ASSUME NEW j \in Key PROVE Kept(j)'
  <2>1. \A q \in Run : blocks'[j].refs[q] \in {0, 1}
    <3> SUFFICES ASSUME NEW q \in Run PROVE blocks'[j].refs[q] \in {0, 1}
      OBVIOUS
    <3> QED  BY <1>10 DEF Kept
  <2>2. blocks'[j] # NoBlock => blocks[j] # NoBlock
    BY <1>10
  <2>3. blocks[j] # NoBlock => \E q \in Run : blocks'[j].refs[q] = 1
    BY <1>10 DEF Kept
  <2> QED  BY <1>2, <1>10, <2>1, <2>2, <2>3 DEF Kept
<1>13. ASSUME NEW q \in Run, q # r PROVE Fine(q)'
  <2>1. Same(q)  BY <1>2, <1>3, <1>9, <1>13 DEF Same
  <2>2. Making(q) => call[q].shm \in shm'
    BY <1>2 DEF Made
  <2>3. \A j \in owned[q] : handle[q][j] \in shm'
    BY <1>2 DEF Owned
  <2> QED  BY <1>10, <1>13, <2>1, <2>2, <2>3, OthersKeep
<1>14. Ordered(r)'
  BY <1>2, <1>4, <1>9 DEF Ordered, Replied
<1>15. Over(r)' /\ Named(r)' /\ Owned(r)'
  BY <1>2, <1>4 DEF Over, Gone, Named, Owned
<1>16. Made(r)'
  BY <1>2, <1>4 DEF Made, Making
<1>17. Promised(r)'
  BY <1>2, <1>4, <1>5, <1>6, <1>9, <1>10 DEF Promised, Replied
<1>18. Pinned(r)'
  BY <1>2, <1>4, <1>10 DEF Pinned
<1>19. Accounted'
  BY <1>2, <1>10 DEF Accounted
<1> QED
  BY <1>11, <1>12, <1>13, <1>14, <1>15, <1>16, <1>17, <1>18, <1>19

LEMMA ExecEndStep ==
    ASSUME Inv, NEW r \in Run, ExecEnd(r)
    PROVE  Inv'
<1> USE DEF Inv, Fine
<1>1. /\ wire[r] = <<>> /\ Gone(r)
      /\ exec' = [exec EXCEPT ![r] = "done"]
      /\ UNCHANGED <<blocks, shm, py, call, calls, handle, owned, cancelEvent, wire, reply,
                     waiter, drain>>
  BY DEF ExecEnd, Gone, registryVars, scriptVars, waiterVars
<1>2. TypeOK' /\ \A k \in Key : Kept(k)'
  <2>1. TypeOK'  BY <1>1 DEF TypeOK
  <2> QED  BY <1>1, <2>1, KeptStays DEF TypeOK
<1>3. ASSUME NEW q \in Run, q # r PROVE Fine(q)'
  <2>1. Same(q)  BY <1>1, <1>3 DEF Same, TypeOK
  <2> QED  BY <1>1, <2>1, OthersStay DEF Made, Owned
<1>4. exec'[r] = "done"
  BY <1>1 DEF TypeOK
<1>5. Fine(r)'
  BY <1>1, <1>4 DEF Ordered, Over, Gone, Named, Made, Making, Promised, Replied, Pinned, Owned
<1>6. Accounted'
  BY <1>1 DEF Accounted
<1> QED  BY <1>2, <1>3, <1>5, <1>6

LEMMA WaiterDrainStep ==
    ASSUME Inv, NEW r \in Run, WaiterDrain(r)
    PROVE  Inv'
<1> USE DEF Inv, Fine
<1>1. /\ Gone(r)
      /\ waiter' = [waiter EXCEPT ![r] = "cleanup"]
      /\ UNCHANGED <<blocks, shm, py, call, calls, handle, owned, cancelEvent, wire, reply, exec>>
  BY DEF WaiterDrain, Gone, registryVars, scriptVars, streamVars
<1>2. PICK d \in {"timeout", "eof"} :
         drain' = [drain EXCEPT ![r] = d] /\ (d = "eof" => exec[r] = "done")
  BY DEF WaiterDrain
<1>3. /\ waiter'[r] = "cleanup" /\ drain'[r] = d
      /\ \A q \in Run : q # r => waiter'[q] = waiter[q] /\ drain'[q] = drain[q]
  BY <1>1, <1>2 DEF TypeOK
<1>4. TypeOK' /\ \A k \in Key : Kept(k)'
  <2>1. TypeOK'  BY <1>1, <1>2 DEF TypeOK
  <2> QED  BY <1>1, <2>1, KeptStays DEF TypeOK
<1>5. ASSUME NEW q \in Run, q # r PROVE Fine(q)'
  <2>1. Same(q)  BY <1>1, <1>3, <1>5 DEF Same
  <2> QED  BY <1>1, <2>1, OthersStay DEF Made, Owned
<1>6. Over(r)'
  BY <1>1, <1>2, <1>3 DEF Over, Gone
<1>7. Fine(r)'
  BY <1>1, <1>6 DEF Ordered, Named, Made, Making, Promised, Replied, Pinned, Owned
<1>8. Accounted'
  BY <1>1 DEF Accounted
<1> QED  BY <1>4, <1>5, <1>7, <1>8

-----------------------------------------------------------------------------
(* The invariant *)

LEMMA InvInit == Init => Inv
<1> SUFFICES ASSUME Init PROVE Inv
  OBVIOUS
<1> USE MaxCallsAssumption
<1>1. TypeOK
  BY DEF Init, TypeOK
<1>2. \A k \in Key : Kept(k)
  BY DEF Init, Kept, NoBlock
<1>3. ASSUME NEW r \in Run PROVE Fine(r)
  <2>1. wire[r] = <<>> /\ Len(wire[r]) = 0 /\ py[r] = "running" /\ reply[r] = NoReply
    BY DEF Init
  <2>2. Ordered(r) /\ Promised(r)
    BY <2>1 DEF Ordered, Promised, Replied
  <2>3. Over(r)
    BY DEF Init, Over, Gone
  <2>4. Named(r)
    BY DEF Init, Named, NoRequest
  <2>5. Made(r)
    BY <2>1 DEF Made, Making
  <2>6. Pinned(r) /\ Owned(r)
    BY DEF Init, Pinned, Owned
  <2> QED  BY <2>2, <2>3, <2>4, <2>5, <2>6 DEF Fine
<1>4. Accounted
  BY DEF Init, Accounted
<1> QED  BY <1>1, <1>2, <1>3, <1>4 DEF Inv

LEMMA InvNext == Inv /\ [Next]_vars => Inv'
<1> SUFFICES ASSUME Inv, [Next]_vars PROVE Inv'
  OBVIOUS
<1>1. CASE UNCHANGED vars
  <2>1. UNCHANGED <<blocks, shm, py, call, calls, handle, owned, cancelEvent, wire, reply,
                    exec, waiter, drain>>
    BY <1>1 DEF vars, registryVars, scriptVars, streamVars, waiterVars
  <2>2. TypeOK' /\ \A k \in Key : Kept(k)'
    <3>1. TypeOK'  BY <2>1 DEF Inv, TypeOK
    <3> QED  BY <2>1, <3>1, KeptStays DEF TypeOK
  <2>3. ASSUME NEW q \in Run PROVE Fine(q)'
    <3>1. Same(q)  BY <2>1 DEF Same
    <3> QED  BY <2>1, <3>1, OthersStay DEF Inv, Fine, Made, Owned
  <2>4. Accounted'
    BY <2>1 DEF Inv, Accounted
  <2> QED  BY <2>2, <2>3, <2>4 DEF Inv
<1>2. ASSUME NEW r \in Run, NEW k \in Key, CacheSet(r, k) \/ CacheGet(r, k) \/ CacheRelease(r, k)
      PROVE  Inv'
  BY <1>2, CacheSetStep, CacheGetStep, CacheReleaseStep
<1>3. ASSUME NEW r \in Run,
             \/ SetReturns(r) \/ GetReturns(r) \/ GiveUp(r) \/ Cancel(r)
             \/ PyExit(r) \/ PyKilled(r)
      PROVE  Inv'
  BY <1>3, SetReturnsStep, GetReturnsStep, GiveUpStep, CancelStep, PyExitStep, PyKilledStep
<1>4. ASSUME NEW r \in Run,
             \/ ExecCreate(r) \/ ExecLookup(r) \/ ExecRelease(r) \/ ExecEnd(r)
             \/ WaiterDrain(r) \/ CleanupRun(r)
      PROVE  Inv'
  BY <1>4, ExecCreateStep, ExecLookupStep, ExecReleaseStep, ExecEndStep, WaiterDrainStep,
     CleanupRunStep
<1> QED  BY <1>1, <1>2, <1>3, <1>4 DEF Next, AllEnded

LEMMA Invariance == Spec => []Inv
BY InvInit, InvNext, PTL DEF Spec

-----------------------------------------------------------------------------
(* Theorems *)

\* The state of CacheManager, of the scripts and of their streams keeps its types.
THEOREM TypeCorrect == Spec => []TypeOK
<1>1. Inv => TypeOK
  BY DEF Inv
<1> QED  BY <1>1, Invariance, PTL

\* What a script has mapped through cache_set or cache_get stays registered with its
\* reference (Register, LookupAndRef, Release and CleanupRun of any run).
THEOREM MappedStaysRegistered == Spec => []HandlePinned
<1>1. Inv => HandlePinned
  BY DEF Inv, Fine, Pinned, HandlePinned
<1> QED  BY <1>1, Invariance, PTL

\* No unlinkShm of CacheManager and no unlink of another script takes the segment of a
\* creator that still owns it.
THEOREM OwnedStaysLinked == Spec => []OwnerKeepsSegment
<1>1. Inv => OwnerKeepsSegment
  BY DEF Inv, Fine, Owned, OwnerKeepsSegment
<1> QED  BY <1>1, Invariance, PTL

\* After waitForExit has drained the stream and called CleanupRun, the registry holds
\* nothing of the run, for good.
THEOREM CleanupIsFinal == Spec => []DrainedRunHoldsNothing
<1>1. Inv => DrainedRunHoldsNothing
  BY DEF Inv, Fine, Over, DrainedRunHoldsNothing
<1> QED  BY <1>1, Invariance, PTL

\* Runs that all ended with a drained stream leave no segment behind, but one whose
\* creator was killed between creating it and registering it.
THEOREM SegmentsAreUnlinked == Spec => []NothingLeaks
<1>1. Inv => NothingLeaks
  <2> SUFFICES ASSUME Inv, \A r \in Run : Ended(r) /\ drain[r] = "eof", NEW s \in shm
               PROVE  py[s.run] = "killed" /\ call[s.run].op = "create" /\ call[s.run].shm = s
    BY DEF NothingLeaks
  <2>1. s \in Segment /\ s.run \in Run /\ s # NoSegment
    BY NoSegmentIsNone DEF Inv, TypeOK, Segment
  <2>2. \A k \in Key : blocks[k] = NoBlock
    BY DEF Inv, Fine, Over, Ended, Kept
  <2>3. \A k \in Key : blocks[k].shm # s
    BY <2>1, <2>2 DEF NoBlock
  <2>4. py[s.run] # "waiting"
    BY <2>1 DEF Inv, Fine, Over, Gone, Ended
  <2> QED  BY <2>3, <2>4 DEF Inv, Accounted
<1> QED  BY <1>1, Invariance, PTL

-----------------------------------------------------------------------------
(* SharedObjects is implemented *)

\* The mapping: the object under a key, its users, and the runs that are over.
ObjectOf == [k \in Key |-> blocks[k].shm]
UsersOf  == [k \in Key |-> {q \in Run : blocks[k].refs[q] > 0}]
AllOver  == {q \in Run : waiter[q] = "done" /\ drain[q] = "eof"}

\* As long as the blocks stay, so do the objects and their users.
LEMMA ObjectsStay ==
    ASSUME blocks' = blocks
    PROVE  ObjectOf' = ObjectOf /\ UsersOf' = UsersOf
BY DEF ObjectOf, UsersOf

LEMMA OverStays ==
    ASSUME waiter' = waiter, drain' = drain
    PROVE  AllOver' = AllOver
BY DEF AllOver

\* Who made a segment.
LEMMA MakerIsRun ==
    ASSUME NEW s \in Segment
    PROVE  [t \in Segment |-> t.run][s] = s.run
OBVIOUS

LEMMA SharesInit == Init => Objects!Init
<1> SUFFICES ASSUME Init PROVE Objects!Init
  OBVIOUS
<1>1. ObjectOf = [k \in Key |-> NoSegment]
  BY DEF Init, ObjectOf, NoBlock
<1>2. UsersOf = [k \in Key |-> {}]
  BY DEF Init, UsersOf, NoBlock
<1>3. AllOver = {}
  BY DEF Init, AllOver
<1> QED  BY <1>1, <1>2, <1>3 DEF Init, Objects!Init, ObjectOf, UsersOf, AllOver

\* cache_set makes its segment.
LEMMA SetMakes ==
    ASSUME Inv, NEW r \in Run, NEW k \in Key, CacheSet(r, k)
    PROVE  \E o \in Segment : Objects!Make(r, o)
<1> DEFINE s == [run |-> r, n |-> calls[r] + 1]
<1>1. s \in Segment /\ s.run = r /\ s.n = calls[r] + 1 /\ calls[r] \in Nat
  BY MaxCallsAssumption DEF Inv, TypeOK, CacheSet, Calling, Segment
<1>2. \A q \in Run : call[q].op = "create" => call[q].shm.n <= calls[call[q].shm.run]
  BY DEF Inv, Fine, Named
<1>3. \A j \in Key : blocks[j].shm # s
  BY <1>1, BlockHasSegment, NoSegmentIsNone DEF Inv, Kept
<1>4. s \notin shm
  BY <1>1, <1>2, <1>3 DEF Inv, Accounted
<1>5. \A j \in Key : handle[r][j] # s
  BY <1>1, <1>3, NoSegmentIsNone DEF Inv, Fine, Pinned
<1>6. ObjectOf' = ObjectOf /\ UsersOf' = UsersOf /\ AllOver' = AllOver
  BY ObjectsStay, OverStays DEF CacheSet, waiterVars
<1>7. shm' = shm \cup {s} /\ handle' = handle
  BY DEF CacheSet
<1> HIDE DEF s
<1>8. Objects!Make(r, s)
  BY <1>1, <1>3, <1>4, <1>5, <1>6, <1>7 DEF Objects!Make, ObjectOf, UsersOf, AllOver
<1> QED  BY <1>1, <1>8

\* cache_release and the end of a process unmap, and unlink only what the run has made.
LEMMA HandlesGo ==
    ASSUME Inv, NEW r \in Run, NEW K \in SUBSET Key, NEW O,
           O \subseteq {handle[r][k] : k \in K \cap owned[r]},
           shm' = shm \ O,
           handle' = [handle EXCEPT ![r] = [k \in Key |-> IF k \in K THEN NoSegment ELSE @[k]]],
           blocks' = blocks, UNCHANGED waiterVars
    PROVE  Objects!Unmap(r, K)
<1>1. ObjectOf' = ObjectOf /\ UsersOf' = UsersOf /\ AllOver' = AllOver
  BY ObjectsStay, OverStays DEF waiterVars
<1>2. \A o \in O : \E k \in owned[r] : o = handle[r][k]
  OBVIOUS
<1>3. \A o \in O : o \in Segment /\ o.run = r
  BY <1>2 DEF Inv, TypeOK, Fine, Owned
<1>4. O \in SUBSET {handle[r][k] : k \in K}
  OBVIOUS
<1> QED  BY <1>1, <1>3, <1>4 DEF Objects!Unmap, ObjectOf, UsersOf, AllOver

LEMMA ReleaseUnmaps ==
    ASSUME Inv, NEW r \in Run, NEW k \in Key, CacheRelease(r, k)
    PROVE  \E K \in SUBSET Key : Objects!Unmap(r, K)
<1> DEFINE O == IF k \in owned[r] THEN {handle[r][k]} ELSE {}
<1>1. {k} \in SUBSET Key /\ O \subseteq {handle[r][j] : j \in {k} \cap owned[r]}
  OBVIOUS
<1>2. shm' = shm \ O
  BY DEF CacheRelease
<1>3. handle' = [handle EXCEPT ![r] = [j \in Key |-> IF j \in {k} THEN NoSegment ELSE @[j]]]
  <2>1. handle \in [Run -> [Key -> Segment \cup {NoSegment}]]
    BY DEF Inv, TypeOK
  <2>2. handle' = [handle EXCEPT ![r][k] = NoSegment]
    BY DEF CacheRelease
  <2>3. [handle[r] EXCEPT ![k] = NoSegment]
          = [j \in Key |-> IF j \in {k} THEN NoSegment ELSE handle[r][j]]
    BY <2>1
  <2> QED  BY <2>1, <2>2, <2>3
<1>4. blocks' = blocks /\ UNCHANGED waiterVars
  BY DEF CacheRelease
<1> HIDE DEF O
<1>5. Objects!Unmap(r, {k})
  BY <1>1, <1>2, <1>3, <1>4, HandlesGo
<1> QED  BY <1>1, <1>5

LEMMA EndUnmaps ==
    ASSUME Inv, NEW r \in Run, PyExit(r) \/ PyKilled(r)
    PROVE  \E K \in SUBSET Key : Objects!Unmap(r, K)
<1>1. PICK O \in SUBSET {handle[r][j] : j \in Key \cap owned[r]} : shm' = shm \ O
  <2>1. owned[r] \subseteq Key
    BY DEF Inv, TypeOK
  <2>2. CASE PyExit(r)
    <3>1. shm' = shm \ {handle[r][j] : j \in owned[r]}
      BY <2>2 DEF PyExit
    <3> QED  BY <2>1, <3>1
  <2>3. CASE PyKilled(r)
    <3>1. shm' = shm \ {}
      BY <2>3 DEF PyKilled, registryVars
    <3> QED  BY <3>1
  <2> QED  BY <2>2, <2>3
<1>2. handle' = [handle EXCEPT ![r] = [k \in Key |-> IF k \in Key THEN NoSegment ELSE @[k]]]
  BY DEF PyExit, PyKilled
<1>3. blocks' = blocks /\ UNCHANGED waiterVars
  BY DEF PyExit, PyKilled, registryVars
<1>4. Objects!Unmap(r, Key)
  BY <1>1, <1>2, <1>3, HandlesGo
<1> QED  BY <1>4

\* A segment that was rejected or given up is withdrawn by its creator.
LEMMA CreatorWithdraws ==
    ASSUME Inv, NEW r \in Run, Making(r), shm' = shm \ {call[r].shm},
           handle' = handle, blocks' = blocks, UNCHANGED waiterVars
    PROVE  \E o \in Segment : Objects!Withdraw(r, o)
<1>1. call[r].shm \in Segment /\ call[r].shm.run = r
  BY DEF Inv, Fine, Named, Making
<1>2. \A k \in Key : handle[r][k] # call[r].shm
  BY DEF Inv, Fine, Made
<1>3. ObjectOf' = ObjectOf /\ UsersOf' = UsersOf /\ AllOver' = AllOver
  BY ObjectsStay, OverStays DEF waiterVars
<1>4. Objects!Withdraw(r, call[r].shm)
  BY <1>1, <1>2, <1>3 DEF Objects!Withdraw, ObjectOf, UsersOf, AllOver
<1> QED  BY <1>1, <1>4

\* A yes that the script acts on maps the object of the key.
LEMMA YesMaps ==
    ASSUME Inv, NEW r \in Run, Replied(r), reply[r].ok,
           reply[r].shm \in shm \/ call[r].op = "create",
           handle' = [handle EXCEPT ![r][call[r].key] = reply[r].shm],
           UNCHANGED registryVars, UNCHANGED waiterVars
    PROVE  \E k \in Key : Objects!Map(r, k)
<1>1. PICK k \in Key : k = call[r].key
  BY DEF Inv, Fine, Ordered, Replied, Request
<1>2. blocks[k].shm = reply[r].shm /\ blocks[k].refs[r] = 1
  BY <1>1 DEF Inv, Fine, Promised
<1>3. call[r].op = "create" => blocks[k].shm \in Segment /\ blocks[k].shm.run = r
  BY <1>2 DEF Inv, Fine, Promised, Named
<1>4. ObjectOf' = ObjectOf /\ UsersOf' = UsersOf /\ AllOver' = AllOver /\ shm' = shm
  BY ObjectsStay, OverStays DEF waiterVars, registryVars
<1>5. r \in UsersOf[k] /\ ObjectOf[k] = blocks[k].shm
  BY <1>2 DEF UsersOf, ObjectOf
<1>6. handle' = [handle EXCEPT ![r][k] = ObjectOf[k]]
  BY <1>1, <1>2, <1>5
<1>7. ObjectOf[k] \in shm \/ [s \in Segment |-> s.run][ObjectOf[k]] = r
  BY <1>2, <1>3, <1>5
<1>8. Objects!Map(r, k)
  BY <1>4, <1>5, <1>6, <1>7 DEF Objects!Map, ObjectOf, UsersOf, AllOver
<1> QED  BY <1>8

\* Register publishes, LookupAndRef makes a user.
LEMMA CreatePublishes ==
    ASSUME Inv, NEW r \in Run, ExecCreate(r), ~KeyTaken(Head(wire[r]).key)
    PROVE  \E o \in Segment : \E k \in Key : Objects!Publish(r, k, o)
<1>1. /\ wire[r] # <<>> /\ wire[r] \in Seq(Request) /\ Head(wire[r]) = wire[r][1]
      /\ wire[r][1].op = "create" /\ exec[r] = "recv"
      /\ Head(wire[r]) \in Request
  BY DEF Inv, TypeOK, ExecCreate, Received
<1>0. PICK k \in Key, o \in Segment \cup {NoSegment} : k = Head(wire[r]).key /\ o = Head(wire[r]).shm
  BY <1>1 DEF Request
<1>2. Head(wire[r]) = call[r] /\ k \in Key /\ o = call[r].shm
  BY <1>1, <1>0 DEF Inv, Fine, Ordered
<1>3. o \in Segment /\ o.run = r
  BY <1>1, <1>2 DEF Inv, Fine, Named
<1>4. \A j \in Key : blocks[j].shm # o
  BY <1>1, <1>2 DEF Inv, Fine, Made
<1>5. blocks[k] = NoBlock /\ blocks' = [blocks EXCEPT ![k] = [shm |-> o, refs |-> AddRef(NoBlock.refs, r)]]
  BY <1>0 DEF ExecCreate, KeyTaken
<1>6. blocks \in [Key -> Block \cup {NoBlock}]
  BY DEF Inv, TypeOK
<1>7. AddRef(NoBlock.refs, r) = [q \in Run |-> IF q = r THEN 1 ELSE 0]
  BY DEF AddRef, NoBlock
<1>8. ObjectOf' = [ObjectOf EXCEPT ![k] = o]
  BY <1>2, <1>5, <1>6 DEF ObjectOf
<1>9. UsersOf' = [UsersOf EXCEPT ![k] = {r}]
  <2>1. /\ blocks'[k].refs = [q \in Run |-> IF q = r THEN 1 ELSE 0]
        /\ \A j \in Key \ {k} : blocks'[j] = blocks[j]
    BY <1>2, <1>5, <1>6, <1>7
  <2>2. {q \in Run : blocks'[k].refs[q] > 0} = {r}
    BY <2>1
  <2> QED  BY <1>2, <2>1, <2>2 DEF UsersOf
<1>10. r \notin AllOver /\ AllOver' = AllOver
  BY <1>1, OverStays DEF Inv, Fine, Over, AllOver, ExecCreate, waiterVars
<1>11. shm' = shm /\ handle' = handle
  BY DEF ExecCreate, scriptVars
<1>12. ObjectOf[k] = NoSegment /\ \A j \in Key : ObjectOf[j] # o
  BY <1>2, <1>4, <1>5 DEF ObjectOf, NoBlock
<1>13. Objects!Publish(r, k, o)
  BY <1>2, <1>3, <1>8, <1>9, <1>10, <1>11, <1>12
     DEF Objects!Publish, ObjectOf, UsersOf, AllOver
<1> QED  BY <1>3, <1>13

LEMMA LookupUses ==
    ASSUME Inv, NEW r \in Run, ExecLookup(r), blocks[Head(wire[r]).key] # NoBlock
    PROVE  \E k \in Key : Objects!Use(r, k)
<1>1. wire[r] # <<>> /\ wire[r] \in Seq(Request) /\ exec[r] = "recv" /\ Head(wire[r]) \in Request
  BY DEF Inv, TypeOK, ExecLookup, Received
<1>2. PICK k \in Key : k = Head(wire[r]).key
  BY <1>1 DEF Request
<1>3. blocks' = [blocks EXCEPT ![k].refs = AddRef(@, r)]
  BY <1>2 DEF ExecLookup
<1>4. blocks \in [Key -> Block \cup {NoBlock}]
  BY DEF Inv, TypeOK
<1>5. ObjectOf' = ObjectOf
  BY <1>2, <1>3, <1>4 DEF ObjectOf, Block, NoBlock
<1>6. UsersOf' = [UsersOf EXCEPT ![k] = @ \cup {r}]
  <2>1. \A q \in Run : AddRef(blocks[k].refs, r)[q] > 0 <=> blocks[k].refs[q] > 0 \/ q = r
    BY <1>2, BlockHasSegment DEF AddRef, Inv
  <2>2. blocks'[k].refs = AddRef(blocks[k].refs, r) /\ \A j \in Key \ {k} : blocks'[j] = blocks[j]
    BY <1>2, <1>3, <1>4 DEF Block, NoBlock
  <2>3. {q \in Run : blocks'[k].refs[q] > 0} = {q \in Run : blocks[k].refs[q] > 0} \cup {r}
    BY <2>1, <2>2
  <2> QED  BY <1>2, <2>2, <2>3 DEF UsersOf
<1>7. r \notin AllOver /\ AllOver' = AllOver
  BY <1>1, OverStays DEF Inv, Fine, Over, AllOver, ExecLookup, waiterVars
<1>8. ObjectOf[k] # NoSegment
  BY <1>2, BlockHasSegment DEF ObjectOf, Inv
<1>9. shm' = shm /\ handle' = handle
  BY DEF ExecLookup, scriptVars
<1>10. Objects!Use(r, k)
  BY <1>2, <1>5, <1>6, <1>7, <1>8, <1>9 DEF Objects!Use, ObjectOf, UsersOf, AllOver
<1> QED  BY <1>10

\* Release and CleanupRun leave keys that the run has not mapped.
LEMMA DropLeaves ==
    ASSUME Inv, NEW r \in Run, NEW K \in SUBSET Key, DropRefs(r, K), handle' = handle,
           \A k \in K : handle[r][k] = NoSegment
    PROVE  Objects!Leaves(r, K)
<1>1. blocks' = Dropped(r, K) /\ shm' = shm \ Freed(r, K)
  BY DEF DropRefs, UnlinkShm
<1>2. ASSUME NEW k \in Key
      PROVE  /\ UsersOf'[k] = IF k \in K THEN UsersOf[k] \ {r} ELSE UsersOf[k]
             /\ ObjectOf'[k] = IF UsersOf'[k] = {} THEN NoSegment ELSE ObjectOf[k]
             /\ (blocks[k] # NoBlock /\ Dropped(r, K)[k] = NoBlock)
                  <=> (ObjectOf[k] # NoSegment /\ ObjectOf'[k] = NoSegment)
  <2>1. /\ UsersOf[k] = {q \in Run : blocks[k].refs[q] > 0} /\ ObjectOf[k] = blocks[k].shm
        /\ UsersOf'[k] = {q \in Run : Dropped(r, K)[k].refs[q] > 0}
        /\ ObjectOf'[k] = Dropped(r, K)[k].shm
    BY <1>1, <1>2 DEF UsersOf, ObjectOf
  <2>2. /\ blocks[k].shm # NoSegment <=> blocks[k] # NoBlock
        /\ \A q \in Run : blocks[k].refs[q] \in {0, 1}
        /\ blocks[k] # NoBlock => \E q \in Run : blocks[k].refs[q] = 1
    BY BlockHasSegment DEF Inv, Kept
  <2>3. NoBlock.shm = NoSegment /\ \A q \in Run : NoBlock.refs[q] = 0
    BY DEF NoBlock
  <2>4. CASE (k \notin K \/ blocks[k] = NoBlock) /\ Dropped(r, K)[k] = blocks[k]
    <3>1. UsersOf'[k] = UsersOf[k] /\ ObjectOf'[k] = ObjectOf[k]
      BY <2>1, <2>4
    <3>2. blocks[k] = NoBlock => UsersOf[k] = {}
      BY <2>1, <2>3
    <3>3. blocks[k] # NoBlock => UsersOf[k] # {}
      BY <2>1, <2>2
    <3> QED  BY <2>1, <2>2, <2>3, <2>4, <3>1, <3>2, <3>3
  <2>5. CASE /\ k \in K /\ blocks[k] # NoBlock /\ Dropped(r, K)[k] = NoBlock
             /\ \A q \in Run : q # r => blocks[k].refs[q] = 0
    <3>1. UsersOf'[k] = {} /\ ObjectOf'[k] = NoSegment
      BY <2>1, <2>3, <2>5
    <3>2. UsersOf[k] \ {r} = {}
      BY <2>1, <2>5
    <3> QED  BY <2>1, <2>2, <2>5, <3>1, <3>2
  <2>6. CASE /\ k \in K /\ blocks[k] # NoBlock /\ Dropped(r, K)[k] # NoBlock
             /\ Dropped(r, K)[k] \in Block /\ Dropped(r, K)[k].shm = blocks[k].shm
             /\ Dropped(r, K)[k].refs[r] = 0
             /\ \A q \in Run : q # r => Dropped(r, K)[k].refs[q] = blocks[k].refs[q]
             /\ \E q \in Run : Dropped(r, K)[k].refs[q] = 1
    <3>1. UsersOf'[k] = UsersOf[k] \ {r}
      BY <2>1, <2>6
    <3>2. UsersOf'[k] # {} /\ ObjectOf'[k] = ObjectOf[k]
      BY <2>1, <2>6
    <3> QED  BY <2>1, <2>2, <2>6, <3>1, <3>2
  <2> QED  BY <2>4, <2>5, <2>6, DroppedBlock
<1>3. UsersOf' = [k \in Key |-> IF k \in K THEN UsersOf[k] \ {r} ELSE UsersOf[k]]
  BY <1>2 DEF UsersOf
<1>4. ObjectOf' = [k \in Key |-> IF UsersOf'[k] = {} THEN NoSegment ELSE ObjectOf[k]]
  BY <1>2 DEF ObjectOf
<1>5. Freed(r, K) = {ObjectOf[k] : k \in {j \in Key : ObjectOf[j] # NoSegment /\ ObjectOf'[j] = NoSegment}}
  <2>1. {j \in K : blocks[j] # NoBlock /\ Dropped(r, K)[j] = NoBlock}
          = {j \in Key : ObjectOf[j] # NoSegment /\ ObjectOf'[j] = NoSegment}
    <3>1. \A j \in Key \ K : Dropped(r, K)[j] = blocks[j]
      BY DEF Dropped
    <3> QED  BY <1>2, <3>1
  <2>2. \A j \in Key : ObjectOf[j] = blocks[j].shm
    BY DEF ObjectOf
  <2> QED  BY <2>1, <2>2 DEF Freed
<1>6. shm' = shm \ {ObjectOf[k] : k \in {j \in Key : ObjectOf[j] # NoSegment /\ ObjectOf'[j] = NoSegment}}
  BY <1>1, <1>5
<1> QED  BY <1>3, <1>4, <1>6 DEF Objects!Leaves, ObjectOf, UsersOf

LEMMA ReleaseLeaves ==
    ASSUME Inv, NEW r \in Run, ExecRelease(r)
    PROVE  \E K \in SUBSET Key : Objects!Leave(r, K)
<1>1. /\ wire[r] # <<>> /\ wire[r] \in Seq(Request) /\ Head(wire[r]) = wire[r][1]
      /\ wire[r][1].op = "release" /\ Head(wire[r]) \in Request /\ 1 \in 1..Len(wire[r])
  BY DEF Inv, TypeOK, ExecRelease, Received
<1>2. PICK k \in Key : k = Head(wire[r]).key
  BY <1>1 DEF Request
<1>3. handle[r][k] = NoSegment
  BY <1>1, <1>2 DEF Inv, Fine, Pinned
<1>4. Objects!Leaves(r, {k})
  <2>1. DropRefs(r, {k}) /\ handle' = handle
    BY <1>2 DEF ExecRelease, scriptVars
  <2> QED  BY <1>3, <2>1, DropLeaves
<1>5. AllOver' = AllOver
  BY OverStays DEF ExecRelease, waiterVars
<1>6. Objects!Leave(r, {k})
  BY <1>4, <1>5 DEF Objects!Leave, AllOver
<1> QED  BY <1>6

LEMMA CleanupFinishes ==
    ASSUME Inv, NEW r \in Run, CleanupRun(r)
    PROVE  Objects!Finish(r) \/ \E K \in SUBSET Key : Objects!Leave(r, K)
<1>1. \A k \in Key : handle[r][k] = NoSegment
  BY DEF Inv, Fine, Over, CleanupRun
<1>2. DropRefs(r, Key) /\ handle' = handle /\ drain' = drain /\ waiter[r] = "cleanup"
      /\ waiter' = [waiter EXCEPT ![r] = "done"]
  BY DEF CleanupRun, scriptVars
<1>3. Objects!Leaves(r, Key)
  BY <1>1, <1>2, DropLeaves
<1>4. waiter \in [Run -> {"wait", "cleanup", "done"}]
  BY DEF Inv, TypeOK
<1>5. CASE drain[r] = "eof"
  <2>1. AllOver' = AllOver \cup {r}
    BY <1>2, <1>4, <1>5 DEF AllOver
  <2> QED  BY <1>3, <2>1 DEF Objects!Finish, AllOver
<1>6. CASE drain[r] # "eof"
  <2>1. AllOver' = AllOver
    BY <1>2, <1>4, <1>6 DEF AllOver
  <2>2. Objects!Leave(r, Key)
    BY <1>3, <2>1 DEF Objects!Leave, AllOver
  <2> QED  BY <2>2
<1> QED  BY <1>5, <1>6

\* A step that SharedObjects does not see.
LEMMA Unseen ==
    ASSUME UNCHANGED <<blocks, shm, handle>>, AllOver' = AllOver
    PROVE  UNCHANGED Objects!vars
BY ObjectsStay DEF Objects!vars, ObjectOf, UsersOf, AllOver

\* The call a script is in, by the answer it waits for.
LEMMA WaitsForAnswer ==
    ASSUME Inv, NEW r \in Run, py[r] = "waiting", reply[r] # NoReply
    PROVE  Replied(r)
BY DEF Replied

\* A step of a script is a step of SharedObjects, or nothing it sees.
LEMMA ScriptShares ==
    ASSUME Inv, NEW r \in Run,
           \/ \E k \in Key : CacheSet(r, k) \/ CacheGet(r, k) \/ CacheRelease(r, k)
           \/ SetReturns(r) \/ GetReturns(r) \/ GiveUp(r) \/ Cancel(r)
           \/ PyExit(r) \/ PyKilled(r)
    PROVE  [Objects!Next]_(Objects!vars)
<1>1. CASE \E k \in Key : CacheSet(r, k)
  BY <1>1, SetMakes DEF Objects!Next
<1>2. CASE \E k \in Key : CacheGet(r, k)
  BY <1>2, Unseen, OverStays DEF CacheGet, registryVars, waiterVars
<1>3. CASE \E k \in Key : CacheRelease(r, k)
  BY <1>3, ReleaseUnmaps DEF Objects!Next
<1>4. CASE SetReturns(r)
  <2>1. Replied(r) /\ Making(r) /\ blocks' = blocks /\ UNCHANGED waiterVars
    BY <1>4 DEF SetReturns, Replied, Making
  <2>2. CASE reply[r].ok
    <3>1. reply[r].shm = call[r].shm
      BY <2>1, <2>2 DEF Inv, Fine, Promised, Making
    <3>2. handle' = [handle EXCEPT ![r][call[r].key] = reply[r].shm] /\ UNCHANGED registryVars
      BY <1>4, <2>2, <3>1 DEF SetReturns, registryVars
    <3>3. \E k \in Key : Objects!Map(r, k)
      BY <2>1, <2>2, <3>2, YesMaps DEF Making
    <3> QED  BY <3>3 DEF Objects!Next
  <2>3. CASE ~reply[r].ok
    <3>1. shm' = shm \ {call[r].shm} /\ handle' = handle
      BY <1>4, <2>3 DEF SetReturns
    <3>2. \E o \in Segment : Objects!Withdraw(r, o)
      BY <2>1, <3>1, CreatorWithdraws
    <3> QED  BY <3>2 DEF Objects!Next
  <2> QED  BY <2>2, <2>3
<1>5. CASE GetReturns(r)
  <2>1. Replied(r) /\ UNCHANGED registryVars /\ UNCHANGED waiterVars
    BY <1>5 DEF GetReturns, Replied
  <2>2. CASE reply[r].ok /\ reply[r].shm \in shm
    <3>1. handle' = [handle EXCEPT ![r][call[r].key] = reply[r].shm]
      BY <1>5, <2>2 DEF GetReturns
    <3>2. \E k \in Key : Objects!Map(r, k)
      BY <2>1, <2>2, <3>1, YesMaps
    <3> QED  BY <3>2 DEF Objects!Next
  <2>3. CASE ~(reply[r].ok /\ reply[r].shm \in shm)
    BY <1>5, <2>1, <2>3, Unseen, OverStays DEF GetReturns, registryVars, waiterVars
  <2> QED  BY <2>2, <2>3
<1>6. CASE GiveUp(r)
  <2>1. py[r] = "waiting" /\ handle' = handle /\ blocks' = blocks /\ UNCHANGED waiterVars
    BY <1>6 DEF GiveUp
  <2>2. CASE call[r].op = "create"
    <3>1. shm' = shm \ {call[r].shm}
      BY <1>6, <2>2 DEF GiveUp
    <3>2. \E o \in Segment : Objects!Withdraw(r, o)
      BY <2>1, <2>2, <3>1, CreatorWithdraws DEF Making
    <3> QED  BY <3>2 DEF Objects!Next
  <2>3. CASE call[r].op # "create"
    BY <1>6, <2>1, <2>3, Unseen, OverStays DEF GiveUp, waiterVars
  <2> QED  BY <2>2, <2>3
<1>7. CASE Cancel(r)
  BY <1>7, Unseen, OverStays DEF Cancel, registryVars, waiterVars
<1>8. CASE PyExit(r) \/ PyKilled(r)
  BY <1>8, EndUnmaps DEF Objects!Next
<1> QED  BY <1>1, <1>2, <1>3, <1>4, <1>5, <1>6, <1>7, <1>8

\* So is a step of Execute or of waitForExit.
LEMMA ServerShares ==
    ASSUME Inv, NEW r \in Run,
           \/ ExecCreate(r) \/ ExecLookup(r) \/ ExecRelease(r) \/ ExecEnd(r)
           \/ WaiterDrain(r) \/ CleanupRun(r)
    PROVE  [Objects!Next]_(Objects!vars)
<1>1. CASE ExecCreate(r)
  <2>1. CASE KeyTaken(Head(wire[r]).key)
    BY <1>1, <2>1, Unseen, OverStays DEF ExecCreate, scriptVars, waiterVars
  <2>2. CASE ~KeyTaken(Head(wire[r]).key)
    BY <1>1, <2>2, CreatePublishes DEF Objects!Next
  <2> QED  BY <2>1, <2>2
<1>2. CASE ExecLookup(r)
  <2>1. CASE blocks[Head(wire[r]).key] = NoBlock
    BY <1>2, <2>1, Unseen, OverStays DEF ExecLookup, scriptVars, waiterVars
  <2>2. CASE blocks[Head(wire[r]).key] # NoBlock
    BY <1>2, <2>2, LookupUses DEF Objects!Next
  <2> QED  BY <2>1, <2>2
<1>3. CASE ExecRelease(r)
  BY <1>3, ReleaseLeaves DEF Objects!Next
<1>4. CASE ExecEnd(r)
  BY <1>4, Unseen, OverStays DEF ExecEnd, registryVars, scriptVars, waiterVars
<1>5. CASE WaiterDrain(r)
  <2>1. AllOver' = AllOver
    BY <1>5 DEF WaiterDrain, AllOver, Inv, TypeOK
  <2> QED  BY <1>5, <2>1, Unseen DEF WaiterDrain, registryVars, scriptVars
<1>6. CASE CleanupRun(r)
  BY <1>6, CleanupFinishes DEF Objects!Next
<1> QED  BY <1>1, <1>2, <1>3, <1>4, <1>5, <1>6

\* CacheManager with its counts, the requests and answers on the streams and the cleanup
\* of runs implement SharedObjects: nobody takes an object from a run that has it mapped,
\* its name goes by its maker or with its last user, and a run that was drained and
\* cleaned up never becomes a user again.
THEOREM CacheSharesObjects == Spec => SharesObjects
<1>1. Inv /\ [Next]_vars => [Objects!Next]_(Objects!vars)
  <2> SUFFICES ASSUME Inv, [Next]_vars PROVE [Objects!Next]_(Objects!vars)
    OBVIOUS
  <2>1. CASE UNCHANGED vars
    <3>1. UNCHANGED <<blocks, shm, handle, waiter, drain>>
      BY <2>1 DEF vars, registryVars, scriptVars, waiterVars
    <3> QED  BY <3>1, Unseen, OverStays
  <2>2. ASSUME NEW r \in Run, NEW k \in Key, CacheSet(r, k) \/ CacheGet(r, k) \/ CacheRelease(r, k)
        PROVE  [Objects!Next]_(Objects!vars)
    BY <2>2, ScriptShares
  <2>3. ASSUME NEW r \in Run,
               \/ SetReturns(r) \/ GetReturns(r) \/ GiveUp(r) \/ Cancel(r)
               \/ PyExit(r) \/ PyKilled(r)
        PROVE  [Objects!Next]_(Objects!vars)
    BY <2>3, ScriptShares
  <2>4. ASSUME NEW r \in Run,
               \/ ExecCreate(r) \/ ExecLookup(r) \/ ExecRelease(r) \/ ExecEnd(r)
               \/ WaiterDrain(r) \/ CleanupRun(r)
        PROVE  [Objects!Next]_(Objects!vars)
    BY <2>4, ServerShares
  <2> QED  BY <2>1, <2>2, <2>3, <2>4 DEF Next, AllEnded
<1> QED  BY <1>1, SharesInit, Invariance, PTL DEF Spec, SharesObjects, Objects!Spec
=============================================================================
