---------------------------- MODULE LogRing_proofs ----------------------------
(***************************************************************************)
(* LogRing implements BoundedLog, and its viewer comes to rest with what    *)
(* the buffer holds, for every capacity and any goroutines.                 *)
(***************************************************************************)
EXTENDS LogRing, SequenceTheorems, TLAPS

\* The counters of the RingBuffer: until it is full, head counts the entries.
RingInv ==
    /\ entries \in [Slot -> Nat] /\ head \in Slot /\ count \in 0..Cap
    /\ count < Cap => head = count
    /\ pushed \in 0..MaxPushed

\* What % does to an index that has gone round at most once.
LEMMA GoneRound ==
    ASSUME NEW n \in Nat \ {0}, NEW a \in Nat, a < 2 * n
    PROVE  a % n = IF a < n THEN a ELSE a - n
<1>1. CASE a < n
  BY <1>1, SMT
<1>2. CASE a >= n
  BY <1>2, SMT
<1> QED BY <1>1, <1>2

\* The oldest entry is in slot 0 until the buffer is full, and then where head is.
LEMMA OldestFirst ==
    ASSUME RingInv
    PROVE  /\ count \in Nat /\ head \in Nat /\ Cap \in Nat \ {0}
           /\ (head - count + Cap) % Cap = IF count < Cap THEN 0 ELSE head
<1>1. Cap \in Nat \ {0} /\ head \in 0..(Cap - 1) /\ count \in 0..Cap
  BY CapAssumption DEF RingInv, Slot
<1>2. CASE count < Cap
  <2>1. head - count + Cap = Cap
    BY <1>1, <1>2 DEF RingInv
  <2>2. Cap % Cap = 0
    BY <1>1, GoneRound
  <2> QED BY <1>1, <1>2, <2>1, <2>2
<1>3. CASE count = Cap
  <2>1. head - count + Cap = head
    BY <1>1, <1>3
  <2>2. head % Cap = head
    BY <1>1, GoneRound
  <2> QED BY <1>1, <1>3, <2>1, <2>2
<1> QED BY <1>1, <1>2, <1>3

\* The slot of the i-th entry, from the oldest on.
SlotOf(i) ==
    IF count < Cap THEN i - 1
    ELSE IF head + i - 1 < Cap THEN head + i - 1 ELSE head + i - 1 - Cap

\* What Entries returns.
Listing ==
    /\ Entries \in Seq(Nat) /\ Len(Entries) = count
    /\ \A i \in 1..count : Entries[i] = entries[SlotOf(i)] /\ SlotOf(i) \in Slot

LEMMA EntriesAre == RingInv => Listing
<1> SUFFICES ASSUME RingInv PROVE Listing
  OBVIOUS
<1> DEFINE start == (head - count + Cap) % Cap
           at(i) == (start + i - 1) % Cap
<1>1. /\ count \in Nat /\ head \in Nat /\ Cap \in Nat \ {0}
      /\ start = IF count < Cap THEN 0 ELSE head
  BY OldestFirst
<1>2. head < Cap /\ count <= Cap /\ entries \in [Slot -> Nat] /\ Slot = 0..(Cap - 1)
  BY <1>1 DEF RingInv, Slot
<1>3. ASSUME NEW i \in 1..count PROVE at(i) = SlotOf(i) /\ SlotOf(i) \in Slot
  <2>1. start \in Nat /\ start + i - 1 \in Nat /\ start + i - 1 < 2 * Cap
    BY <1>1, <1>2
  <2>2. at(i) = IF start + i - 1 < Cap THEN start + i - 1 ELSE start + i - 1 - Cap
    BY <1>1, <2>1, GoneRound
  <2> HIDE DEF start, at
  <2>3. CASE count < Cap
    <3>1. start = 0 /\ start + i - 1 < Cap /\ start + i - 1 = i - 1
      BY <1>1, <1>2, <2>3
    <3>2. at(i) = i - 1 /\ SlotOf(i) = i - 1
      BY <2>2, <2>3, <3>1 DEF SlotOf
    <3> QED BY <1>1, <1>2, <2>3, <3>2
  <2>4. CASE count = Cap
    <3>1. start = head /\ head + i - 1 \in Nat /\ head + i - 1 < 2 * Cap /\ ~(count < Cap)
      BY <1>1, <1>2, <2>1, <2>4
    <3>2. at(i) = (IF head + i - 1 < Cap THEN head + i - 1 ELSE head + i - 1 - Cap)
      BY <2>2, <3>1
    <3>3. at(i) = SlotOf(i)
      BY <3>1, <3>2 DEF SlotOf
    <3>4. (IF head + i - 1 < Cap THEN head + i - 1 ELSE head + i - 1 - Cap) \in 0..(Cap - 1)
      BY <1>1, <3>1
    <3> QED BY <1>2, <3>2, <3>3, <3>4
  <2> QED BY <1>1, <1>2, <2>3, <2>4
<1> HIDE DEF start
<1>4. Entries = [i \in 1..count |-> entries[at(i)]]
  BY DEF Entries, start
<1>5. Entries \in [1..count -> Nat]
  BY <1>2, <1>3, <1>4
<1>6. Entries \in Seq(Nat) /\ Len(Entries) = count
  BY <1>1, <1>5
<1>7. ASSUME NEW i \in 1..count
      PROVE  Entries[i] = entries[SlotOf(i)] /\ SlotOf(i) \in Slot
  <2>1. Entries[i] = entries[at(i)]
    BY <1>4
  <2> QED BY <1>3, <2>1
<1> QED
  BY <1>6, <1>7 DEF Listing

-----------------------------------------------------------------------------
(* The invariant *)

LEMMA RingInvInit == Init => RingInv
  BY CapAssumption DEF Init, RingInv, Slot

\* Only Push writes to the buffer.
LEMMA OnlyPush ==
    ASSUME [Next]_vars
    PROVE  (\E p \in Pusher : Push(p)) \/ UNCHANGED ringVars
  BY DEF Next, OnPush, Open, Subscribe, Close, GetLogs, Respond, Deliver, Settled, vars

\* What Push does to the counters.
LEMMA PushCounts ==
    ASSUME RingInv, NEW p \in Pusher, Push(p)
    PROVE  /\ head' = IF head + 1 < Cap THEN head + 1 ELSE 0
           /\ count' = IF count < Cap THEN count + 1 ELSE count
           /\ entries' = [entries EXCEPT ![head] = pushed + 1]
           /\ RingInv'
<1>1. /\ Cap \in Nat \ {0} /\ head \in 0..(Cap - 1) /\ count \in 0..Cap
      /\ pushed \in 0..MaxPushed /\ MaxPushed \in Nat /\ Slot = 0..(Cap - 1)
  BY CapAssumption DEF RingInv, Slot
<1>2. (head + 1) % Cap = IF head + 1 < Cap THEN head + 1 ELSE 0
  <2> DEFINE k == head + 1
  <2>1. k \in Nat /\ k < 2 * Cap /\ k <= Cap
    BY <1>1
  <2> HIDE DEF k
  <2>2. k % Cap = IF k < Cap THEN k ELSE k - Cap
    BY <1>1, <2>1, GoneRound
  <2>3. k % Cap = IF k < Cap THEN k ELSE 0
    BY <1>1, <2>1, <2>2
  <2> QED BY <2>3 DEF k
<1>3. head' = IF head + 1 < Cap THEN head + 1 ELSE 0
  BY <1>2 DEF Push
<1>4. count' = IF count < Cap THEN count + 1 ELSE count
  BY DEF Push, Counted
<1>5. entries' = [entries EXCEPT ![head] = pushed + 1] /\ pushed' = pushed + 1
  BY DEF Push
<1>6. entries' \in [Slot -> Nat]
  BY <1>1, <1>5 DEF RingInv
<1>7. head' \in Slot /\ count' \in 0..Cap /\ (count' < Cap => head' = count')
  BY <1>1, <1>3, <1>4 DEF RingInv
<1>8. pushed' \in 0..MaxPushed
  BY <1>1, <1>5 DEF Push
<1>9. RingInv'
  BY <1>6, <1>7, <1>8 DEF RingInv, Slot
<1> QED
  BY <1>3, <1>4, <1>5, <1>9

LEMMA RingInvNext == RingInv /\ [Next]_vars => RingInv'
<1> SUFFICES ASSUME RingInv, [Next]_vars PROVE RingInv'
  OBVIOUS
<1>1. ASSUME NEW p \in Pusher, Push(p) PROVE RingInv'
  BY <1>1, PushCounts
<1>2. CASE UNCHANGED ringVars
  BY <1>2 DEF ringVars, RingInv, Slot
<1> QED
  BY <1>1, <1>2, OnlyPush

-----------------------------------------------------------------------------
(* The refinement *)

\* An entry pushed to a buffer that has room follows the others.
LEMMA PushAppends ==
    ASSUME RingInv, NEW p \in Pusher, Push(p), count < Cap
    PROVE  Entries' = Append(Entries, pushed + 1)
<1>1. /\ Cap \in Nat \ {0} /\ head = count /\ count \in 0..(Cap - 1)
      /\ pushed \in Nat /\ Slot = 0..(Cap - 1) /\ entries \in [Slot -> Nat]
  BY CapAssumption DEF RingInv, Slot
<1>2. /\ entries' = [entries EXCEPT ![head] = pushed + 1] /\ count' = count + 1
      /\ head' = IF head + 1 < Cap THEN head + 1 ELSE 0
      /\ RingInv'
  BY <1>1, PushCounts
<1>3. /\ Entries \in Seq(Nat) /\ Len(Entries) = count
      /\ \A i \in 1..count : Entries[i] = entries[SlotOf(i)]
  BY EntriesAre DEF Listing
<1>4. /\ Entries' \in Seq(Nat) /\ Len(Entries') = count'
      /\ \A i \in 1..count' : Entries'[i] = entries'[SlotOf(i)']
  <2>1. RingInv' => Listing'
    BY EntriesAre, PTL
  <2> QED BY <1>2, <2>1 DEF Listing
<1>5. ASSUME NEW i \in 1..(count + 1) PROVE SlotOf(i)' = i - 1
  <2>1. CASE count + 1 < Cap
    BY <1>1, <1>2, <2>1 DEF SlotOf
  <2>2. CASE count + 1 = Cap
    BY <1>1, <1>2, <2>2 DEF SlotOf
  <2> QED BY <1>1, <2>1, <2>2
<1>6. ASSUME NEW i \in 1..(count + 1) PROVE Entries'[i] = Append(Entries, pushed + 1)[i]
  <2>1. Entries'[i] = entries'[i - 1]
    BY <1>2, <1>4, <1>5
  <2>2. CASE i = count + 1
    BY <1>1, <1>2, <1>3, <2>1, <2>2
  <2>3. CASE i \in 1..count
    <3>1. Entries[i] = entries[i - 1]
      BY <1>1, <1>3, <2>3 DEF SlotOf
    <3>2. entries'[i - 1] = entries[i - 1]
      BY <1>1, <1>2, <2>3
    <3>3. Append(Entries, pushed + 1)[i] = Entries[i]
      BY <1>1, <1>3, <2>3
    <3> QED BY <2>1, <3>1, <3>2, <3>3
  <2> QED BY <1>1, <2>2, <2>3
<1> DEFINE after == Append(Entries, pushed + 1)
<1>7. after \in Seq(Nat) /\ Len(after) = count + 1
  BY <1>1, <1>3
<1> QED
  BY <1>2, <1>4, <1>6, <1>7, SeqEqual

\* An entry pushed to a full buffer takes the place of the oldest.
LEMMA PushReplaces ==
    ASSUME RingInv, NEW p \in Pusher, Push(p), count = Cap
    PROVE  Entries' = Append(Tail(Entries), pushed + 1)
<1>1. /\ Cap \in Nat \ {0} /\ head \in 0..(Cap - 1) /\ count = Cap
      /\ pushed \in Nat /\ Slot = 0..(Cap - 1) /\ entries \in [Slot -> Nat]
  BY CapAssumption DEF RingInv, Slot
<1>2. /\ entries' = [entries EXCEPT ![head] = pushed + 1] /\ count' = Cap
      /\ head' = IF head + 1 < Cap THEN head + 1 ELSE 0
      /\ RingInv'
  BY <1>1, PushCounts
<1>3. /\ Entries \in Seq(Nat) /\ Len(Entries) = Cap
      /\ \A i \in 1..Cap : Entries[i] = entries[SlotOf(i)] /\ SlotOf(i) \in Slot
  BY <1>1, EntriesAre DEF Listing
<1>4. /\ Entries' \in Seq(Nat) /\ Len(Entries') = Cap
      /\ \A i \in 1..Cap : Entries'[i] = entries'[SlotOf(i)']
  <2>1. RingInv' => Listing'
    BY EntriesAre, PTL
  <2> QED BY <1>2, <2>1 DEF Listing
<1> DEFINE after == Append(Tail(Entries), pushed + 1)
<1>5. /\ Tail(Entries) \in Seq(Nat) /\ Len(Tail(Entries)) = Cap - 1
      /\ \A i \in 1..(Cap - 1) : Tail(Entries)[i] = Entries[i + 1]
  BY <1>1, <1>3
<1>6. after \in Seq(Nat) /\ Len(after) = Cap
  BY <1>1, <1>5
<1>7. ASSUME NEW i \in 1..Cap PROVE Entries'[i] = after[i]
  <2> HIDE DEF after
  <2>1. Entries'[i] = entries'[SlotOf(i)']
    BY <1>4
  <2>2. CASE i = Cap
    <3>1. SlotOf(i)' = head
      BY <1>1, <1>2, <2>2 DEF SlotOf
    <3>2. entries'[head] = pushed + 1
      BY <1>1, <1>2
    <3>3. after[i] = pushed + 1
      BY <1>1, <1>5, <2>2 DEF after
    <3> QED BY <2>1, <3>1, <3>2, <3>3
  <2>3. CASE i \in 1..(Cap - 1)
    <3>1. i + 1 \in 1..Cap /\ SlotOf(i)' = SlotOf(i + 1) /\ SlotOf(i + 1) # head
      BY <1>1, <1>2, <2>3 DEF SlotOf
    <3>2. entries'[SlotOf(i + 1)] = entries[SlotOf(i + 1)]
      BY <1>1, <1>2, <1>3, <3>1
    <3>3. after[i] = Entries[i + 1]
      BY <1>1, <1>5, <2>3 DEF after
    <3> QED BY <1>3, <2>1, <3>1, <3>2, <3>3
  <2>4. i = Cap \/ i \in 1..(Cap - 1)
    BY <1>1
  <2> QED BY <2>2, <2>3, <2>4
<1> HIDE DEF after
<1>8. Entries' = after
  BY <1>4, <1>6, <1>7, SeqEqual
<1> QED
  BY <1>8 DEF after

\* Every step is a Push of the log or leaves it as it is.
LEMMA StepRefines == RingInv /\ [Next]_vars => [Log!Next]_Entries
<1> SUFFICES ASSUME RingInv, [Next]_vars PROVE [Log!Next]_Entries
  OBVIOUS
<1>1. ASSUME NEW p \in Pusher, Push(p) PROVE Log!Next
  <2>1. pushed + 1 \in Entry
    BY <1>1, CapAssumption DEF RingInv, Push, Entry
  <2>2. Len(Entries) = count /\ count \in 0..Cap /\ Cap \in Nat
    BY EntriesAre, CapAssumption DEF RingInv, Listing
  <2>3. CASE count < Cap
    <3>1. Entries' = Append(Entries, pushed + 1)
      BY <1>1, <2>3, PushAppends
    <3> QED BY <2>1, <2>2, <2>3, <3>1 DEF Log!Next, Log!Push
  <2>4. CASE count = Cap
    <3>1. Entries' = Append(Tail(Entries), pushed + 1)
      BY <1>1, <2>4, PushReplaces
    <3> QED BY <2>1, <2>2, <2>4, <3>1 DEF Log!Next, Log!Push
  <2> QED BY <2>2, <2>3, <2>4
<1>2. CASE UNCHANGED ringVars
  BY <1>2 DEF ringVars, Entries
<1> QED
  BY <1>1, <1>2, OnlyPush

\* The RingBuffer is a log of its last Cap entries (ring.go Push and Entries).
THEOREM RingImplementsLog == Spec => RingIsLog
<1>1. Init => Log!Init
  <2> SUFFICES ASSUME Init PROVE Entries = <<>>
    BY DEF Log!Init
  <2>1. Len(Entries) = 0 /\ Entries \in Seq(Nat)
    BY RingInvInit, EntriesAre DEF Init, Listing
  <2> QED BY <2>1, EmptySeq
<1>2. Spec => []RingInv
  BY RingInvInit, RingInvNext, PTL DEF Spec
<1> QED
  BY <1>1, <1>2, StepRefines, PTL DEF Spec, RingIsLog, Log!Spec
-----------------------------------------------------------------------------
(* The LogViewer: what it shows and what is still on its way make up the buffer *)

\* The last Cap of the entries 1 to n.
Kept(n)   == IF n < Cap THEN n ELSE Cap
Window(n) == [i \in 1..Kept(n) |-> n - Kept(n) + i]

\* What the viewer shows, or will when the response comes.
Showing == IF fetch = "read" THEN response ELSE logs

\* The viewer holds the entries up to d, and the later ones follow in their order: first
\* those emitted, then those whose callback has still to run, each in one goroutine.
Upto(d) ==
    /\ Showing = Window(d) /\ d + Len(events) <= pushed
    /\ \A i \in 1..Len(events) : events[i] = d + i
    /\ \A p \in Pusher : emitting[p] # 0 => emitting[p] \in (d + Len(events) + 1)..pushed
    /\ \A n \in (d + Len(events) + 1)..pushed : \E p \in Pusher : emitting[p] = n
    /\ \A p, q \in Pusher : emitting[p] = emitting[q] /\ emitting[p] # 0 => p = q

Undisturbed == fetch \in {"read", "done"} /\ ~disturbed

\* The types that the argument needs.
Shapes ==
    /\ emitting \in [Pusher -> Nat] /\ events \in Seq(Nat)
    /\ fetch \in {"none", "asked", "read", "done"} /\ disturbed \in BOOLEAN
    /\ viewer = "closed" => fetch = "none"

Following ==
    /\ RingInv /\ Shapes
    /\ count = Kept(pushed) /\ Entries = Window(pushed)
    /\ Undisturbed => \E d \in Nat : Upto(d)

LEMMA WindowIs ==
    ASSUME NEW n \in Nat
    PROVE  /\ Kept(n) \in Nat /\ Kept(n) <= n /\ Kept(n) <= Cap /\ Cap \in Nat \ {0}
           /\ Window(n) \in Seq(Nat) /\ Len(Window(n)) = Kept(n)
           /\ \A i \in 1..Kept(n) : Window(n)[i] = n - Kept(n) + i
<1>1. Cap \in Nat \ {0} /\ Kept(n) \in Nat /\ Kept(n) <= n /\ Kept(n) <= Cap
  BY CapAssumption DEF Kept
<1>2. Window(n) \in [1..Kept(n) -> Nat]
  BY <1>1 DEF Window
<1>3. Window(n) \in Seq(Nat) /\ Len(Window(n)) = Kept(n)
  BY <1>1, <1>2
<1> QED
  BY <1>1, <1>3 DEF Window

\* A sequence that grows at its end and forgets its first element when it is full.
LEMMA WindowGrows ==
    ASSUME NEW n \in Nat
    PROVE  Window(n + 1) = Append(IF n < Cap THEN Window(n) ELSE Tail(Window(n)), n + 1)
<1> DEFINE old == IF n < Cap THEN Window(n) ELSE Tail(Window(n))
           k == IF n < Cap THEN n ELSE Cap - 1
<1>1. /\ Window(n) \in Seq(Nat) /\ Len(Window(n)) = Kept(n) /\ Cap \in Nat \ {0}
      /\ \A i \in 1..Kept(n) : Window(n)[i] = n - Kept(n) + i
  BY WindowIs
<1>2. /\ Window(n + 1) \in Seq(Nat) /\ Len(Window(n + 1)) = k + 1
      /\ \A i \in 1..(k + 1) : Window(n + 1)[i] = n - k + i
  <2>1. Kept(n + 1) = k + 1 /\ n + 1 \in Nat
    BY <1>1 DEF Kept
  <2>2. \A i \in 1..(k + 1) : n + 1 - (k + 1) + i = n - k + i
    BY <1>1
  <2> HIDE DEF k
  <2>3. /\ Window(n + 1) \in Seq(Nat) /\ Len(Window(n + 1)) = Kept(n + 1)
        /\ \A i \in 1..Kept(n + 1) : Window(n + 1)[i] = n + 1 - Kept(n + 1) + i
    <3> DEFINE m == n + 1
    <3>1. m \in Nat
      BY <2>1
    <3> HIDE DEF m
    <3>2. /\ Window(m) \in Seq(Nat) /\ Len(Window(m)) = Kept(m)
          /\ \A i \in 1..Kept(m) : Window(m)[i] = m - Kept(m) + i
      BY <3>1, WindowIs
    <3> QED BY <3>2 DEF m
  <2> QED BY <2>1, <2>2, <2>3
<1>3. k \in Nat /\ old \in Seq(Nat) /\ Len(old) = k /\ \A i \in 1..k : old[i] = n - k + i
  <2>1. CASE n < Cap
    BY <1>1, <2>1 DEF Kept
  <2>2. CASE ~(n < Cap)
    <3>1. Kept(n) = Cap /\ Window(n) # <<>>
      BY <1>1, <2>2, EmptySeq DEF Kept
    <3>2. /\ Tail(Window(n)) \in Seq(Nat) /\ Len(Tail(Window(n))) = Cap - 1
          /\ \A i \in 1..(Cap - 1) : Tail(Window(n))[i] = Window(n)[i + 1]
      BY <1>1, <3>1, HeadTailProperties
    <3>3. \A i \in 1..(Cap - 1) : Window(n)[i + 1] = n - (Cap - 1) + i
      BY <1>1, <3>1
    <3> QED BY <1>1, <2>2, <3>2, <3>3
  <2> QED BY <2>1, <2>2
<1> HIDE DEF old, k
<1>4. /\ Append(old, n + 1) \in Seq(Nat) /\ Len(Append(old, n + 1)) = k + 1
      /\ \A i \in 1..k : Append(old, n + 1)[i] = old[i]
      /\ Append(old, n + 1)[k + 1] = n + 1
  BY <1>3, AppendProperties
<1>5. ASSUME NEW i \in 1..(k + 1) PROVE Window(n + 1)[i] = Append(old, n + 1)[i]
  <2>1. CASE i = k + 1
    BY <1>2, <1>3, <1>4, <2>1
  <2>2. CASE i \in 1..k
    BY <1>2, <1>3, <1>4, <2>2
  <2> QED BY <1>3, <2>1, <2>2
<1>6. Window(n + 1) = Append(old, n + 1)
  BY <1>2, <1>4, <1>5, SeqEqual
<1> QED
  BY <1>6 DEF old

\* What the viewer makes of an event is what Push makes of the buffer.
LEMMA AppendedIs ==
    ASSUME NEW n \in Nat, logs = Window(n)
    PROVE  Appended(n + 1) = Window(n + 1)
<1>1. /\ logs \in Seq(Nat) /\ Len(logs) = Kept(n) /\ Cap \in Nat \ {0}
  BY WindowIs
<1>2. CASE n < Cap
  <2>1. Len(logs) < Cap
    BY <1>1, <1>2 DEF Kept
  <2> QED BY <1>2, <2>1, WindowGrows DEF Appended
<1>3. CASE ~(n < Cap)
  <2>1. Len(logs) = Cap /\ logs # <<>> /\ Len(logs) - Cap + 2 = 2
    BY <1>1, <1>3, EmptySeq DEF Kept
  <2>2. Tail(logs) = SubSeq(logs, 2, Len(logs))
    BY <1>1, <2>1, TailIsSubSeq
  <2>3. Window(n + 1) = Append(Tail(logs), n + 1)
    BY <1>3, WindowGrows
  <2>4. Appended(n + 1) = Append(SubSeq(logs, 2, Len(logs)), n + 1)
    <3>1. ~(Len(logs) < Cap)
      BY <1>1, <2>1
    <3> QED BY <2>1, <3>1, Zenon DEF Appended
  <2> QED BY <2>2, <2>3, <2>4, Zenon
<1> QED
  BY <1>2, <1>3

LEMMA FollowingInit == Init => Following
<1> SUFFICES ASSUME Init PROVE Following
  OBVIOUS
<1>1. RingInv /\ count = 0 /\ pushed = 0 /\ Kept(0) = 0 /\ 0 \in Nat
  BY RingInvInit, CapAssumption DEF Init, Kept
<1>2. Entries = Window(0)
  <2>1. Entries \in Seq(Nat) /\ Len(Entries) = 0
    BY <1>1, EntriesAre DEF Listing
  <2>2. Window(0) \in Seq(Nat) /\ Len(Window(0)) = 0
    BY <1>1, WindowIs
  <2> QED BY <2>1, <2>2, EmptySeq
<1>3. Shapes /\ ~Undisturbed
  BY EmptySeq DEF Init, Shapes, Undisturbed
<1> QED
  BY <1>1, <1>2, <1>3 DEF Following

LEMMA ShapesNext ==
    ASSUME RingInv, Shapes, [Next]_vars
    PROVE  Shapes'
<1>1. ASSUME NEW p \in Pusher, Push(p) PROVE Shapes'
  <2>1. pushed + 1 \in Nat
    BY CapAssumption DEF RingInv
  <2> QED BY <1>1, <2>1 DEF Push, Shapes, viewerVars
<1>2. ASSUME NEW p \in Pusher, OnPush(p) PROVE Shapes'
  <2>1. emitting[p] \in Nat
    BY DEF Shapes
  <2>2. events' \in Seq(Nat)
    BY <1>2, <2>1, AppendProperties DEF OnPush, Shapes
  <2>3. disturbed' \in BOOLEAN
    BY <1>2 DEF OnPush, Shapes
  <2>4. emitting' \in [Pusher -> Nat]
    BY <1>2 DEF OnPush, Shapes
  <2>5. UNCHANGED viewerVars
    BY <1>2 DEF OnPush
  <2> QED BY <2>2, <2>3, <2>4, <2>5 DEF Shapes, viewerVars
<1>3. CASE Open \/ Subscribe \/ Close
  BY <1>3 DEF Open, Subscribe, Close, Shapes
<1>4. CASE GetLogs \/ Respond
  BY <1>4 DEF GetLogs, Respond, Pending, Shapes
<1>5. CASE Deliver
  <2>1. events' \in Seq(Nat)
    BY <1>5, HeadTailProperties DEF Deliver, Shapes
  <2> QED BY <1>5, <2>1 DEF Deliver, Shapes
<1>6. CASE UNCHANGED vars
  BY <1>6 DEF vars, viewerVars, Shapes
<1> QED
  BY <1>1, <1>2, <1>3, <1>4, <1>5, <1>6 DEF Next, Settled
\* Push keeps the buffer a window on what was pushed.
LEMMA WindowNext ==
    ASSUME RingInv, [Next]_vars, count = Kept(pushed), Entries = Window(pushed)
    PROVE  count' = Kept(pushed') /\ Entries' = Window(pushed')
<1>1. ASSUME NEW p \in Pusher, Push(p)
      PROVE  count' = Kept(pushed') /\ Entries' = Window(pushed')
  <2>1. pushed \in Nat /\ pushed' = pushed + 1 /\ Cap \in Nat \ {0}
    BY <1>1, CapAssumption DEF RingInv, Push
  <2>2. count' = IF count < Cap THEN count + 1 ELSE count
    BY <1>1, PushCounts
  <2>3. CASE count < Cap
    <3>1. pushed < Cap
      BY <2>1, <2>3 DEF Kept
    <3>2. Entries' = Append(Entries, pushed + 1)
      BY <1>1, <2>3, PushAppends
    <3>3. Window(pushed + 1) = Append(Window(pushed), pushed + 1)
      BY <2>1, <3>1, WindowGrows
    <3>4. count' = Kept(pushed + 1)
      BY <2>1, <2>2, <2>3, <3>1 DEF Kept
    <3> QED BY <2>1, <3>2, <3>3, <3>4, Zenon
  <2>4. CASE ~(count < Cap)
    <3>1. ~(pushed < Cap) /\ count = Cap
      BY <2>1, <2>4 DEF Kept
    <3>2. Entries' = Append(Tail(Entries), pushed + 1)
      BY <1>1, <3>1, PushReplaces
    <3>3. Window(pushed + 1) = Append(Tail(Window(pushed)), pushed + 1)
      BY <2>1, <3>1, WindowGrows
    <3>4. count' = Kept(pushed + 1)
      BY <2>1, <2>2, <2>4, <3>1 DEF Kept
    <3> QED BY <2>1, <3>2, <3>3, <3>4, Zenon
  <2> QED BY <2>3, <2>4
<1>2. CASE UNCHANGED ringVars
  BY <1>2 DEF ringVars, Entries, Kept, Window
<1> QED
  BY <1>1, <1>2, OnlyPush

\* A new entry follows those that are on their way.
LEMMA PushFollows ==
    ASSUME RingInv, Shapes, NEW p \in Pusher, Push(p), NEW d \in Nat, Upto(d)
    PROVE  Upto(d)'
<1>1. /\ pushed \in Nat /\ pushed' = pushed + 1 /\ emitting[p] = 0
      /\ emitting' = [emitting EXCEPT ![p] = pushed + 1]
      /\ emitting \in [Pusher -> Nat] /\ Len(events) \in Nat
      /\ UNCHANGED <<events, viewerVars>>
  BY CapAssumption, LenProperties DEF RingInv, Push, Shapes
<1>2. Showing' = Window(d)' /\ Len(events)' = Len(events)
  BY <1>1 DEF Upto, Showing, viewerVars, Window, Kept
<1>3. d + Len(events) <= pushed' /\ \A i \in 1..Len(events) : events'[i] = d + i
  BY <1>1 DEF Upto
<1>4. ASSUME NEW q \in Pusher, emitting'[q] # 0
      PROVE  emitting'[q] \in (d + Len(events) + 1)..pushed'
  <2>1. q = p \/ (q # p /\ emitting'[q] = emitting[q])
    BY <1>1
  <2>2. CASE q = p
    BY <1>1, <2>2 DEF Upto
  <2>3. CASE q # p /\ emitting'[q] = emitting[q]
    BY <1>1, <1>4, <2>3 DEF Upto
  <2> QED BY <2>1, <2>2, <2>3
<1>5. ASSUME NEW n \in (d + Len(events) + 1)..pushed' PROVE \E q \in Pusher : emitting'[q] = n
  <2>1. CASE n = pushed + 1
    BY <1>1, <2>1
  <2>2. CASE n # pushed + 1
    <3>1. n \in (d + Len(events) + 1)..pushed /\ n # 0
      BY <1>1, <2>2
    <3>2. PICK q \in Pusher : emitting[q] = n
      BY <3>1 DEF Upto
    <3> QED BY <1>1, <3>1, <3>2
  <2> QED BY <2>1, <2>2
<1>6. ASSUME NEW q \in Pusher, NEW u \in Pusher, emitting'[q] = emitting'[u], emitting'[q] # 0
      PROVE  q = u
  <2>1. ASSUME NEW x \in Pusher, x # p PROVE emitting'[x] = emitting[x] /\ emitting'[x] # pushed + 1
    BY <1>1, <2>1 DEF Upto
  <2>2. emitting'[p] = pushed + 1
    BY <1>1
  <2> QED BY <1>6, <2>1, <2>2 DEF Upto
<1> QED
  BY <1>1, <1>2, <1>3, <1>4, <1>5, <1>6 DEF Upto

\* The callback of the oldest entry that is not emitted comes first.
LEMMA OnPushFollows ==
    ASSUME RingInv, Shapes, NEW p \in Pusher, OnPush(p), NEW d \in Nat, Upto(d), ~disturbed'
    PROVE  Upto(d)'
<1> DEFINE k == Len(events)
<1>1. /\ pushed \in Nat /\ emitting \in [Pusher -> Nat] /\ k \in Nat /\ events \in Seq(Nat)
      /\ UNCHANGED <<pushed, viewerVars>>
      /\ emitting' = [emitting EXCEPT ![p] = 0] /\ emitting[p] # 0
      /\ events' = Append(events, emitting[p])
  BY CapAssumption, LenProperties DEF RingInv, OnPush, Shapes, ringVars
<1>2. emitting[p] = d + k + 1
  <2>1. emitting[p] \in (d + k + 1)..pushed
    BY <1>1 DEF Upto
  <2>2. \A q \in Pusher : emitting[q] \notin 1..(emitting[p] - 1)
    BY DEF OnPush
  <2>3. CASE emitting[p] # d + k + 1
    <3>1. d + k + 1 \in (d + k + 1)..pushed /\ d + k + 1 \in 1..(emitting[p] - 1)
      <4>1. k \in Nat /\ pushed \in Nat
        BY <1>1
      <4> HIDE DEF k
      <4> QED BY <4>1, <2>1, <2>3
    <3>2. \E q \in Pusher : emitting[q] = d + k + 1
      BY <3>1 DEF Upto
    <3> QED BY <2>2, <3>1, <3>2
  <2> QED BY <2>3
<1>3. /\ events' \in Seq(Nat) /\ Len(events') = k + 1
      /\ \A i \in 1..k : events'[i] = events[i]
      /\ events'[k + 1] = d + k + 1
  <2>1. emitting[p] \in Nat
    BY <1>1
  <2> QED BY <1>1, <1>2, <2>1, AppendProperties
<1> HIDE DEF k
<1>k. /\ d + k <= pushed /\ \A i \in 1..k : events[i] = d + i
      /\ \A q \in Pusher : emitting[q] # 0 => emitting[q] \in (d + k + 1)..pushed
      /\ \A n \in (d + k + 1)..pushed : \E q \in Pusher : emitting[q] = n
      /\ \A q, u \in Pusher : emitting[q] = emitting[u] /\ emitting[q] # 0 => q = u
      /\ Showing = Window(d)
  BY DEF Upto, k
<1>4. Showing' = Window(d)'
  BY <1>1, <1>k DEF Showing, viewerVars, Window, Kept
<1>5. \A i \in 1..(k + 1) : events'[i] = d + i
  <2> TAKE i \in 1..(k + 1)
  <2>1. CASE i = k + 1
    BY <1>1, <1>3, <2>1
  <2>2. CASE i \in 1..k
    BY <1>3, <1>k, <2>2
  <2>3. k \in Nat
    BY <1>1
  <2> QED BY <2>1, <2>2, <2>3
<1>6. d + (k + 1) <= pushed
  BY <1>1, <1>2, <1>k
<1>7. ASSUME NEW q \in Pusher, emitting'[q] # 0
      PROVE  q # p /\ emitting'[q] = emitting[q] /\ emitting'[q] \in (d + (k + 1) + 1)..pushed
  <2>1. q # p /\ emitting'[q] = emitting[q]
    BY <1>1, <1>7
  <2>2. emitting[q] # emitting[p]
    BY <1>1, <1>k, <2>1
  <2> QED BY <1>1, <1>2, <1>7, <1>k, <2>1, <2>2
<1>8. ASSUME NEW n \in (d + (k + 1) + 1)..pushed PROVE \E q \in Pusher : emitting'[q] = n
  <2>1. n \in (d + k + 1)..pushed /\ n # emitting[p]
    BY <1>1, <1>2
  <2>2. PICK q \in Pusher : emitting[q] = n
    BY <1>k, <2>1
  <2> QED BY <1>1, <2>1, <2>2
<1>9. \A q, u \in Pusher : emitting'[q] = emitting'[u] /\ emitting'[q] # 0 => q = u
  BY <1>7, <1>k
<1>10. d + Len(events') <= pushed' /\ pushed' = pushed /\ d + Len(events') + 1 = d + (k + 1) + 1
  BY <1>1, <1>3, <1>6
<1> QED
  BY <1>3, <1>4, <1>5, <1>7, <1>8, <1>9, <1>10 DEF Upto

\* The viewer takes up the next entry.
LEMMA DeliverFollows ==
    ASSUME RingInv, Shapes, Deliver, NEW d \in Nat, Upto(d), Undisturbed'
    PROVE  Upto(d + 1)'
<1> DEFINE k == Len(events)
<1>1. /\ fetch = "done" /\ fetch' = "done" /\ viewer = "listening"
      /\ UNCHANGED <<pushed, emitting, response>> /\ events # <<>>
      /\ events' = Tail(events) /\ logs' = Appended(Head(events))
  BY DEF Deliver, Undisturbed, ringVars
<1>2. /\ events \in Seq(Nat) /\ k \in Nat \ {0} /\ Head(events) = events[1]
      /\ Len(events') = k - 1 /\ \A i \in 1..(k - 1) : events'[i] = events[i + 1]
      /\ pushed \in Nat
  BY <1>1, EmptySeq, HeadTailProperties, CapAssumption DEF Shapes, RingInv
<1> HIDE DEF k
<1>3. /\ d + k <= pushed /\ \A i \in 1..k : events[i] = d + i
      /\ \A q \in Pusher : emitting[q] # 0 => emitting[q] \in (d + k + 1)..pushed
      /\ \A n \in (d + k + 1)..pushed : \E q \in Pusher : emitting[q] = n
      /\ \A q, u \in Pusher : emitting[q] = emitting[u] /\ emitting[q] # 0 => q = u
      /\ logs = Window(d)
  BY <1>1 DEF Upto, Showing, k
<1>4. logs' = Window(d + 1)
  <2>1. Head(events) = d + 1
    BY <1>2, <1>3
  <2> QED BY <1>1, <1>3, <2>1, AppendedIs
<1>5. Showing' = Window(d + 1)'
  BY <1>1, <1>4 DEF Showing, Window, Kept
<1>6. \A i \in 1..(k - 1) : events'[i] = (d + 1) + i
  <2> TAKE i \in 1..(k - 1)
  <2>1. i + 1 \in 1..k
    BY <1>2
  <2> QED BY <1>2, <1>3, <2>1
<1>7. (d + 1) + Len(events') = d + k /\ pushed' = pushed /\ emitting' = emitting
  BY <1>1, <1>2
<1> QED
  BY <1>2, <1>3, <1>5, <1>6, <1>7 DEF Upto
LEMMA FollowingNext == Following /\ [Next]_vars => Following'
<1> SUFFICES ASSUME Following, [Next]_vars PROVE Following'
  OBVIOUS
<1>1. /\ RingInv /\ Shapes /\ count = Kept(pushed) /\ Entries = Window(pushed)
      /\ Undisturbed => \E d \in Nat : Upto(d)
  BY DEF Following
<1>2. RingInv' /\ Shapes' /\ count' = Kept(pushed') /\ Entries' = Window(pushed')
  BY <1>1, RingInvNext, ShapesNext, WindowNext
<1>3. Kept(pushed)' = Kept(pushed') /\ Window(pushed)' = Window(pushed')
  BY DEF Kept, Window
<1>4. ASSUME Undisturbed' PROVE \E d \in Nat : Upto(d)'
  <2>1. ASSUME NEW p \in Pusher, Push(p) PROVE \E d \in Nat : Upto(d)'
    <3>1. Undisturbed
      BY <1>4, <2>1 DEF Undisturbed, Push, viewerVars
    <3> QED BY <1>1, <2>1, <3>1, PushFollows
  <2>2. ASSUME NEW p \in Pusher, OnPush(p) PROVE \E d \in Nat : Upto(d)'
    <3>1. Undisturbed /\ ~disturbed'
      BY <1>4, <2>2 DEF Undisturbed, OnPush, viewerVars
    <3> QED BY <1>1, <2>2, <3>1, OnPushFollows
  <2>3. CASE Open \/ Close
    BY <1>4, <2>3 DEF Open, Close, Undisturbed
  <2>4. CASE Subscribe \/ UNCHANGED vars
    <3>1. UNCHANGED <<ringVars, emitting, events, fetch, response, logs, disturbed>>
      BY <2>4 DEF Subscribe, vars, viewerVars
    <3>2. Undisturbed
      BY <1>4, <3>1 DEF Undisturbed
    <3>3. PICK d \in Nat : Upto(d)
      BY <1>1, <3>2
    <3>4. Upto(d)'
      BY <3>1, <3>3 DEF Upto, Showing, Window, Kept, ringVars
    <3> QED BY <3>4
  <2>5. CASE GetLogs
    <3>1. /\ ~Pending /\ response' = Window(pushed) /\ fetch' = "read"
          /\ UNCHANGED <<ringVars, emitting, events>>
      BY <1>1, <1>4, <2>5 DEF GetLogs, Undisturbed
    <3>2. events = <<>> /\ pushed \in Nat /\ \A p \in Pusher : emitting[p] = 0
      BY <1>1, <3>1, CapAssumption DEF Pending, RingInv
    <3>3. Showing' = Window(pushed)' /\ pushed' = pushed /\ Len(events') = 0
      BY <3>1, <3>2, EmptySeq DEF Showing, Window, Kept, ringVars
    <3>4. Upto(pushed)'
      BY <3>1, <3>2, <3>3 DEF Upto
    <3> QED BY <3>2, <3>3, <3>4
  <2>6. CASE Respond
    <3>1. /\ fetch = "read" /\ fetch' = "done" /\ logs' = response
          /\ UNCHANGED <<ringVars, emitting, events, disturbed>>
      BY <2>6 DEF Respond
    <3>2. Undisturbed
      BY <1>4, <3>1 DEF Undisturbed
    <3>3. PICK d \in Nat : Upto(d)
      BY <1>1, <3>2
    <3>4. Upto(d)'
      BY <3>1, <3>3 DEF Upto, Showing, Window, Kept, ringVars
    <3> QED BY <3>4
  <2>7. CASE Deliver
    <3>1. Undisturbed
      BY <1>4, <2>7 DEF Undisturbed, Deliver
    <3>2. PICK d \in Nat : Upto(d)
      BY <1>1, <3>1
    <3>3. Upto(d + 1)'
      BY <1>1, <1>4, <2>7, <3>2, DeliverFollows
    <3>4. d + 1 \in Nat
      OBVIOUS
    <3> QED BY <3>3, <3>4
  <2> QED
    BY <2>1, <2>2, <2>3, <2>4, <2>5, <2>6, <2>7 DEF Next, Settled
<1> QED
  BY <1>2, <1>3, <1>4 DEF Following

LEMMA FollowedAtRest == Following => ViewerFollows
<1> SUFFICES ASSUME Following, fetch = "done", ~Pending, ~disturbed PROVE logs = Entries
  BY DEF ViewerFollows
<1>1. PICK d \in Nat : Upto(d)
  BY DEF Following, Undisturbed
<1>2. pushed \in Nat /\ Len(events) = 0 /\ \A p \in Pusher : emitting[p] = 0
  BY CapAssumption, EmptySeq DEF Following, RingInv, Pending
<1>3. ASSUME d # pushed PROVE FALSE
  <2>1. pushed \in (d + Len(events) + 1)..pushed /\ pushed # 0
    BY <1>1, <1>2, <1>3 DEF Upto
  <2> QED BY <1>1, <1>2, <2>1 DEF Upto
<1> QED
  BY <1>1, <1>3 DEF Following, Upto, Showing

\* The LogViewer at rest shows the buffer, whatever came while and after it was fetched,
\* if no event came before the response or out of order (GetLogs, LogViewer.tsx).
THEOREM ViewerShowsLog == Spec => []ViewerFollows
  BY FollowingInit, FollowingNext, FollowedAtRest, PTL DEF Spec
-----------------------------------------------------------------------------
(* Type correctness *)

LEMMA SeqOfMore ==
    ASSUME NEW S, NEW T, S \subseteq T, NEW q \in Seq(S)
    PROVE  q \in Seq(T)
<1>1. q \in [1..Len(q) -> S] /\ Len(q) \in Nat
  BY LenProperties
<1>2. q \in [1..Len(q) -> T]
  BY <1>1
<1> QED
  BY <1>1, <1>2

\* What is on its way or shown is a number of entries that were pushed.
Numbered ==
    /\ pushed \in Nat /\ emitting \in [Pusher -> 0..pushed]
    /\ events \in Seq(1..pushed) /\ response \in Seq(1..pushed) /\ logs \in Seq(1..pushed)
    /\ Len(response) <= Cap /\ Len(logs) <= Cap
    /\ viewer \in {"closed", "open", "listening"}

LEMMA EntriesNumbered ==
    ASSUME RingInv, Entries = Window(pushed)
    PROVE  Entries \in Seq(1..pushed) /\ Len(Entries) <= Cap
<1>1. pushed \in Nat
  BY CapAssumption DEF RingInv
<1>2. /\ Kept(pushed) \in Nat /\ Kept(pushed) <= pushed /\ Kept(pushed) <= Cap
      /\ Len(Window(pushed)) = Kept(pushed)
  BY <1>1, WindowIs
<1>3. \A i \in 1..Kept(pushed) : pushed - Kept(pushed) + i \in 1..pushed
  BY <1>1, <1>2
<1>4. Window(pushed) \in [1..Kept(pushed) -> 1..pushed]
  BY <1>3 DEF Window
<1>5. Window(pushed) \in Seq(1..pushed)
  <2> DEFINE S == 1..pushed
  <2>1. Window(pushed) \in [1..Kept(pushed) -> S]
    BY <1>4
  <2> HIDE DEF S
  <2>2. Window(pushed) \in Seq(S)
    BY <1>2, <2>1
  <2> QED BY <2>2 DEF S
<1> QED
  BY <1>2, <1>5

\* The viewer has room for one more.
LEMMA AppendedNumbered ==
    ASSUME NEW S, logs \in Seq(S), Len(logs) <= Cap, NEW e \in S
    PROVE  Appended(e) \in Seq(S) /\ Len(Appended(e)) <= Cap
<1> DEFINE old == IF Len(logs) < Cap THEN logs ELSE SubSeq(logs, Len(logs) - Cap + 2, Len(logs))
<1>1. Cap \in Nat \ {0} /\ Len(logs) \in Nat
  BY CapAssumption, LenProperties
<1>2. old \in Seq(S) /\ Len(old) \in Nat /\ Len(old) + 1 <= Cap
  <2>1. CASE Len(logs) < Cap
    BY <1>1, <2>1
  <2>2. CASE ~(Len(logs) < Cap)
    <3>1. Len(logs) = Cap
      BY <1>1, <2>2
    <3>2. logs # <<>> /\ Len(logs) - Cap + 2 = 2
      BY <1>1, <3>1, EmptySeq
    <3>3. SubSeq(logs, 2, Len(logs)) = Tail(logs)
      BY <3>2, TailIsSubSeq
    <3>4. Tail(logs) \in Seq(S) /\ Len(Tail(logs)) = Len(logs) - 1
      BY <3>2, HeadTailProperties
    <3> QED BY <1>1, <2>2, <3>1, <3>2, <3>3, <3>4
  <2> QED BY <2>1, <2>2
<1> HIDE DEF old
<1>3. Append(old, e) \in Seq(S) /\ Len(Append(old, e)) = Len(old) + 1
  BY <1>2, AppendProperties
<1> QED
  BY <1>2, <1>3 DEF Appended, old

LEMMA NumberedNext ==
    ASSUME Following, Numbered, [Next]_vars
    PROVE  Numbered'
<1>1. ASSUME NEW p \in Pusher, Push(p) PROVE Numbered'
  <2>1. pushed' = pushed + 1 /\ emitting' = [emitting EXCEPT ![p] = pushed + 1]
    BY <1>1 DEF Push
  <2>2. pushed \in Nat /\ 1..pushed \subseteq 1..pushed' /\ emitting' \in [Pusher -> 0..pushed']
    BY <2>1 DEF Numbered
  <2>3. UNCHANGED <<events, viewer, response, logs>>
    BY <1>1 DEF Push, viewerVars
  <2>4. events \in Seq(1..pushed') /\ response \in Seq(1..pushed') /\ logs \in Seq(1..pushed')
    BY <2>2, SeqOfMore DEF Numbered
  <2> QED BY <2>1, <2>2, <2>3, <2>4 DEF Numbered
<1>2. ASSUME NEW p \in Pusher, OnPush(p) PROVE Numbered'
  <2>1. emitting[p] \in 1..pushed
    BY <1>2 DEF OnPush, Numbered
  <2>2. events' \in Seq(1..pushed)
    BY <1>2, <2>1, AppendProperties DEF OnPush, Numbered
  <2>3. emitting' \in [Pusher -> 0..pushed]
    BY <1>2 DEF OnPush, Numbered
  <2> QED BY <1>2, <2>2, <2>3 DEF OnPush, Numbered, ringVars, viewerVars
<1>3. CASE Open \/ Subscribe \/ Close \/ Respond
  <2>1. <<>> \in Seq(1..pushed) /\ Len(<<>>) = 0 /\ 0 <= Cap
    BY CapAssumption, EmptySeq
  <2> QED BY <1>3, <2>1 DEF Open, Subscribe, Close, Respond, Numbered, ringVars
<1>4. CASE GetLogs
  <2>1. response' \in Seq(1..pushed) /\ Len(response') <= Cap
    BY <1>4, EntriesNumbered DEF GetLogs, Following
  <2> QED BY <1>4, <2>1 DEF GetLogs, Numbered, ringVars
<1>5. CASE Deliver
  <2>1. events' \in Seq(1..pushed) /\ Head(events) \in 1..pushed
    BY <1>5, HeadTailProperties DEF Deliver, Numbered
  <2>2. logs' \in Seq(1..pushed) /\ Len(logs') <= Cap
    BY <1>5, <2>1, AppendedNumbered DEF Deliver, Numbered
  <2> QED BY <1>5, <2>1, <2>2 DEF Deliver, Numbered, ringVars
<1>6. CASE UNCHANGED vars
  BY <1>6 DEF vars, ringVars, viewerVars, Numbered
<1> QED
  BY <1>1, <1>2, <1>3, <1>4, <1>5, <1>6 DEF Next, Settled

\* Entries are numbered in the order they entered, the counters stay within the ring, and
\* neither a response nor the viewer is longer than the buffer (ring.go, LogViewer.tsx).
THEOREM TypeCorrect == Spec => []TypeOK
<1>1. Init => Numbered
  <2> SUFFICES ASSUME Init PROVE Numbered
    OBVIOUS
  <2>1. <<>> \in Seq(1..pushed) /\ Len(<<>>) = 0 /\ 0 <= Cap
    BY CapAssumption, EmptySeq
  <2> QED BY <2>1 DEF Init, Numbered
<1>2. Following /\ Numbered => TypeOK
  <2> SUFFICES ASSUME Following, Numbered PROVE TypeOK
    OBVIOUS
  <2>1. count <= pushed
    BY CapAssumption DEF Following, RingInv, Kept
  <2> QED BY <2>1 DEF Following, RingInv, Shapes, Numbered, TypeOK
<1> QED
  BY <1>1, <1>2, FollowingInit, FollowingNext, NumberedNext, PTL DEF Spec
=============================================================================
