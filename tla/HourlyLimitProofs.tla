-------------------------- MODULE HourlyLimitProofs --------------------------
(***************************************************************************)
(* Proofs about HourlyLimit, for every set of emails, senders and limits,  *)
(* as long as no limiter command runs more than an hour after its worker   *)
(* read the clock: the counter then outlives every command of its window.  *)
(***************************************************************************)
EXTENDS HourlyLimit, TLAPS

LEMMA WindowContains ==
  ASSUME NEW t \in Nat
  PROVE  HourWindow(t) \in Nat /\ t < WindowEnd(HourWindow(t))
BY HourlyAssumption, SMTT(30) DEF HourWindow, WindowEnd

LEMMA WindowStarted ==
  ASSUME NEW t \in Nat
  PROVE  WindowEnd(HourWindow(t)) <= t + Hour
BY HourlyAssumption, SMTT(30) DEF HourWindow, WindowEnd

LEMMA WindowInRange ==
  ASSUME NEW t \in 0..MaxTime
  PROVE  HourWindow(t) \in Windows
BY HourlyAssumption, SMTT(30) DEF Windows, HourWindow

LEMMA EndIsNat ==
  ASSUME NEW w \in Nat
  PROVE  WindowEnd(w) \in Nat
BY HourlyAssumption, SMTT(30) DEF WindowEnd

LEMMA KeyType ==
  ASSUME TypeOK, NEW e \in Emails
  PROVE  /\ Key(e) \in Keys
         /\ Key(e)[2] = HourWindow(clock[e])
         /\ WindowEnd(Key(e)[2]) \in Nat
         /\ clock[e] < WindowEnd(Key(e)[2])
         /\ UntilNextHour(clock[e]) = WindowEnd(Key(e)[2]) - clock[e]
         /\ UntilNextHour(clock[e]) \in Nat \ {0}
<1>1. clock[e] \in 0..MaxTime /\ clock[e] \in Nat
  BY HourlyAssumption DEF TypeOK
<1>2. HourWindow(clock[e]) \in Windows /\ HourWindow(clock[e]) \in Nat
  BY <1>1, WindowInRange, WindowContains
<1>3. WindowEnd(HourWindow(clock[e])) \in Nat /\ clock[e] < WindowEnd(HourWindow(clock[e]))
  BY <1>1, <1>2, WindowContains, EndIsNat
<1>4. Scope[e] \in Scopes
  BY HourlyAssumption
<1> QED
  BY <1>1, <1>2, <1>3, <1>4 DEF Key, Window, Keys, UntilNextHour

\* A command is at most MaxLag late.
Punctual ==
  \A e \in Emails : pc[e] \in {"reserve", "dedupe"} => now - clock[e] <= MaxLag

\* The counter of a window in which a reservation was granted holds their
\* number, for at least an hour after the window's end.
Counted ==
  \A k \in Keys :
    /\ granted[k] = 0 => count[k] = 0
    /\ granted[k] > 0 => count[k] = granted[k] /\ expires[k] >= WindowEnd(k[2]) + Hour

\* A command of the window, not more than an hour late, reads that number.
LEMMA ReadsGranted ==
  ASSUME TypeOK, Punctual, Counted, MaxLag <= Hour, NEW e \in Emails, pc[e] = "reserve"
  PROVE  Current(e) = granted[Key(e)]
<1>1. Key(e) \in Keys /\ WindowEnd(Key(e)[2]) \in Nat /\ clock[e] < WindowEnd(Key(e)[2])
  BY KeyType
<1>2. now < WindowEnd(Key(e)[2]) + Hour
  BY <1>1, HourlyAssumption DEF TypeOK, Punctual
<1> QED
  BY <1>1, <1>2, HourlyAssumption DEF TypeOK, Counted, Current

Inv == TypeOK /\ Punctual /\ Counted

LEMMA InvStep ==
  ASSUME MaxLag <= Hour
  PROVE  Inv /\ [Next]_vars => Inv'
<1> SUFFICES ASSUME Inv, [Next]_vars PROVE Inv'
  OBVIOUS
<1> USE HourlyAssumption
<1>1. ASSUME NEW e \in Emails, Begin(e) PROVE Inv'
  BY <1>1 DEF Inv, Begin, Goto, keys, history, TypeOK, Punctual, Counted, Labels
<1>2. ASSUME NEW e \in Emails, Reserve(e) PROVE Inv'
  <2> DEFINE k == Key(e)
             end == WindowEnd(k[2])
             ttl == CountTtl(e)
             n == Current(e)
  <2>1. /\ k \in Keys /\ end \in Nat
        /\ ttl \in Nat /\ clock[e] + ttl = end + Hour
    <3>1. /\ k \in Keys /\ end \in Nat
          /\ UntilNextHour(clock[e]) = end - clock[e]
          /\ UntilNextHour(clock[e]) \in Nat
      BY KeyType DEF Inv
    <3>2. clock[e] \in Nat
      BY DEF Inv, TypeOK
    <3>3. ttl = UntilNextHour(clock[e]) + Hour
      BY DEF CountTtl
    <3> HIDE DEF k, end, ttl
    <3> QED
      BY <3>1, <3>2, <3>3
  <2>2. n = granted[k] /\ n \in Nat
    BY <1>2, <2>1, ReadsGranted DEF Inv, TypeOK, Reserve
  <2>3. /\ count' = [count EXCEPT ![k] = n + 1]
        /\ expires' = IF n = 0 THEN [expires EXCEPT ![k] = now + ttl] ELSE expires
        /\ granted' = [granted EXCEPT ![k] = @ + 1]
        /\ pc' = [pc EXCEPT ![e] = "send"]
        /\ UNCHANGED <<now, markExpires, clock, resume, told>>
    BY <1>2 DEF Reserve, Goto
  <2>4. n = 0 => now + ttl >= end + Hour
    BY <2>1 DEF Inv, TypeOK
  <2> HIDE DEF n, k, end, ttl
  <2>5. TypeOK'
    BY <2>1, <2>2, <2>3 DEF Inv, TypeOK, Labels
  <2>6. Punctual'
    BY <2>3 DEF Inv, TypeOK, Punctual
  <2>7. Counted'
    <3> SUFFICES ASSUME NEW j \in Keys
                 PROVE  /\ granted'[j] = 0 => count'[j] = 0
                        /\ granted'[j] > 0 => /\ count'[j] = granted'[j]
                                              /\ expires'[j] >= WindowEnd(j[2]) + Hour
      BY DEF Counted
    <3>1. CASE j = k
      BY <3>1, <2>1, <2>2, <2>3, <2>4 DEF Inv, TypeOK, Counted, end
    <3>2. CASE j # k
      BY <3>2, <2>1, <2>3 DEF Inv, TypeOK, Counted
    <3> QED
      BY <3>1, <3>2
  <2> QED
    BY <2>5, <2>6, <2>7 DEF Inv
<1>3. ASSUME NEW e \in Emails, Refuse(e) PROVE Inv'
  BY <1>3 DEF Inv, Refuse, Goto, keys, history, TypeOK, Punctual, Counted, Labels
<1>4. ASSUME NEW e \in Emails, ShouldNotify(e) PROVE Inv'
  <2>1. Key(e) \in Keys /\ MarkTtl \in Nat
    BY KeyType DEF Inv, MarkTtl
  <2>2. TypeOK'
    BY <1>4, <2>1 DEF Inv, ShouldNotify, Goto, history, TypeOK, Labels
  <2>3. Punctual'
    BY <1>4 DEF Inv, ShouldNotify, Goto, TypeOK, Punctual
  <2>4. Counted'
    BY <1>4 DEF Inv, ShouldNotify, history, Counted
  <2> QED
    BY <2>2, <2>3, <2>4 DEF Inv
<1>5. ASSUME NEW e \in Emails, Notify(e) PROVE Inv'
  <2>1. Key(e) \in Keys
    BY KeyType DEF Inv
  <2> QED
    BY <1>5, <2>1 DEF Inv, Notify, Goto, keys, TypeOK, Punctual, Counted, Labels
<1>6. ASSUME NEW e \in Emails, Defer(e) PROVE Inv'
  <2>1. RetryAfter(e) \in Nat
    BY KeyType DEF Inv, RetryAfter
  <2> QED
    BY <1>6, <2>1 DEF Inv, Defer, Goto, keys, history, TypeOK, Punctual, Counted, Labels
<1>7. ASSUME NEW e \in Emails, Send(e) PROVE Inv'
  BY <1>7 DEF Inv, Send, Goto, keys, history, TypeOK, Punctual, Counted, Labels
<1>8. CASE Tick
  BY <1>8 DEF Inv, Tick, keys, history, TypeOK, Punctual, Counted
<1>9. CASE UNCHANGED vars
  BY <1>9 DEF Inv, vars, keys, history, TypeOK, Punctual, Counted
<1> QED
  BY <1>1, <1>2, <1>3, <1>4, <1>5, <1>6, <1>7, <1>8, <1>9 DEF Next, TimeUp

THEOREM Invariance ==
  ASSUME MaxLag <= Hour
  PROVE  Spec => []Inv
<1>1. Init => Inv
  BY HourlyAssumption DEF Init, Inv, TypeOK, Punctual, Counted, Labels
<1>2. Inv /\ [Next]_vars => Inv'
  BY InvStep
<1> QED
  BY <1>1, <1>2, PTL DEF Spec

\* The script's three branches are the only ways out of its await.
LEMMA ScriptAnswers ==
  ASSUME TypeOK, [Next]_vars, NEW e \in Emails, pc[e] = "reserve", pc'[e] # "reserve"
  PROVE  \/ Reserve(e) /\ pc'[e] = "send"
         \/ Refuse(e) /\ pc'[e] # "send"
BY DEF Next, Begin, Reserve, Refuse, ShouldNotify, Notify, Defer, Send, Tick, TimeUp,
       vars, Goto, TypeOK

\* A reservation is granted exactly while fewer than the asking email's limit
\* were granted in its sender's window, provided that commands are not more
\* than an hour late.
THEOREM LimitIsKept ==
  ASSUME MaxLag <= Hour
  PROVE  Spec => GrantIffUnderLimit
<1>1. Inv /\ [Next]_vars
        => [\A e \in Emails : pc[e] = "reserve" /\ pc'[e] # "reserve"
              => (pc'[e] = "send" <=> granted[Key(e)] < Limit[e])]_vars
  <2> SUFFICES ASSUME Inv, [Next]_vars, NEW e \in Emails, pc[e] = "reserve", pc'[e] # "reserve"
               PROVE  pc'[e] = "send" <=> granted[Key(e)] < Limit[e]
    OBVIOUS
  <2>1. Current(e) = granted[Key(e)] /\ granted[Key(e)] \in Nat /\ Limit[e] \in Nat \ {0}
    BY ReadsGranted, KeyType, HourlyAssumption DEF Inv, TypeOK
  <2>2. WithinLimit(e) <=> granted[Key(e)] < Limit[e]
    BY <2>1 DEF WithinLimit
  <2>3. \/ WithinLimit(e) /\ pc'[e] = "send"
        \/ ~WithinLimit(e) /\ pc'[e] # "send"
    BY ScriptAnswers DEF Reserve, Refuse, Inv
  <2> QED
    BY <2>2, <2>3
<1>2. Spec => []Inv
  BY Invariance
<1> QED
  BY <1>1, <1>2, PTL DEF Spec, GrantIffUnderLimit

\* Whatever bounds the limit of every email of a sender bounds the
\* reservations of each of its windows.
WindowsCapped ==
  \A k \in Keys, n \in Nat :
    (\A e \in Emails : Scope[e] = k[1] => Limit[e] <= n) => granted[k] <= n

\* No hour window of a sender sees more reservations than the largest limit
\* that an email of the sender has, however many workers ask, however often
\* emails are deferred and tried again, provided that commands are not more
\* than an hour late.
THEOREM WindowsAreCapped ==
  ASSUME MaxLag <= Hour
  PROVE  Spec => []WindowsCapped
<1>1. Init => WindowsCapped
  BY DEF Init, WindowsCapped
<1>2. Inv /\ WindowsCapped /\ [Next]_vars => WindowsCapped'
  <2> SUFFICES ASSUME Inv, WindowsCapped, [Next]_vars, NEW k \in Keys, NEW n \in Nat,
                      \A e \in Emails : Scope[e] = k[1] => Limit[e] <= n
               PROVE  granted'[k] <= n
    BY DEF WindowsCapped
  <2>1. granted[k] <= n
    BY DEF WindowsCapped
  <2>2. ASSUME NEW e \in Emails, Reserve(e) PROVE granted'[k] <= n
    <3>1. /\ Key(e) \in Keys /\ Key(e)[1] = Scope[e]
          /\ Current(e) = granted[Key(e)] /\ granted \in [Keys -> Nat]
          /\ Limit[e] \in Nat \ {0}
      BY <2>2, ReadsGranted, KeyType, HourlyAssumption DEF Inv, TypeOK, Reserve, Key
    <3>2. WithinLimit(e) /\ granted' = [granted EXCEPT ![Key(e)] = @ + 1]
      BY <2>2 DEF Reserve
    <3>3. granted[Key(e)] < Limit[e]
      BY <3>1, <3>2 DEF WithinLimit
    <3>4. k = Key(e) => Limit[e] <= n
      BY <3>1
    <3> QED
      BY <2>1, <3>1, <3>2, <3>3, <3>4
  <2>3. (\E e \in Emails : Reserve(e)) \/ granted' = granted
    BY DEF Next, Begin, Refuse, ShouldNotify, Notify, Defer, Send, Tick, TimeUp, vars, history
  <2> QED
    BY <2>1, <2>2, <2>3
<1>3. Spec => []Inv
  BY Invariance
<1> QED
  BY <1>1, <1>2, <1>3, PTL DEF Spec

-----------------------------------------------------------------------------
(* What holds however late the commands are *)

LEMMA TypeStep == TypeOK /\ [Next]_vars => TypeOK'
<1> SUFFICES ASSUME TypeOK, [Next]_vars PROVE TypeOK'
  OBVIOUS
<1> USE HourlyAssumption
<1>1. ASSUME NEW e \in Emails, Begin(e) PROVE TypeOK'
  BY <1>1 DEF Begin, Goto, keys, history, TypeOK, Labels
<1>2. ASSUME NEW e \in Emails, Reserve(e) PROVE TypeOK'
  <2> DEFINE k == Key(e)
             ttl == CountTtl(e)
             n == Current(e)
  <2>1. k \in Keys /\ ttl \in Nat
    BY KeyType DEF CountTtl
  <2>2. n \in Nat /\ n <= granted[k]
    BY <2>1 DEF Current, TypeOK
  <2>3. /\ count' = [count EXCEPT ![k] = n + 1]
        /\ expires' = IF n = 0 THEN [expires EXCEPT ![k] = now + ttl] ELSE expires
        /\ granted' = [granted EXCEPT ![k] = @ + 1]
        /\ pc' = [pc EXCEPT ![e] = "send"]
        /\ UNCHANGED <<now, markExpires, clock, resume, told>>
    BY <1>2 DEF Reserve, Goto
  <2> HIDE DEF n, k, ttl
  <2> QED
    BY <2>1, <2>2, <2>3 DEF TypeOK, Labels
<1>3. ASSUME NEW e \in Emails, Refuse(e) PROVE TypeOK'
  BY <1>3 DEF Refuse, Goto, keys, history, TypeOK, Labels
<1>4. ASSUME NEW e \in Emails, ShouldNotify(e) PROVE TypeOK'
  <2>1. Key(e) \in Keys /\ MarkTtl \in Nat
    BY KeyType DEF MarkTtl
  <2> QED
    BY <1>4, <2>1 DEF ShouldNotify, Goto, history, TypeOK, Labels
<1>5. ASSUME NEW e \in Emails, Notify(e) PROVE TypeOK'
  <2>1. Key(e) \in Keys
    BY KeyType
  <2> QED
    BY <1>5, <2>1 DEF Notify, Goto, keys, TypeOK, Labels
<1>6. ASSUME NEW e \in Emails, Defer(e) PROVE TypeOK'
  <2>1. RetryAfter(e) \in Nat
    BY KeyType DEF RetryAfter
  <2> QED
    BY <1>6, <2>1 DEF Defer, Goto, keys, history, TypeOK, Labels
<1>7. ASSUME NEW e \in Emails, Send(e) PROVE TypeOK'
  BY <1>7 DEF Send, Goto, keys, history, TypeOK, Labels
<1>8. CASE Tick
  BY <1>8 DEF Tick, keys, history, TypeOK
<1>9. CASE UNCHANGED vars
  BY <1>9 DEF vars, keys, history, TypeOK
<1> QED
  BY <1>1, <1>2, <1>3, <1>4, <1>5, <1>6, <1>7, <1>8, <1>9 DEF Next, TimeUp

\* Type correctness, and the counter never counts what was not granted, for
\* commands of any lateness.
THEOREM TypeCorrect == Spec => []TypeOK
<1>1. Init => TypeOK
  BY HourlyAssumption DEF Init, TypeOK, Labels
<1> QED
  BY <1>1, TypeStep, PTL DEF Spec

\* An email is refused only when its limit was granted in its sender's window:
\* a lost or late counter errs on the side of sending.
RefusedAtLimit ==
  [][\A e \in Emails : pc[e] = "reserve" /\ pc'[e] \notin {"reserve", "send"}
       => granted[Key(e)] >= Limit[e]]_vars

\* Nobody is refused below the limit, for commands of any lateness: the counter
\* may forget a reservation but never counts one that was not granted.
THEOREM NoneRefusedBelowLimit == Spec => RefusedAtLimit
<1>1. TypeOK /\ [Next]_vars
        => [\A e \in Emails : pc[e] = "reserve" /\ pc'[e] \notin {"reserve", "send"}
              => granted[Key(e)] >= Limit[e]]_vars
  <2> SUFFICES ASSUME TypeOK, [Next]_vars, NEW e \in Emails,
                      pc[e] = "reserve", pc'[e] \notin {"reserve", "send"}
               PROVE  granted[Key(e)] >= Limit[e]
    OBVIOUS
  <2>1. ~WithinLimit(e)
    BY ScriptAnswers DEF Refuse
  <2>2. /\ Key(e) \in Keys /\ Limit[e] \in Nat
        /\ count[Key(e)] \in Nat /\ granted[Key(e)] \in Nat
        /\ count[Key(e)] <= granted[Key(e)]
    BY KeyType, HourlyAssumption DEF TypeOK
  <2> QED
    BY <2>1, <2>2 DEF WithinLimit, Current
<1> QED
  BY <1>1, TypeCorrect, PTL DEF Spec, RefusedAtLimit

LEMMA LaterWindow ==
  ASSUME NEW t \in Nat, NEW w \in Nat, t >= WindowEnd(w)
  PROVE  HourWindow(t) > w
BY HourlyAssumption, SMTT(30) DEF HourWindow, WindowEnd

\* A deferred email is due when its window has ended.
DeferredToEnd ==
  \A e \in Emails : pc[e] = "deferred" => resume[e] >= WindowEnd(Window(e))

LEMMA DeferredStep == TypeOK /\ DeferredToEnd /\ [Next]_vars => DeferredToEnd'
<1> SUFFICES ASSUME TypeOK, DeferredToEnd, [Next]_vars,
                    NEW e \in Emails, pc'[e] = "deferred"
             PROVE  resume'[e] >= WindowEnd(Window(e))'
  BY DEF DeferredToEnd
<1>1. ASSUME Defer(e) PROVE resume'[e] >= WindowEnd(Window(e))'
  <2>1. /\ RetryAfter(e) = WindowEnd(Window(e)) - clock[e]
        /\ WindowEnd(Window(e)) \in Nat
        /\ clock[e] \in Nat /\ now \in Nat /\ clock[e] <= now
    <3>1. Key(e)[2] = Window(e)
      BY DEF Key
    <3>2. clock[e] \in Nat /\ now \in Nat /\ clock[e] <= now
      BY HourlyAssumption DEF TypeOK
    <3> QED
      BY <3>1, <3>2, KeyType DEF RetryAfter
  <2>2. resume'[e] = now + RetryAfter(e) /\ clock' = clock
    BY <1>1 DEF Defer, TypeOK
  <2>3. WindowEnd(Window(e))' = WindowEnd(Window(e))
    BY <2>2 DEF WindowEnd, Window, HourWindow
  <2> HIDE DEF RetryAfter
  <2> QED
    BY <2>1, <2>2, <2>3
<1>2. ASSUME pc[e] = "deferred", clock'[e] = clock[e], resume'[e] = resume[e]
      PROVE  resume'[e] >= WindowEnd(Window(e))'
  BY <1>2 DEF DeferredToEnd, WindowEnd, Window, HourWindow
<1>3. Defer(e) \/ (pc[e] = "deferred" /\ clock'[e] = clock[e] /\ resume'[e] = resume[e])
  BY DEF Next, Begin, Reserve, Refuse, ShouldNotify, Notify, Defer, Send, Tick, TimeUp,
         vars, keys, history, Goto, TypeOK
<1> QED
  BY <1>1, <1>2, <1>3

\* An email that the limit refused is due in a later window, for commands of
\* any lateness.
THEOREM RefusedComeBackLater == Spec => []DeferredPastWindow
<1>1. Init => DeferredToEnd
  BY DEF Init, DeferredToEnd
<1>2. TypeOK /\ DeferredToEnd => DeferredPastWindow
  <2> SUFFICES ASSUME TypeOK, DeferredToEnd, NEW e \in Emails, pc[e] = "deferred"
               PROVE  HourWindow(resume[e]) > Window(e)
    BY DEF DeferredPastWindow
  <2>1. resume[e] \in Nat /\ clock[e] \in Nat
    BY HourlyAssumption DEF TypeOK
  <2>2. Window(e) \in Nat
    BY <2>1, WindowContains DEF Window
  <2>3. resume[e] >= WindowEnd(Window(e))
    BY DEF DeferredToEnd
  <2> QED
    BY <2>1, <2>2, <2>3, LaterWindow
<1> QED
  BY <1>1, <1>2, DeferredStep, TypeCorrect, PTL DEF Spec

-----------------------------------------------------------------------------
(* Slack hears once *)

\* Of one key at most one worker has won the mark and not yet told Slack, none
\* when Slack was told, and the mark outlives the window by an hour.
Marked ==
  /\ \A e, f \in Emails : pc[e] = "notify" /\ pc[f] = "notify" /\ Key(e) = Key(f) => e = f
  /\ \A e \in Emails : pc[e] = "notify" =>
       told[Key(e)] = 0 /\ markExpires[Key(e)] >= WindowEnd(Key(e)[2]) + Hour
  /\ \A k \in Keys : told[k] > 0 => markExpires[k] >= WindowEnd(k[2]) + Hour

LEMMA MarkedStep ==
  ASSUME MaxLag <= Hour
  PROVE  Inv /\ Marked /\ ToldOnce /\ [Next]_vars => (Marked /\ ToldOnce)'
<1> SUFFICES ASSUME Inv, Marked, ToldOnce, [Next]_vars PROVE (Marked /\ ToldOnce)'
  OBVIOUS
<1> USE HourlyAssumption
<1> DEFINE Quiet ==
      /\ UNCHANGED <<told, markExpires>>
      /\ \A e \in Emails : pc'[e] = "notify" => pc[e] = "notify" /\ clock'[e] = clock[e]
<1>1. ASSUME Quiet PROVE (Marked /\ ToldOnce)'
  BY <1>1 DEF Marked, ToldOnce, Key, Window, HourWindow, WindowEnd
<1>2. ASSUME NEW e \in Emails, Begin(e) PROVE Quiet
  BY <1>2 DEF Begin, Goto, keys, history, Inv, TypeOK
<1>3. ASSUME NEW e \in Emails, Reserve(e) PROVE Quiet
  BY <1>3 DEF Reserve, Goto, Inv, TypeOK
<1>4. ASSUME NEW e \in Emails, Refuse(e) PROVE Quiet
  BY <1>4 DEF Refuse, Goto, keys, history, Inv, TypeOK
<1>5. ASSUME NEW e \in Emails, ShouldNotify(e) PROVE (Marked /\ ToldOnce)'
  <2>1. /\ Key(e) \in Keys /\ WindowEnd(Key(e)[2]) \in Nat
        /\ clock[e] < WindowEnd(Key(e)[2])
    BY KeyType DEF Inv
  <2>2. now < WindowEnd(Key(e)[2]) + Hour
    BY <1>5, <2>1 DEF Inv, TypeOK, Punctual, ShouldNotify
  <2>3. CASE now < markExpires[Key(e)]
    <3>1. Quiet
      BY <1>5, <2>3 DEF ShouldNotify, Goto, history, Inv, TypeOK
    <3> QED
      BY <1>1, <3>1
  <2>4. CASE ~(now < markExpires[Key(e)])
    <3>1. told[Key(e)] = 0
      BY <2>1, <2>2, <2>4 DEF Marked, Inv, TypeOK
    <3>2. \A f \in Emails : pc[f] = "notify" => Key(f) # Key(e)
      BY <2>1, <2>2, <2>4 DEF Marked, Inv, TypeOK
    <3>3. now + MarkTtl >= WindowEnd(Key(e)[2]) + Hour
      <4>1. clock[e] \in Nat /\ now \in Nat /\ clock[e] <= now
        BY DEF Inv, TypeOK
      <4>2. Key(e)[2] = HourWindow(clock[e])
        BY KeyType DEF Inv
      <4>3. WindowEnd(Key(e)[2]) <= clock[e] + Hour
        BY <4>1, <4>2, WindowStarted
      <4> QED
        BY <2>1, <4>1, <4>3 DEF MarkTtl
    <3>4. /\ pc' = [pc EXCEPT ![e] = "notify"]
          /\ markExpires' = [markExpires EXCEPT ![Key(e)] = now + MarkTtl]
          /\ UNCHANGED <<clock, told>>
      BY <1>5, <2>4 DEF ShouldNotify, Goto, history
    <3>5. \A f \in Emails : Key(f)' = Key(f)
      BY <3>4 DEF Key, Window, HourWindow
    <3> QED
      BY <2>1, <3>1, <3>2, <3>3, <3>4, <3>5 DEF Marked, ToldOnce, Inv, TypeOK, WindowEnd
  <2> QED
    BY <2>3, <2>4
<1>6. ASSUME NEW e \in Emails, Notify(e) PROVE (Marked /\ ToldOnce)'
  <2>1. \A f \in Emails : Key(f) \in Keys
    BY KeyType DEF Inv
  <2>2. \A f \in Emails : Key(f)' = Key(f)
    BY <1>6 DEF Notify, Key, Window, HourWindow
  <2>3. /\ pc[e] = "notify"
        /\ pc' = [pc EXCEPT ![e] = "defer"]
        /\ markExpires' = markExpires
        /\ told' = [told EXCEPT ![Key(e)] = @ + 1] \/ told' = told
    BY <1>6 DEF Notify, Goto, keys
  <2>4. /\ told[Key(e)] = 0
        /\ markExpires[Key(e)] >= WindowEnd(Key(e)[2]) + Hour
        /\ \A f \in Emails : f # e /\ pc[f] = "notify" => Key(f) # Key(e)
    BY <2>3 DEF Marked
  <2>5. ToldOnce'
    BY <2>1, <2>3, <2>4 DEF ToldOnce, Inv, TypeOK
  <2>6. \A f \in Emails : pc'[f] = "notify" => f # e /\ pc[f] = "notify"
    BY <2>3 DEF Inv, TypeOK
  <2>7. \A f \in Emails : pc'[f] = "notify" => told'[Key(f)] = told[Key(f)]
    BY <2>1, <2>3, <2>4, <2>6 DEF Inv, TypeOK
  <2>8. \A k \in Keys : told'[k] > 0 => k = Key(e) \/ told[k] > 0
    BY <2>3 DEF Inv, TypeOK
  <2>9. Marked'
    BY <2>2, <2>3, <2>4, <2>6, <2>7, <2>8 DEF Marked, WindowEnd
  <2> QED
    BY <2>5, <2>9
<1>7. ASSUME NEW e \in Emails, Defer(e) PROVE Quiet
  BY <1>7 DEF Defer, Goto, keys, history, Inv, TypeOK
<1>8. ASSUME NEW e \in Emails, Send(e) PROVE Quiet
  BY <1>8 DEF Send, Goto, keys, history, Inv, TypeOK
<1>9. ASSUME Tick PROVE Quiet
  BY <1>9 DEF Tick, keys, history
<1>10. ASSUME UNCHANGED vars PROVE Quiet
  BY <1>10 DEF vars, keys, history
<1> QED
  <2> HIDE DEF Quiet
  <2> QED
    BY <1>1, <1>2, <1>3, <1>4, <1>5, <1>6, <1>7, <1>8, <1>9, <1>10 DEF Next, TimeUp

\* Slack hears of a sender's limit at most once a window, provided that
\* commands are not more than an hour late.
THEOREM SlackIsToldOnce ==
  ASSUME MaxLag <= Hour
  PROVE  Spec => []ToldOnce
<1>1. Init => Marked /\ ToldOnce
  BY DEF Init, Marked, ToldOnce
<1> QED
  BY <1>1, MarkedStep, Invariance, PTL DEF Spec
=============================================================================
