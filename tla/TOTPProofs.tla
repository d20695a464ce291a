------------------------------ MODULE TOTPProofs ------------------------------
(***************************************************************************)
(* Proofs about the time of a code: that the TOTP thread generates for     *)
(* every step once, and how old the code on a client's screen can be.      *)
(***************************************************************************)
EXTENDS TOTP, TLAPS

-----------------------------------------------------------------------------
\* Time steps

\* The second in which step k begins.
Start(k) == k * INTERVAL

\* Steps begin INTERVAL seconds apart, in order.
LEMMA Starts ==
  /\ Start(0) = 0
  /\ \A k \in Int : Start(k) \in Int /\ Start(k + 1) = Start(k) + INTERVAL
  /\ \A k, n \in Int : k <= n => Start(k) <= Start(n)
<1>1. INTERVAL \in Int /\ INTERVAL > 0
  BY TOTPAssumption
<1>2. \A k, n \in Int : k <= n => k * INTERVAL <= n * INTERVAL
  BY <1>1
<1>3. \A k \in Int : (k + 1) * INTERVAL = k * INTERVAL + INTERVAL
  BY <1>1
<1> QED BY <1>1, <1>2, <1>3 DEF Start

\* getRemainingSeconds leads to the start of the next step.
LEMMA StepOf ==
  ASSUME NEW t \in Int
  PROVE  /\ Step(t) \in Int
         /\ Start(Step(t)) <= t /\ t < Start(Step(t)) + INTERVAL
         /\ Remaining(t) \in 1 .. INTERVAL
         /\ t + Remaining(t) = Start(Step(t)) + INTERVAL
<1>1. INTERVAL \in Int /\ INTERVAL > 0
  BY TOTPAssumption
<1>2. /\ t \div INTERVAL \in Int /\ t % INTERVAL \in 0 .. INTERVAL - 1
      /\ t = INTERVAL * (t \div INTERVAL) + (t % INTERVAL)
  BY <1>1
<1>3. INTERVAL * (t \div INTERVAL) = (t \div INTERVAL) * INTERVAL
  BY <1>1, <1>2
<1> QED BY <1>1, <1>2, <1>3 DEF Step, Start, Remaining

\* A second from the start of step k on is of step k or a later one, and a second
\* before the end of step k of step k or an earlier one.
LEMMA StepBounds ==
  ASSUME NEW t \in Int, NEW k \in Int
  PROVE  /\ Start(k) <= t => k <= Step(t)
         /\ t < Start(k) + INTERVAL => Step(t) <= k
<1>1. /\ Step(t) \in Int /\ Start(Step(t)) \in Int /\ Start(k) \in Int /\ INTERVAL \in Int
      /\ Start(Step(t)) <= t /\ t < Start(Step(t)) + INTERVAL
  <2>1. Step(t) \in Int /\ Start(Step(t)) <= t /\ t < Start(Step(t)) + INTERVAL
    BY StepOf
  <2>2. \A m \in Int : Start(m) \in Int
    BY Starts
  <2> QED BY <2>1, <2>2, TOTPAssumption
<1>2. ASSUME Start(k) <= t, Step(t) + 1 <= k PROVE FALSE
  <2>1. Start(Step(t) + 1) <= Start(k) /\ Start(Step(t) + 1) = Start(Step(t)) + INTERVAL
    BY <1>1, <1>2, Starts
  <2> QED BY <1>1, <1>2, <2>1
<1>3. ASSUME t < Start(k) + INTERVAL, k + 1 <= Step(t) PROVE FALSE
  <2>1. Start(k + 1) <= Start(Step(t)) /\ Start(k + 1) = Start(k) + INTERVAL
    BY <1>1, <1>3, Starts
  <2> QED BY <1>1, <1>3, <2>1
<1> QED BY <1>1, <1>2, <1>3

-----------------------------------------------------------------------------
\* The inductive invariant

\* Nobody is later than it may be, and messages stay in the order of their limits.
Clock ==
    /\ now <= thread.limit
    /\ main.pc # "idle" => now <= main.limit
    /\ \A i \in DOMAIN wire : now <= wire[i].limit /\ wire[i].limit <= now + Transit
    /\ \A i, j \in DOMAIN wire : i <= j => wire[i].limit <= wire[j].limit

\* A round of the thread that naps in step n waits for the start of the next one
\* and sends before that one is Late seconds old; its naps that are left are never
\* too few.  The first round has generated nothing yet.
Waiting(n) ==
    /\ thread.step \in {-1, n}
    /\ Start(n) <= now /\ thread.limit = Start(n) + INTERVAL + Late
    /\ thread.pc = "nap" =>
         thread.left >= 1 /\ thread.due + thread.left - 1 >= Start(n) + INTERVAL
    /\ thread.pc = "generate" => now >= Start(n) + INTERVAL

Round ==
    /\ thread.pc \in {"nap", "generate"} => \E n \in 0 .. Step(MaxTime) : Waiting(n)
    /\ \/ thread.pc \in {"nap", "generate"}
       \/ thread.pc = "plan" /\ thread.step = -1 /\ now < INTERVAL /\ thread.limit = now
       \/ /\ thread.step >= 0 /\ Start(thread.step) <= now
          /\ thread.limit = Start(thread.step) + Late

\* The main thread answers within Late seconds of the request.
Answering ==
    /\ main.pc = "generate" => main.limit <= now + Late
    /\ main.pc = "send" =>
         /\ main.step >= 0 /\ Start(main.step) <= now
         /\ main.limit < Start(main.step) + INTERVAL + Late

\* What is on the wire or shown is not of a step to come, and a message arrives
\* before the second step after its own.
OnWire ==
    /\ \A i \in DOMAIN wire :
         /\ wire[i].step >= 0 /\ Start(wire[i].step) <= now
         /\ wire[i].limit < Start(wire[i].step) + 2 * INTERVAL
    /\ client.view = "shown" => client.step >= 0 /\ Start(client.step) <= now

\* When the thread's next message is sent at the latest.
NextSend ==
    IF thread.pc = "plan" THEN now + Remaining(now) + Late ELSE thread.limit

\* What arrives as the i-th message from now (the 0th is on the screen) with the
\* code of step k is replaced before it is too old: by a message behind it, by the
\* main thread's answer, or by the thread's next one.
Covered(i, k) ==
    \/ \E j \in DOMAIN wire :
          i < j /\ wire[j].limit <= Start(k) + 2 * INTERVAL + Late + Transit
    \/ main.pc # "idle" /\ main.limit <= Start(k) + 2 * INTERVAL + Late
    \/ NextSend <= Start(k) + 2 * INTERVAL + Late

Cover ==
    /\ client.view # "closed" => \A i \in DOMAIN wire : Covered(i, wire[i].step)
    /\ client.view = "shown" => Covered(0, client.step)

IInv == TypeOK /\ Clock /\ Round /\ Answering /\ OnWire /\ Cover

\* The main thread's answer comes in time for all that is on the wire or shown, so a
\* push that the server holds back until it has read REQ_CODE_CLIENT is not missed.
InTime(k) == main.limit <= Start(k) + 2 * INTERVAL + Late

Replaces ==
    main.pc = "generate" =>
        /\ \A i \in DOMAIN wire : InTime(wire[i].step)
        /\ client.view = "shown" => InTime(client.step)

-----------------------------------------------------------------------------
\* What the steps of the proof have in common

\* The constants are integers ...
LEMMA Numbers ==
  /\ INTERVAL \in Int /\ INTERVAL > 0 /\ Late \in Int /\ Late >= 0
  /\ Transit \in Int /\ Transit >= 0 /\ Late + Transit < INTERVAL
  /\ MaxTime \in Int /\ INTERVAL <= MaxTime
BY TOTPAssumption

\* ... and so is the start of a step.
LEMMA StartInt ==
  ASSUME NEW k \in Int
  PROVE  Start(k) \in Int
BY Starts

\* Every second of the clock is of a step of the clock.
LEMMA StepsOfTime ==
  ASSUME NEW t \in Time
  PROVE  Step(t) \in 0 .. Step(MaxTime) /\ Step(t) \in Steps /\ Step(t) \in Int
<1>1. t \in Int /\ 0 <= t /\ t <= MaxTime /\ MaxTime \in Int
  BY Numbers DEF Time
<1>2. Step(t) \in Int /\ Step(MaxTime) \in Int /\ Start(Step(t)) <= t
  BY <1>1, StepOf
<1>3. Start(Step(t)) \in Int
  BY <1>2, StartInt
<1>4. Start(Step(t)) <= MaxTime
  BY <1>1, <1>2, <1>3
<1>5. Start(0) <= t
  BY <1>1, Starts
<1>6. 0 <= Step(t) /\ Step(t) <= Step(MaxTime)
  BY <1>1, <1>2, <1>4, <1>5, StepBounds
<1> QED BY <1>2, <1>6 DEF Steps

\* The types, as integers ...
LEMMA Types ==
  ASSUME TypeOK
  PROVE  /\ now \in Int /\ 0 <= now /\ now <= MaxTime /\ now \in Time
         /\ thread.left \in Int /\ thread.due \in Int /\ thread.step \in Int
         /\ thread.limit \in Int /\ thread.pc \in {"plan", "nap", "generate", "send"}
         /\ main.step \in Int /\ main.limit \in Int /\ main.pc \in {"idle", "generate", "send"}
         /\ client.step \in Int
<1>1. Step(MaxTime) \in Int
  BY StepOf, Numbers
<1>2. Steps \subseteq Int /\ Limits \subseteq Int /\ Time \subseteq Int
  BY <1>1, Numbers DEF Time, Steps, Limits
<1>3. now \in Time /\ now \in Int /\ 0 <= now /\ now <= MaxTime
  BY Numbers DEF TypeOK, Time
<1>4. 0 .. INTERVAL \subseteq Int /\ 0 .. MaxTime + 1 \subseteq Int
  BY Numbers
<1> QED BY <1>2, <1>3, <1>4 DEF TypeOK

\* ... and what is on the wire.
LEMMA WireTypes ==
  ASSUME TypeOK, NEW i \in DOMAIN wire
  PROVE  /\ wire[i].step \in Int /\ wire[i].limit \in Int /\ Start(wire[i].step) \in Int
         /\ i \in Int /\ 1 <= i
<1>1. Step(MaxTime) \in Int
  BY StepOf, Numbers
<1>2. Steps \subseteq Int /\ Limits \subseteq Int
  BY <1>1, Numbers DEF Steps, Limits
<1>3. PICK R : R = [step : Steps, remaining : 1 .. INTERVAL, limit : Limits]
  OBVIOUS
<1>4. wire \in Seq(R)
  BY <1>3 DEF TypeOK
<1>5. wire[i] \in R /\ i \in Int /\ 1 <= i
  BY <1>4
<1>6. wire[i].step \in Int /\ wire[i].limit \in Int
  BY <1>2, <1>3, <1>5
<1>7. Start(wire[i].step) \in Int
  BY <1>6, StartInt
<1> QED BY <1>5, <1>6, <1>7

\* The thread sends next at the end of this step or before.
LEMMA NextSendBound ==
  ASSUME TypeOK, Round
  PROVE  /\ NextSend \in Int /\ NextSend <= Start(Step(now)) + INTERVAL + Late
         /\ thread.pc = "plan" => NextSend = Start(Step(now)) + INTERVAL + Late
<1>1. Step(now) \in Int /\ now + Remaining(now) = Start(Step(now)) + INTERVAL
  BY Types, StepOf
<1>2. Start(Step(now)) \in Int
  BY <1>1, StartInt
<1>3. CASE thread.pc = "plan"
  BY <1>1, <1>2, <1>3, Numbers DEF NextSend
<1>4. CASE thread.pc \in {"nap", "generate"}
  <2>1. PICK n \in 0 .. Step(MaxTime) : Waiting(n)
    BY <1>4 DEF Round
  <2>2. n \in Int /\ Start(n) <= now /\ thread.limit = Start(n) + INTERVAL + Late
    BY <2>1 DEF Waiting
  <2>3. n <= Step(now)
    BY <2>2, StepBounds, Types
  <2>4. Start(n) <= Start(Step(now)) /\ Start(n) \in Int
    BY <1>1, <2>2, <2>3, Starts
  <2>5. thread.limit <= Start(Step(now)) + INTERVAL + Late /\ thread.limit \in Int
    BY <1>2, <2>2, <2>4, Numbers
  <2> QED BY <1>4, <2>5 DEF NextSend
<1>5. CASE thread.pc = "send"
  <2>1. Start(thread.step) <= now /\ thread.limit = Start(thread.step) + Late
    BY <1>5 DEF Round
  <2>2. thread.step <= Step(now) /\ thread.step \in Int
    BY <2>1, StepBounds, Types
  <2>3. Start(thread.step) <= Start(Step(now)) /\ Start(thread.step) \in Int
    BY <1>1, <2>2, Starts
  <2>4. thread.limit <= Start(Step(now)) + INTERVAL + Late /\ thread.limit \in Int
    BY <1>2, <2>1, <2>3, Numbers
  <2> QED BY <1>5, <2>4 DEF NextSend
<1> QED BY <1>3, <1>4, <1>5, Types

\* With its message on its way, or its round begun, the thread is still in the step
\* it generated for, and its next round is for the next step.
LEMMA ThisStep ==
  ASSUME TypeOK, Clock, Round, thread.pc \in {"plan", "send"}, thread.step # -1
  PROVE  /\ thread.step = Step(now) /\ Start(thread.step) <= now /\ Start(thread.step) \in Int
         /\ now <= Start(thread.step) + Late /\ thread.limit = Start(thread.step) + Late
<1>1. Start(thread.step) <= now /\ thread.limit = Start(thread.step) + Late
  BY DEF Round
<1>2. now <= Start(thread.step) + Late
  BY <1>1 DEF Clock
<1>3. Start(thread.step) \in Int /\ thread.step \in Int /\ now \in Int
  BY StartInt, Types
<1>4. now < Start(thread.step) + INTERVAL
  BY <1>2, <1>3, Numbers
<1>5. thread.step <= Step(now) /\ Step(now) <= thread.step /\ Step(now) \in Int
  BY <1>1, <1>3, <1>4, StepBounds, StepOf
<1> QED BY <1>1, <1>2, <1>3, <1>5

\* The round that generates does so for the step right after its nap's.
LEMMA NextStep ==
  ASSUME TypeOK, Clock, Round, thread.pc = "generate"
  PROVE  /\ thread.step \in {-1, Step(now) - 1} /\ Start(Step(now)) <= now
         /\ thread.limit = Start(Step(now)) + Late
<1>1. PICK n \in 0 .. Step(MaxTime) : Waiting(n)
  BY DEF Round
<1>2. /\ n \in Int /\ n + 1 \in Int /\ thread.step \in {-1, n} /\ now >= Start(n) + INTERVAL
      /\ thread.limit = Start(n) + INTERVAL + Late /\ now <= thread.limit
  BY <1>1 DEF Waiting, Clock
<1>3. Start(n + 1) = Start(n) + INTERVAL /\ Start(n) \in Int /\ now \in Int
  BY <1>2, Starts, Types
<1>4. Start(n + 1) <= now /\ now < Start(n + 1) + INTERVAL /\ Start(n + 1) \in Int
  BY <1>2, <1>3, Numbers
<1>5. n + 1 <= Step(now) /\ Step(now) <= n + 1 /\ Step(now) \in Int
  BY <1>2, <1>3, <1>4, StepBounds, StepOf
<1>6. Step(now) = n + 1 /\ n = Step(now) - 1
  BY <1>2, <1>5
<1>7. thread.limit = Start(n + 1) + Late
  BY <1>2, <1>3, <1>4, Numbers
<1> QED BY <1>2, <1>4, <1>6, <1>7

-----------------------------------------------------------------------------
\* The initial states and the steps of the thread

LEMMA InitIInv ==
  ASSUME Init
  PROVE  IInv
<1>1. now \in 0 .. INTERVAL - 1 /\ now \in Int /\ 0 <= now /\ now < INTERVAL /\ now \in Time
  BY Numbers DEF Init, Time
<1>2. -1 \in Steps /\ {now, 0} \subseteq Limits /\ 0 \in 0 .. MaxTime + 1
      /\ 0 \in 0 .. INTERVAL /\ 0 \in 0 .. MaxTime + INTERVAL
  <2>1. Step(MaxTime) \in Int /\ 0 <= Step(MaxTime)
    BY StepsOfTime, Numbers DEF Time
  <2> QED BY <1>1, <2>1, Numbers DEF Steps, Limits, Time
<1>3. TypeOK
  BY <1>1, <1>2 DEF Init, TypeOK, MainIdle
<1>4. Clock /\ Answering /\ OnWire
  BY <1>1 DEF Init, Clock, Answering, OnWire, MainIdle
<1>5. Round
  BY <1>1 DEF Init, Round
<1>6. Cover
  BY DEF Init, Cover
<1> QED BY <1>3, <1>4, <1>5, <1>6 DEF IInv

\* Cover is about the messages, the view, the main thread's limit and NextSend only.
LEMMA CoverKept ==
  ASSUME Cover, UNCHANGED <<wire, client, main>>, NextSend' = NextSend
  PROVE  Cover'
<1>1. ASSUME NEW i \in Int, NEW k \in Int, Covered(i, k) PROVE Covered(i, k)'
  BY <1>1 DEF Covered
<1> QED BY <1>1 DEF Cover, Covered

LEMMA TickIInv ==
  ASSUME IInv, Tick
  PROVE  IInv'
<1> USE DEF IInv
<1>1. /\ now' = now + 1 /\ now \in Int /\ now < MaxTime /\ 0 <= now /\ now < thread.limit
      /\ thread.limit \in Int /\ main.limit \in Int
  BY Types DEF Tick
<1>2. TypeOK'
  BY <1>1, Numbers DEF Tick, TypeOK, Time
<1>3. Clock'
  <2>1. ASSUME NEW i \in DOMAIN wire
        PROVE  now + 1 <= wire[i].limit /\ wire[i].limit <= now + 1 + Transit
    <3>1. 1 \in DOMAIN wire /\ 1 <= i /\ wire # <<>> /\ Head(wire) = wire[1]
      BY <2>1 DEF TypeOK
    <3>2. wire[1].limit <= wire[i].limit /\ wire[i].limit <= now + Transit
      BY <3>1 DEF Clock
    <3>3. now < wire[1].limit
      BY <3>1 DEF Tick
    <3>4. wire[1].limit \in Int /\ wire[i].limit \in Int
      BY <3>1, WireTypes
    <3> QED BY <1>1, <3>2, <3>3, <3>4, Numbers
  <2>2. now + 1 <= thread.limit
    BY <1>1
  <2>3. main.pc # "idle" => now + 1 <= main.limit
    BY <1>1 DEF Tick
  <2> QED BY <1>1, <2>1, <2>2, <2>3 DEF Clock, Tick
<1>4. Round' /\ NextSend' = NextSend
  <2>1. CASE thread.pc \in {"nap", "generate"}
    <3>1. PICK n \in 0 .. Step(MaxTime) : Waiting(n)
      BY <2>1 DEF Round
    <3>2. Start(n) \in Int
      BY StartInt
    <3>3. Start(n) <= now + 1
      BY <1>1, <3>1, <3>2 DEF Waiting
    <3>4. thread.pc = "generate" => now + 1 >= Start(n) + INTERVAL
      BY <1>1, <3>1, <3>2, Numbers DEF Waiting
    <3>5. Waiting(n)'
      BY <1>1, <3>1, <3>3, <3>4 DEF Waiting, Tick
    <3> QED BY <2>1, <3>5 DEF Round, NextSend, Tick
  <2>2. CASE thread.pc \in {"plan", "send"}
    <3>1. thread.step # -1
      BY <1>1, <2>2 DEF Round
    <3>2. /\ thread.step = Step(now) /\ Start(thread.step) <= now /\ Start(thread.step) \in Int
          /\ thread.limit = Start(thread.step) + Late /\ thread.step \in Int /\ thread.step >= 0
      BY <2>2, <3>1, ThisStep, Types DEF Round
    <3>3. Start(thread.step) <= now + 1 /\ now + 1 < Start(thread.step) + INTERVAL
      BY <1>1, <3>2, Numbers
    <3>4. Step(now + 1) = thread.step
      <4>1. now + 1 \in Int
        BY <1>1
      <4>2. Step(now + 1) \in Int
        BY <4>1, StepOf
      <4>3. thread.step <= Step(now + 1) /\ Step(now + 1) <= thread.step
        BY <3>2, <3>3, <4>1, StepBounds
      <4> QED BY <3>2, <4>2, <4>3
    <3>5. Round'
      BY <1>1, <2>2, <3>2, <3>3 DEF Round, Tick
    <3>6. now + Remaining(now) = now + 1 + Remaining(now + 1)
      BY <1>1, <3>2, <3>4, StepOf
    <3>7. NextSend' = NextSend
      BY <1>1, <3>6 DEF NextSend, Tick
    <3> QED BY <3>5, <3>7
  <2> QED BY <2>1, <2>2, Types
<1>5. Answering'
  <2>1. main.pc = "send" => Start(main.step) \in Int
    BY StartInt, Types
  <2>2. main.pc = "generate" => main.limit <= now + 1 + Late
    BY <1>1, Numbers DEF Answering
  <2>3. main.pc = "send" => Start(main.step) <= now + 1
    BY <1>1, <2>1 DEF Answering
  <2> QED BY <1>1, <2>2, <2>3 DEF Answering, Tick
<1>6. OnWire'
  <2>1. ASSUME NEW i \in DOMAIN wire PROVE Start(wire[i].step) <= now + 1
    BY <1>1, <2>1, WireTypes DEF OnWire
  <2>2. client.view = "shown" => Start(client.step) <= now + 1
    BY <1>1, StartInt, Types DEF OnWire
  <2> QED BY <1>1, <2>1, <2>2 DEF OnWire, Tick
<1>7. Cover'
  BY <1>4, CoverKept DEF Tick
<1> QED BY <1>2, <1>3, <1>4, <1>5, <1>6, <1>7

LEMMA PlanIInv ==
  ASSUME IInv, Plan
  PROVE  IInv'
<1> USE DEF IInv
<1>1. PICK n : n = Step(now)
  OBVIOUS
<1>2. /\ n \in 0 .. Step(MaxTime) /\ n \in Int /\ Start(n) \in Int /\ now \in Int
      /\ Remaining(now) \in 1 .. INTERVAL /\ Remaining(now) \in Int
      /\ now + Remaining(now) = Start(n) + INTERVAL /\ Start(n) <= now
      /\ 0 <= now /\ now <= MaxTime
  BY <1>1, StepsOfTime, StepOf, StartInt, Types, Numbers
<1>3. /\ thread'.pc = "nap" /\ thread'.left = Remaining(now) /\ thread'.due = now + 1
      /\ thread'.limit = now + Remaining(now) + Late /\ thread'.step = thread.step
      /\ UNCHANGED <<now, main, wire, client, typed>>
  BY DEF Plan, TypeOK
<1>4. TypeOK'
  <2>1. now + Remaining(now) + Late \in Limits /\ now + 1 \in 0 .. MaxTime + 1
        /\ Remaining(now) \in 0 .. INTERVAL
    BY <1>2, Numbers DEF Limits
  <2>2. thread' \in [pc : {"plan", "nap", "generate", "send"}, left : 0 .. INTERVAL,
                     due : 0 .. MaxTime + 1, step : Steps, limit : Limits]
    BY <2>1 DEF Plan, TypeOK
  <2> QED BY <1>3, <2>2 DEF TypeOK
<1>5. thread.step \in {-1, n}
  BY <1>1, ThisStep DEF Plan
<1>6. Start(n) <= now /\ now + Remaining(now) + Late = Start(n) + INTERVAL + Late
      /\ now <= now + Remaining(now) + Late /\ Remaining(now) >= 1
      /\ now + 1 + Remaining(now) - 1 >= Start(n) + INTERVAL
  BY <1>2, Numbers
<1>7. Clock'
  BY <1>3, <1>6 DEF Clock
<1>8. Waiting(n)'
  BY <1>3, <1>5, <1>6 DEF Waiting
<1>9. Round'
  BY <1>2, <1>3, <1>8 DEF Round
<1>10. Answering' /\ OnWire'
  BY <1>3 DEF Answering, OnWire
<1>11. NextSend' = NextSend
  BY <1>3 DEF NextSend, Plan
<1>12. Cover'
  BY <1>3, <1>11, CoverKept
<1> QED BY <1>4, <1>7, <1>9, <1>10, <1>12

LEMMA NapIInv ==
  ASSUME IInv, Nap
  PROVE  IInv'
<1> USE DEF IInv
<1>1. /\ UNCHANGED <<now, main, wire, client, typed>> /\ thread.pc = "nap" /\ now >= thread.due
      /\ thread'.limit = thread.limit /\ thread'.step = thread.step
      /\ \/ /\ thread.left > 1 /\ thread'.left = thread.left - 1 /\ thread'.due = now + 1
            /\ thread'.pc = "nap"
         \/ ~(thread.left > 1) /\ thread'.left = 0 /\ thread'.due = 0 /\ thread'.pc = "generate"
  BY DEF Nap, TypeOK
<1>2. now \in Int /\ 0 <= now /\ now <= MaxTime /\ thread.left \in Int /\ thread.due \in Int
  BY Types
<1>3. TypeOK'
  <2>1. now + 1 \in 0 .. MaxTime + 1 /\ 0 \in 0 .. MaxTime + 1 /\ 0 \in 0 .. INTERVAL
        /\ (thread.left > 1 => thread.left - 1 \in 0 .. INTERVAL)
    <3>1. thread.left \in 0 .. INTERVAL
      BY DEF TypeOK
    <3> QED BY <1>2, <3>1, Numbers
  <2>2. thread' \in [pc : {"plan", "nap", "generate", "send"}, left : 0 .. INTERVAL,
                     due : 0 .. MaxTime + 1, step : Steps, limit : Limits]
    BY <2>1 DEF Nap, TypeOK
  <2> QED BY <1>1, <2>2 DEF TypeOK
<1>4. Clock'
  BY <1>1 DEF Clock
<1>5. Round'
  <2>1. PICK n \in 0 .. Step(MaxTime) : Waiting(n)
    BY <1>1 DEF Round
  <2>2. Start(n) \in Int
    BY StartInt
  <2>3. thread.left >= 1 /\ thread.due + thread.left - 1 >= Start(n) + INTERVAL
    BY <1>1, <2>1 DEF Waiting
  <2>4. /\ thread.left > 1 => thread.left - 1 >= 1
                              /\ now + 1 + (thread.left - 1) - 1 >= Start(n) + INTERVAL
        /\ ~(thread.left > 1) => now >= Start(n) + INTERVAL
    BY <1>1, <1>2, <2>2, <2>3, Numbers
  <2>5. Waiting(n)'
    BY <1>1, <2>1, <2>4 DEF Waiting
  <2> QED BY <1>1, <2>5 DEF Round
<1>6. Answering' /\ OnWire'
  BY <1>1 DEF Answering, OnWire
<1>7. NextSend' = NextSend
  BY <1>1 DEF NextSend
<1>8. Cover'
  BY <1>1, <1>7, CoverKept
<1> QED BY <1>3, <1>4, <1>5, <1>6, <1>8

LEMMA GenerateIInv ==
  ASSUME IInv, Generate
  PROVE  IInv'
<1> USE DEF IInv
<1>1. /\ UNCHANGED <<now, main, wire, client, typed>> /\ thread.pc = "generate"
      /\ thread'.limit = thread.limit /\ thread'.step = Step(now) /\ thread'.pc = "send"
  BY DEF Generate, TypeOK
<1>2. Step(now) \in Steps /\ Step(now) \in Int /\ Step(now) >= 0
  BY StepsOfTime, Types
<1>3. TypeOK'
  <2>1. thread' \in [pc : {"plan", "nap", "generate", "send"}, left : 0 .. INTERVAL,
                     due : 0 .. MaxTime + 1, step : Steps, limit : Limits]
    BY <1>2 DEF Generate, TypeOK
  <2> QED BY <1>1, <2>1 DEF TypeOK
<1>4. Clock'
  BY <1>1 DEF Clock
<1>5. Round'
  BY <1>1, <1>2, NextStep DEF Round
<1>6. Answering' /\ OnWire'
  BY <1>1 DEF Answering, OnWire
<1>7. NextSend' = NextSend
  BY <1>1 DEF NextSend
<1>8. Cover'
  BY <1>1, <1>7, CoverKept
<1> QED BY <1>3, <1>4, <1>5, <1>6, <1>8

-----------------------------------------------------------------------------
\* The messages

\* A message joins the end of the wire.
LEMMA Appended ==
  ASSUME TypeOK, NEW e, wire' = Append(wire, e)
  PROVE  /\ Len(wire) + 1 \in DOMAIN wire' /\ wire'[Len(wire) + 1] = e
         /\ \A i \in DOMAIN wire : i \in DOMAIN wire' /\ wire'[i] = wire[i] /\ i < Len(wire) + 1
         /\ \A i \in DOMAIN wire' : i \in DOMAIN wire \/ i = Len(wire) + 1
         /\ Len(wire) \in Nat
<1>1. PICK R : wire \in Seq(R)
  BY DEF TypeOK
<1> QED BY <1>1

\* The head of the wire leaves it.
LEMMA Removed ==
  ASSUME TypeOK, wire # <<>>, wire' = Tail(wire)
  PROVE  /\ 1 \in DOMAIN wire /\ Head(wire) = wire[1]
         /\ \A i \in DOMAIN wire' :
              i + 1 \in DOMAIN wire /\ wire'[i] = wire[i + 1] /\ i \in Int /\ 1 <= i
         /\ \A i \in DOMAIN wire : i > 1 => i - 1 \in DOMAIN wire' /\ wire'[i - 1] = wire[i]
<1>1. PICK R : wire \in Seq(R)
  BY DEF TypeOK
<1> QED BY <1>1

\* A CODE_RESP that is sent while the second step after its own is far enough away.
LEMMA Pushed ==
  ASSUME IInv, NEW k \in Steps, wire' = Append(wire, CodeResp(k)),
         now' = now, client' = client, k >= 0, Start(k) <= now,
         now + Transit < Start(k) + 2 * INTERVAL
  PROVE  /\ wire' \in Seq([step : Steps, remaining : 1 .. INTERVAL, limit : Limits])
         /\ \A i \in DOMAIN wire' : now <= wire'[i].limit /\ wire'[i].limit <= now + Transit
         /\ \A i, j \in DOMAIN wire' : i <= j => wire'[i].limit <= wire'[j].limit
         /\ OnWire'
<1> USE DEF IInv
<1>1. PICK e : e = CodeResp(k)
  OBVIOUS
<1>2. e.step = k /\ e.limit = now + Transit
  BY <1>1 DEF CodeResp
<1>3. now \in Int /\ 0 <= now /\ now <= MaxTime
  BY Types
<1>4. wire' = Append(wire, e)
  BY <1>1
<1>5. wire' \in Seq([step : Steps, remaining : 1 .. INTERVAL, limit : Limits])
  <2>1. Remaining(now) \in 1 .. INTERVAL /\ now + Transit \in Limits
    BY <1>3, StepOf, Numbers DEF Limits
  <2>2. e \in [step : Steps, remaining : 1 .. INTERVAL, limit : Limits]
    BY <1>1, <2>1 DEF CodeResp
  <2> QED BY <1>4, <2>2 DEF TypeOK
<1>6. \A i \in DOMAIN wire' : \/ i \in DOMAIN wire /\ wire'[i] = wire[i]
                              \/ i = Len(wire) + 1 /\ wire'[i] = e
  BY <1>4, Appended
<1>7. \A i \in DOMAIN wire' : now <= wire'[i].limit /\ wire'[i].limit <= now + Transit
  BY <1>2, <1>3, <1>6, Numbers DEF Clock
<1>8. ASSUME NEW i \in DOMAIN wire', NEW j \in DOMAIN wire', i <= j
      PROVE  wire'[i].limit <= wire'[j].limit
  <2>1. CASE j = Len(wire) + 1
    <3>1. wire'[j] = e
      BY <1>4, <2>1, Appended
    <3> QED BY <1>2, <1>7, <3>1
  <2>2. CASE j \in DOMAIN wire
    <3>1. i # Len(wire) + 1
      <4>1. j \in Int /\ Len(wire) \in Nat /\ j < Len(wire) + 1
        BY <1>4, <2>2, Appended, WireTypes
      <4> QED BY <1>8, <4>1
    <3>2. i \in DOMAIN wire /\ wire'[i] = wire[i] /\ wire'[j] = wire[j]
      BY <1>4, <1>6, <2>2, <3>1, Appended
    <3> QED BY <1>8, <2>2, <3>2 DEF Clock
  <2> QED BY <1>4, <2>1, <2>2, Appended
<1>9. OnWire'
  BY <1>2, <1>6 DEF OnWire
<1> QED BY <1>5, <1>7, <1>8, <1>9

\* The server hears of the view late, and so may hold a push back.
LEMMA SendIInv ==
  ASSUME IInv, Replaces, Send
  PROVE  IInv'
<1> USE DEF IInv
<1>1. /\ UNCHANGED <<now, main, client, typed>> /\ thread.pc = "send"
      /\ thread'.limit = thread.limit /\ thread'.step = thread.step /\ thread'.pc = "plan"
      /\ thread' \in [pc : {"plan", "nap", "generate", "send"}, left : 0 .. INTERVAL,
                      due : 0 .. MaxTime + 1, step : Steps, limit : Limits]
  BY DEF Send, TypeOK
<1>2. thread.step >= 0 /\ thread.step \in Steps /\ thread.step \in Int
  BY <1>1, Types DEF Round, TypeOK
<1>3. /\ Start(thread.step) <= now /\ Start(thread.step) \in Int /\ thread.step = Step(now)
      /\ now <= Start(thread.step) + Late /\ thread.limit = Start(thread.step) + Late
  BY <1>1, <1>2, ThisStep
<1>4. Round' /\ Answering'
  BY <1>1, <1>2, <1>3 DEF Round, Answering
<1>5. now \in Int /\ now + Transit < Start(thread.step) + 2 * INTERVAL
  BY <1>3, Types, Numbers
<1>6. NextSend' = Start(thread.step) + INTERVAL + Late /\ NextSend = thread.limit
  <2>1. now + Remaining(now) = Start(thread.step) + INTERVAL
    BY <1>3, <1>5, StepOf
  <2> QED BY <1>1, <2>1 DEF NextSend
<1>7. CASE wire' = wire /\ (client.view = "closed" \/ main.pc = "generate")
  <2>1. TypeOK' /\ Clock' /\ OnWire'
    BY <1>1, <1>7 DEF TypeOK, Clock, OnWire
  <2>2. CASE client.view = "closed"
    BY <1>1, <1>4, <2>1, <2>2 DEF Cover
  <2>3. CASE main.pc = "generate"
    <3>1. ASSUME NEW i, NEW k, InTime(k) PROVE Covered(i, k)'
      BY <1>1, <2>3, <3>1 DEF Covered, InTime
    <3>2. ASSUME NEW i \in DOMAIN wire, NEW k, k = wire[i].step PROVE Covered(i, k)'
      BY <2>3, <3>1, <3>2 DEF Replaces
    <3>3. ASSUME client.view = "shown", NEW k, k = client.step PROVE Covered(0, k)'
      BY <2>3, <3>1, <3>3 DEF Replaces
    <3>4. Cover'
      BY <1>1, <1>7, <3>2, <3>3 DEF Cover, Covered
    <3> QED BY <1>4, <2>1, <3>4
  <2> QED BY <1>4, <1>7, <2>1, <2>2, <2>3
<1>8. CASE wire' = Append(wire, CodeResp(thread.step))
  <2>1. /\ wire' \in Seq([step : Steps, remaining : 1 .. INTERVAL, limit : Limits])
        /\ \A i \in DOMAIN wire' : now <= wire'[i].limit /\ wire'[i].limit <= now + Transit
        /\ \A i, j \in DOMAIN wire' : i <= j => wire'[i].limit <= wire'[j].limit
        /\ OnWire'
    BY <1>1, <1>2, <1>3, <1>5, <1>8, Pushed
  <2>2. TypeOK' /\ Clock'
    BY <1>1, <2>1 DEF TypeOK, Clock
  <2>3. PICK n : n = Len(wire) + 1
    OBVIOUS
  <2>4. n \in DOMAIN wire' /\ wire'[n].step = thread.step /\ wire'[n].limit = now + Transit
    BY <1>8, <2>3, Appended DEF CodeResp
  <2>5. ASSUME NEW i \in Int, i < n, NEW k \in Int, Covered(i, k) PROVE Covered(i, k)'
    <3>1. CASE \E j \in DOMAIN wire :
                  i < j /\ wire[j].limit <= Start(k) + 2 * INTERVAL + Late + Transit
      BY <1>8, <3>1, Appended DEF Covered
    <3>2. CASE main.pc # "idle" /\ main.limit <= Start(k) + 2 * INTERVAL + Late
      BY <1>1, <3>2 DEF Covered
    <3>3. CASE NextSend <= Start(k) + 2 * INTERVAL + Late
      <4>1. now + Transit <= Start(k) + 2 * INTERVAL + Late + Transit
        BY <1>3, <1>5, <1>6, <3>3, StartInt, Numbers
      <4> QED BY <2>4, <2>5, <4>1 DEF Covered
    <3> QED BY <2>5, <3>1, <3>2, <3>3 DEF Covered
  <2>6. Covered(n, thread.step)'
    <3>1. NextSend' <= Start(thread.step) + 2 * INTERVAL + Late
      BY <1>3, <1>6, Numbers
    <3> QED BY <1>1, <3>1 DEF Covered
  <2>7. ASSUME client.view # "closed", NEW i \in DOMAIN wire', NEW k, k = wire'[i].step
        PROVE  Covered(i, k)'
    <3>1. CASE i \in DOMAIN wire
      <4>1. /\ i < n /\ wire'[i] = wire[i] /\ i \in Int /\ wire[i].step \in Int
            /\ Covered(i, wire[i].step)
        BY <1>8, <2>3, <2>7, <3>1, Appended, WireTypes DEF Cover
      <4> QED BY <2>5, <2>7, <4>1
    <3>2. CASE i = n
      <4>1. k = thread.step
        BY <2>4, <2>7, <3>2
      <4> QED BY <1>1, <2>6, <3>2, <4>1 DEF Covered
    <3> QED BY <1>8, <2>3, <3>1, <3>2, Appended
  <2>8. client.view = "shown" => Covered(0, client.step)'
    <3>1. 0 < n /\ 0 \in Int
      BY <1>8, <2>3, Appended
    <3>2. ASSUME client.view = "shown", NEW k, k = client.step PROVE Covered(0, k)'
      BY <2>5, <3>1, <3>2, Types DEF Cover
    <3> QED BY <1>1, <3>2 DEF Covered
  <2>9. Cover'
    BY <1>1, <2>7, <2>8 DEF Cover, Covered
  <2> QED BY <1>4, <2>1, <2>2, <2>9
<1> QED BY <1>7, <1>8 DEF Send

-----------------------------------------------------------------------------
\* The main thread and the client

LEMMA EnterIInv ==
  ASSUME IInv, Enter
  PROVE  IInv'
<1> USE DEF IInv
<1>1. /\ UNCHANGED <<now, thread, wire, typed>> /\ client.view = "closed"
      /\ client'.view = "asked" /\ client'.step = client.step
      /\ main'.pc = "generate" /\ main'.limit = now + Late /\ main'.step = main.step
  BY DEF Enter, TypeOK
<1>2. now \in Int /\ 0 <= now /\ now <= MaxTime
  BY Types
<1>3. TypeOK'
  <2>1. now + Late \in Limits
    BY <1>2, Numbers DEF Limits
  <2>2. main' \in [pc : {"idle", "generate", "send"}, step : Steps, limit : Limits]
    BY <2>1 DEF Enter, TypeOK
  <2>3. client' \in [view : {"closed", "asked", "shown"}, step : Steps,
                     expiration : 0 .. MaxTime + INTERVAL]
    BY DEF Enter, TypeOK
  <2> QED BY <1>1, <2>2, <2>3 DEF TypeOK
<1>4. Clock' /\ Answering'
  <2>1. now <= now + Late
    BY <1>2, Numbers
  <2> QED BY <1>1, <1>2, <2>1, Numbers DEF Clock, Answering
<1>5. Round' /\ OnWire'
  BY <1>1 DEF Round, Waiting, OnWire
<1>6. ASSUME NEW i \in DOMAIN wire, NEW k, k = wire[i].step PROVE Covered(i, k)'
  <2>1. /\ now <= wire[i].limit /\ wire[i].limit < Start(k) + 2 * INTERVAL
        /\ wire[i].limit \in Int /\ Start(k) \in Int
    BY <1>6, WireTypes DEF Clock, OnWire
  <2>2. now + Late <= Start(k) + 2 * INTERVAL + Late
    BY <1>2, <2>1, Numbers
  <2> QED BY <1>1, <2>2 DEF Covered
<1>7. Cover'
  BY <1>1, <1>6 DEF Cover, Covered
<1> QED BY <1>3, <1>4, <1>5, <1>7

LEMMA MainGenerateIInv ==
  ASSUME IInv, MainGenerate
  PROVE  IInv'
<1> USE DEF IInv
<1>1. /\ UNCHANGED <<now, thread, wire, client, typed>> /\ main.pc = "generate"
      /\ main'.pc = "send" /\ main'.limit = main.limit /\ main'.step = Step(now)
  BY DEF MainGenerate, TypeOK
<1>2. /\ Step(now) \in Steps /\ Step(now) \in Int /\ Step(now) >= 0
      /\ Start(Step(now)) <= now /\ now < Start(Step(now)) + INTERVAL /\ now \in Int
  BY StepsOfTime, StepOf, Types
<1>3. TypeOK'
  <2>1. main' \in [pc : {"idle", "generate", "send"}, step : Steps, limit : Limits]
    BY <1>2 DEF MainGenerate, TypeOK
  <2> QED BY <1>1, <2>1 DEF TypeOK
<1>4. Clock' /\ Round' /\ OnWire'
  BY <1>1 DEF Clock, Round, Waiting, OnWire
<1>5. Answering'
  <2>1. main.limit <= now + Late /\ main.limit \in Int /\ Start(Step(now)) \in Int
    BY <1>1, <1>2, StartInt, Types DEF Answering
  <2>2. main.limit < Start(Step(now)) + INTERVAL + Late
    BY <1>2, <2>1, Numbers
  <2> QED BY <1>1, <1>2, <2>2 DEF Answering
<1>6. ASSUME NEW i \in Int, NEW k \in Int, Covered(i, k) PROVE Covered(i, k)'
  BY <1>1, <1>6 DEF Covered, NextSend
<1>7. Cover'
  <2>1. ASSUME client.view # "closed", NEW i \in DOMAIN wire, NEW k, k = wire[i].step
        PROVE  Covered(i, k)'
    BY <1>6, <2>1, WireTypes DEF Cover
  <2>2. ASSUME client.view = "shown", NEW k, k = client.step PROVE Covered(0, k)'
    BY <1>6, <2>2, Types DEF Cover
  <2> QED BY <1>1, <2>1, <2>2 DEF Cover, Covered
<1> QED BY <1>3, <1>4, <1>5, <1>7

LEMMA MainSendIInv ==
  ASSUME IInv, MainSend
  PROVE  IInv'
<1> USE DEF IInv
<1>1. /\ UNCHANGED <<now, thread, client, typed>> /\ main.pc = "send"
      /\ main' = MainIdle /\ main'.pc = "idle" /\ wire' = Append(wire, CodeResp(main.step))
  BY DEF MainSend, MainIdle
<1>2. /\ main.step \in Int /\ main.step \in Steps /\ main.step >= 0
      /\ now \in Int /\ main.limit \in Int /\ Start(main.step) <= now
      /\ Start(main.step) \in Int /\ now <= main.limit
      /\ main.limit < Start(main.step) + INTERVAL + Late
  BY <1>1, Types, StartInt DEF Answering, Clock, TypeOK
<1>3. now + Transit < Start(main.step) + 2 * INTERVAL
  BY <1>2, Numbers
<1>4. /\ wire' \in Seq([step : Steps, remaining : 1 .. INTERVAL, limit : Limits])
      /\ \A i \in DOMAIN wire' : now <= wire'[i].limit /\ wire'[i].limit <= now + Transit
      /\ \A i, j \in DOMAIN wire' : i <= j => wire'[i].limit <= wire'[j].limit
      /\ OnWire'
  BY <1>1, <1>2, <1>3, Pushed
<1>5. TypeOK'
  <2>1. -1 \in Steps /\ 0 \in Limits
    <3>1. Step(MaxTime) \in Int /\ 0 <= Step(MaxTime)
      BY StepsOfTime, Numbers DEF Time
    <3> QED BY <3>1, Numbers DEF Steps, Limits
  <2> QED BY <1>1, <1>4, <2>1 DEF TypeOK, MainIdle
<1>6. Clock' /\ Round' /\ Answering'
  BY <1>1, <1>4 DEF Clock, Round, Waiting, Answering
<1>7. PICK n : n = Len(wire) + 1
  OBVIOUS
<1>8. n \in DOMAIN wire' /\ wire'[n].step = main.step /\ wire'[n].limit = now + Transit
  BY <1>1, <1>7, Appended DEF CodeResp
<1>9. NextSend' = NextSend /\ NextSend \in Int
  BY <1>1, NextSendBound DEF NextSend
<1>10. ASSUME NEW i \in Int, i < n, NEW k \in Int, Covered(i, k) PROVE Covered(i, k)'
  <2>1. CASE \E j \in DOMAIN wire :
                i < j /\ wire[j].limit <= Start(k) + 2 * INTERVAL + Late + Transit
    BY <1>1, <2>1, Appended DEF Covered
  <2>2. CASE main.pc # "idle" /\ main.limit <= Start(k) + 2 * INTERVAL + Late
    <3>1. now + Transit <= Start(k) + 2 * INTERVAL + Late + Transit
      BY <1>2, <2>2, StartInt, Numbers
    <3> QED BY <1>8, <1>10, <3>1 DEF Covered
  <2>3. CASE NextSend <= Start(k) + 2 * INTERVAL + Late
    BY <1>9, <2>3 DEF Covered
  <2> QED BY <1>10, <2>1, <2>2, <2>3 DEF Covered
<1>11. ASSUME NEW k, k = main.step PROVE Covered(n, k)'
  <2>1. Step(now) \in Int /\ Start(main.step + 1) = Start(main.step) + INTERVAL
        /\ main.step + 1 \in Int
    <3>1. Step(now) \in Int
      BY <1>2, StepOf
    <3>2. Start(main.step + 1) = Start(main.step) + INTERVAL
      BY <1>2, Starts
    <3> QED BY <1>2, <3>1, <3>2
  <2>2. now < Start(main.step + 1) + INTERVAL
    BY <1>2, <2>1, Numbers
  <2>3. Step(now) <= main.step + 1
    BY <1>2, <2>1, <2>2, StepBounds
  <2>4. Start(Step(now)) <= Start(main.step) + INTERVAL /\ Start(Step(now)) \in Int
    BY <2>1, <2>3, Starts
  <2>5. NextSend <= Start(main.step) + 2 * INTERVAL + Late
    BY <1>2, <1>9, <2>4, NextSendBound, Numbers
  <2>6. NextSend <= Start(k) + 2 * INTERVAL + Late
    BY <1>11, <2>5
  <2> QED BY <1>9, <2>6 DEF Covered
<1>12. Cover'
  <2>1. ASSUME client.view # "closed", NEW i \in DOMAIN wire', NEW k, k = wire'[i].step
        PROVE  Covered(i, k)'
    <3>1. CASE i \in DOMAIN wire
      <4>1. /\ i < n /\ wire'[i] = wire[i] /\ i \in Int /\ wire[i].step \in Int
            /\ Covered(i, wire[i].step)
        BY <1>1, <1>7, <2>1, <3>1, Appended, WireTypes DEF Cover
      <4> QED BY <1>10, <2>1, <4>1
    <3>2. CASE i = n
      <4>1. k = main.step
        BY <1>8, <2>1, <3>2
      <4> QED BY <1>11, <3>2, <4>1
    <3> QED BY <1>1, <1>7, <3>1, <3>2, Appended
  <2>2. ASSUME client.view = "shown", NEW k, k = client.step PROVE Covered(0, k)'
    <3>1. 0 < n /\ 0 \in Int
      BY <1>1, <1>7, Appended
    <3> QED BY <1>10, <2>2, <3>1, Types DEF Cover
  <2> QED BY <1>1, <2>1, <2>2 DEF Cover, Covered
<1> QED BY <1>4, <1>5, <1>6, <1>12

LEMMA ReceiveIInv ==
  ASSUME IInv, Receive
  PROVE  IInv'
<1> USE DEF IInv
<1>1. /\ UNCHANGED <<now, thread, main, typed>> /\ wire # <<>> /\ wire' = Tail(wire)
      /\ client'.view = (IF client.view = "closed" THEN "closed" ELSE "shown")
      /\ client'.step = Head(wire).step
  BY DEF Receive
<1>2. 1 \in DOMAIN wire /\ Head(wire) = wire[1]
  BY <1>1, Removed
<1>3. \A i \in DOMAIN wire' :
         i + 1 \in DOMAIN wire /\ wire'[i] = wire[i + 1] /\ i \in Int /\ 1 <= i
  BY <1>1, Removed
<1>4. TypeOK'
  <2>1. PICK R : R = [step : Steps, remaining : 1 .. INTERVAL, limit : Limits]
    OBVIOUS
  <2>2. wire \in Seq(R)
    BY <2>1 DEF TypeOK
  <2>3. wire' \in Seq(R) /\ Head(wire) \in R
    BY <1>1, <2>2
  <2>4. now + Head(wire).remaining \in 0 .. MaxTime + INTERVAL
    <3>1. Head(wire).remaining \in 1 .. INTERVAL
      BY <2>1, <2>3
    <3> QED BY <3>1, Types, Numbers
  <2>5. client' \in [view : {"closed", "asked", "shown"}, step : Steps,
                     expiration : 0 .. MaxTime + INTERVAL]
    BY <2>1, <2>3, <2>4 DEF Receive
  <2> QED BY <1>1, <2>1, <2>3, <2>5 DEF TypeOK
<1>5. Clock'
  <2>1. \A i \in DOMAIN wire' : now <= wire'[i].limit /\ wire'[i].limit <= now + Transit
    BY <1>3 DEF Clock
  <2>2. ASSUME NEW i \in DOMAIN wire', NEW j \in DOMAIN wire', i <= j
        PROVE  wire'[i].limit <= wire'[j].limit
    <3>1. i + 1 <= j + 1
      BY <1>3, <2>2
    <3> QED BY <1>3, <3>1 DEF Clock
  <2> QED BY <1>1, <2>1, <2>2 DEF Clock
<1>6. Round' /\ Answering'
  BY <1>1 DEF Round, Waiting, Answering
<1>7. OnWire'
  BY <1>1, <1>2, <1>3 DEF OnWire
<1>8. ASSUME NEW i \in Int, 0 <= i, NEW k \in Int, Covered(i + 1, k) PROVE Covered(i, k)'
  <2>1. CASE \E j \in DOMAIN wire :
                i + 1 < j /\ wire[j].limit <= Start(k) + 2 * INTERVAL + Late + Transit
    <3>1. PICK j \in DOMAIN wire :
                i + 1 < j /\ wire[j].limit <= Start(k) + 2 * INTERVAL + Late + Transit
      BY <2>1
    <3>2. j \in Int /\ i < j - 1 /\ j > 1
      BY <1>8, <3>1, WireTypes
    <3>3. j - 1 \in DOMAIN wire' /\ wire'[j - 1] = wire[j]
      BY <1>1, <3>2, Removed
    <3> QED BY <3>1, <3>2, <3>3 DEF Covered
  <2>2. CASE \/ main.pc # "idle" /\ main.limit <= Start(k) + 2 * INTERVAL + Late
             \/ NextSend <= Start(k) + 2 * INTERVAL + Late
    BY <1>1, <2>2 DEF Covered, NextSend
  <2> QED BY <1>8, <2>1, <2>2 DEF Covered
<1>9. Cover'
  <2>1. ASSUME client.view # "closed", NEW i \in DOMAIN wire', NEW k, k = wire'[i].step
        PROVE  Covered(i, k)'
    <3>1. PICK m : m = i + 1
      OBVIOUS
    <3>2. m \in DOMAIN wire /\ wire'[i] = wire[m] /\ i \in Int /\ 0 <= i
      BY <1>3, <2>1, <3>1
    <3>3. k \in Int /\ Covered(m, k)
      BY <2>1, <3>2, WireTypes DEF Cover
    <3> QED BY <1>8, <3>1, <3>2, <3>3
  <2>2. ASSUME client.view # "closed", NEW k, k = client'.step PROVE Covered(0, k)'
    <3>1. k = wire[1].step /\ k \in Int /\ Covered(1, k)
      BY <1>1, <1>2, <2>2, WireTypes DEF Cover
    <3>2. 0 \in Int /\ 0 <= 0 /\ 1 = 0 + 1
      OBVIOUS
    <3> QED BY <1>8, <3>1, <3>2
  <2> QED BY <1>1, <2>1, <2>2 DEF Cover, Covered
<1> QED BY <1>4, <1>5, <1>6, <1>7, <1>9

LEMMA ExitIInv ==
  ASSUME IInv, Exit
  PROVE  IInv'
<1> USE DEF IInv
<1>1. /\ UNCHANGED <<now, thread, main, wire, typed>>
      /\ client'.view = "closed" /\ client'.step = client.step
  BY DEF Exit, TypeOK
<1>2. TypeOK'
  BY DEF Exit, TypeOK
<1>3. Clock' /\ Round' /\ Answering' /\ OnWire' /\ Cover'
  BY <1>1 DEF Clock, Round, Waiting, Answering, OnWire, Cover
<1> QED BY <1>2, <1>3

LEMMA CodeIInv ==
  ASSUME IInv, Type \/ Verify
  PROVE  IInv'
<1> USE DEF IInv
<1>1. UNCHANGED <<now, thread, main, wire, client>>
  BY DEF Type, Verify
<1>2. -1 \in Steps /\ 0 \in Limits /\ now + Transit \in Limits
  <2>1. Step(MaxTime) \in Int /\ 0 <= Step(MaxTime)
    BY StepsOfTime, Numbers DEF Time
  <2> QED BY <2>1, Types, Numbers DEF Steps, Limits
<1>3. TypeOK'
  <2>1. CASE Type
    BY <1>2, <2>1 DEF Type, TypeOK
  <2>2. CASE Verify
    BY <1>2, <2>2 DEF Verify, TypeOK
  <2> QED BY <2>1, <2>2
<1>4. Clock' /\ Round' /\ Answering' /\ OnWire'
  BY <1>1 DEF Clock, Round, Waiting, Answering, OnWire
<1>5. NextSend' = NextSend
  BY <1>1 DEF NextSend
<1>6. Cover'
  BY <1>1, <1>5, CoverKept
<1> QED BY <1>3, <1>4, <1>6

\* What is on the wire or shown when REQ_CODE_CLIENT is sent, and what joins it
\* before the answer, is young enough for the answer to come in time.
LEMMA ReplacesStep ==
  ASSUME IInv, Replaces, [Next]_vars
  PROVE  Replaces'
<1> USE DEF IInv
<1>1. CASE UNCHANGED <<wire, client, main>>
  BY <1>1 DEF Replaces, InTime
<1>2. CASE Send
  <2>1. /\ UNCHANGED <<now, main, client>> /\ thread.pc = "send" /\ thread.step # -1
    BY <1>2 DEF Send, Round
  <2>2. CASE UNCHANGED wire
    BY <1>1, <2>1, <2>2
  <2>3. CASE wire' = Append(wire, CodeResp(thread.step))
    <3>1. SUFFICES ASSUME main.pc = "generate", NEW i \in DOMAIN wire'
                   PROVE  InTime(wire'[i].step)
      BY <2>1 DEF Replaces, InTime
    <3>2. CASE i \in DOMAIN wire
      BY <2>3, <3>1, <3>2, Appended DEF Replaces
    <3>3. CASE i = Len(wire) + 1
      <4>1. wire'[i].step = thread.step
        BY <2>3, <3>3, Appended DEF CodeResp
      <4>2. /\ now <= Start(thread.step) + Late /\ Start(thread.step) \in Int
            /\ main.limit <= now + Late /\ main.limit \in Int /\ now \in Int
        BY <2>1, <3>1, ThisStep, Types DEF Answering
      <4>3. main.limit <= Start(thread.step) + 2 * INTERVAL + Late
        BY <4>2, Numbers
      <4> QED BY <4>1, <4>3 DEF InTime
    <3> QED BY <2>3, <3>2, <3>3, Appended
  <2> QED BY <1>2, <2>2, <2>3 DEF Send
<1>3. CASE Enter
  <2>1. /\ UNCHANGED <<now, wire>> /\ client'.view = "asked" /\ main'.limit = now + Late
    BY <1>3 DEF Enter, TypeOK
  <2>2. ASSUME NEW i \in DOMAIN wire
        PROVE  now + Late <= Start(wire[i].step) + 2 * INTERVAL + Late
    <3>1. /\ now <= wire[i].limit /\ wire[i].limit < Start(wire[i].step) + 2 * INTERVAL
          /\ wire[i].limit \in Int /\ Start(wire[i].step) \in Int /\ now \in Int
      BY WireTypes, Types DEF Clock, OnWire
    <3> QED BY <3>1, Numbers
  <2> QED BY <2>1, <2>2 DEF Replaces, InTime
<1>4. CASE MainGenerate \/ MainSend
  <2>1. CASE MainGenerate
    <3>1. main'.pc = "send"
      BY <2>1 DEF MainGenerate, TypeOK
    <3> QED BY <3>1 DEF Replaces
  <2>2. CASE MainSend
    <3>1. main'.pc = "idle"
      BY <2>2 DEF MainSend, MainIdle
    <3> QED BY <3>1 DEF Replaces
  <2> QED BY <1>4, <2>1, <2>2
<1>5. CASE Receive
  <2>1. UNCHANGED main /\ wire # <<>> /\ wire' = Tail(wire) /\ client'.step = Head(wire).step
    BY <1>5 DEF Receive
  <2>2. /\ 1 \in DOMAIN wire /\ Head(wire) = wire[1]
        /\ \A i \in DOMAIN wire' : i + 1 \in DOMAIN wire /\ wire'[i] = wire[i + 1]
    BY <2>1, Removed
  <2> QED BY <2>1, <2>2 DEF Replaces, InTime
<1>6. CASE Exit
  BY <1>6 DEF Exit, Replaces, InTime, TypeOK
<1> QED BY <1>1, <1>2, <1>3, <1>4, <1>5, <1>6
        DEF Next, Tick, Plan, Nap, Generate, Type, Verify, vars

-----------------------------------------------------------------------------
\* The theorems

\* The invariant holds in every reachable state.
THEOREM TOTPInvariance == Spec => []IInv
<1>1. Init => IInv /\ Replaces
  BY InitIInv DEF Init, MainIdle, Replaces
<1>2. IInv /\ Replaces /\ [Next]_vars => IInv' /\ Replaces'
  <2> SUFFICES ASSUME IInv, Replaces, [Next]_vars PROVE IInv'
    BY ReplacesStep
  <2>1. CASE Next
    BY <2>1, TickIInv, PlanIInv, NapIInv, GenerateIInv, SendIInv, EnterIInv,
       MainGenerateIInv, MainSendIInv, ReceiveIInv, ExitIInv, CodeIInv DEF Next
  <2>2. CASE UNCHANGED vars
    BY <2>2 DEF vars, IInv, TypeOK, Clock, Round, Waiting, Answering, OnWire, Cover,
                Covered, NextSend
  <2> QED BY <2>1, <2>2
<1> QED BY <1>1, <1>2, PTL DEF Spec

\* Whatever the interval and the delays: the countdown of m_run never leaves 0 to
\* INTERVAL seconds, what CODE_RESP says remains is never 0, and no time in the state
\* leaves the range that the clock's bound gives it.
THEOREM TOTPTypeCorrect == Spec => []TypeOK
<1>1. IInv => TypeOK
  BY DEF IInv
<1> QED BY <1>1, TOTPInvariance, PTL

\* m_run generates for every time step, and once, for every interval and all delays
\* that add up to less than one: a nap may be late and the clock is read three times a
\* round, and still no step is left out and none is generated twice.
THEOREM EveryStepIsGeneratedOnce == Spec => EveryStepOnce
<1>1. ASSUME IInv, [Next]_vars
      PROVE  [thread.pc = "generate" /\ thread'.pc = "send" =>
                thread.step = -1 \/ thread'.step = thread.step + 1]_vars
  <2>1. CASE Generate
    <3>1. thread'.step = Step(now)
      BY <2>1 DEF Generate, IInv, TypeOK
    <3>2. thread.step \in {-1, Step(now) - 1} /\ Step(now) \in Int
      BY <1>1, <2>1, NextStep, StepOf, Types DEF IInv, Generate
    <3> QED BY <3>1, <3>2
  <2>2. CASE Plan \/ Nap \/ Send
    BY <1>1, <2>2 DEF Plan, Nap, Send, IInv, TypeOK
  <2>3. CASE UNCHANGED thread
    BY <2>3
  <2> QED BY <1>1, <2>1, <2>2, <2>3 DEF Next, Tick, Enter, MainGenerate, MainSend, Receive,
                                       Exit, Type, Verify, vars
<1> QED BY <1>1, TOTPInvariance, PTL DEF Spec, EveryStepOnce

\* The code an Auth Client shows is of the step it is in when CODE_RESP may travel and
\* the threads may lag for Late + Transit seconds more, or of the step before it, for
\* every interval: the answer to REQ_CODE_CLIENT and the thread's push may cross.
THEOREM CodesAreNeverOld == Spec => []AtMostOneStepBehind
<1>1. ASSUME IInv PROVE AtMostOneStepBehind
  <2> SUFFICES ASSUME client.view = "shown"
               PROVE  client.step \in Step(now - (Late + Transit) - 1) - 1 .. Step(now)
    BY DEF AtMostOneStepBehind
  <2>1. PICK s : s = client.step
    OBVIOUS
  <2>2. s \in Int /\ Start(s) \in Int /\ now \in Int /\ s >= 0 /\ Start(s) <= now
    BY <1>1, <2>1, Types, StartInt DEF IInv, OnWire
  <2>3. s <= Step(now) /\ Step(now) \in Int
    BY <2>2, StepBounds, StepOf
  <2>4. now <= Start(s) + 2 * INTERVAL + Late + Transit
    <3>1. Covered(0, s)
      BY <1>1, <2>1 DEF IInv, Cover
    <3>2. CASE \E j \in DOMAIN wire :
                  0 < j /\ wire[j].limit <= Start(s) + 2 * INTERVAL + Late + Transit
      <4>1. PICK j \in DOMAIN wire : wire[j].limit <= Start(s) + 2 * INTERVAL + Late + Transit
        BY <3>2
      <4>2. now <= wire[j].limit /\ wire[j].limit \in Int
        BY <1>1, WireTypes DEF IInv, Clock
      <4> QED BY <2>2, <4>1, <4>2, Numbers
    <3>3. CASE main.pc # "idle" /\ main.limit <= Start(s) + 2 * INTERVAL + Late
      <4>1. now <= main.limit /\ main.limit \in Int
        BY <1>1, <3>3, Types DEF IInv, Clock
      <4> QED BY <2>2, <3>3, <4>1, Numbers
    <3>4. CASE NextSend <= Start(s) + 2 * INTERVAL + Late
      <4>1. now <= NextSend
        <5>1. Remaining(now) \in 1 .. INTERVAL
          BY <2>2, StepOf
        <5> QED BY <1>1, <2>2, <5>1, Numbers DEF NextSend, IInv, Clock
      <4> QED BY <1>1, <2>2, <3>4, <4>1, NextSendBound, Numbers DEF IInv
    <3> QED BY <3>1, <3>2, <3>3, <3>4 DEF Covered
  <2>5. PICK t : t = now - (Late + Transit) - 1
    OBVIOUS
  <2>6. /\ t \in Int /\ s + 1 \in Int /\ Start(s + 1) = Start(s) + INTERVAL
        /\ t < Start(s) + INTERVAL + INTERVAL
    BY <2>2, <2>4, <2>5, Starts, Numbers
  <2>7. Step(t) <= s + 1 /\ Step(t) \in Int
    <3>1. t < Start(s + 1) + INTERVAL
      BY <2>6
    <3> QED BY <2>6, <3>1, StepBounds, StepOf
  <2>8. Step(t) - 1 <= s
    BY <2>2, <2>7
  <2> QED BY <2>1, <2>2, <2>3, <2>5, <2>7, <2>8
<1> QED BY <1>1, TOTPInvariance, PTL
=============================================================================
