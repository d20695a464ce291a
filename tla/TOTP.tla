-------------------------------- MODULE TOTP --------------------------------
(***************************************************************************)
(* The time of a code: TOTPGenerator and the TOTP thread of                *)
(* src/src/TOTP_Layer, one Auth Client's code view, and the check of a code*)
(* that was typed.  AuthServer.tla says who gets codes; this module says   *)
(* which time step they are of.                                            *)
(*                                                                         *)
(* now is std::time, in seconds.  Of a code only its step matters (codes of*)
(* different steps are taken to differ).  The schedulers and the network   *)
(* are late by a bounded number of seconds: Late for a thread, Transit for *)
(* a message.                                                              *)
(***************************************************************************)
EXTENDS Integers, Sequences

CONSTANTS
    INTERVAL,   \* seconds of a time step, 30 in the code
    Late,       \* how late a thread may be, added up over one round of its loop
    Transit,    \* how long a message may travel
    Tolerance,  \* the window of the comment at verifyCode
    MaxTime,    \* bound of the clock
    MaxWire     \* bound: the user opens the view with fewer messages on the wire

ASSUME TOTPAssumption ==
    /\ INTERVAL \in Nat \ {0} /\ Late \in Nat /\ Transit \in Nat
    /\ Late + Transit < INTERVAL
    /\ Tolerance \in Nat /\ MaxWire \in Nat \ {0}
    /\ MaxTime \in Nat /\ INTERVAL <= MaxTime

VARIABLES
    now,
    thread,  \* the TOTP thread
    main,    \* the Auth Server's main thread, answering REQ_CODE_CLIENT
    wire,    \* CODE_RESP messages on their way, oldest first
    client,  \* the Auth Client's view: the code shown and timeExpiration
    typed    \* the code on its way to verifyCode, and the last verdict

vars == <<now, thread, main, wire, client, typed>>

\* generateTOTP
Step(t) == t \div INTERVAL

\* Mutant: the last second of a step counts as none.
RemainingShort(t) == (INTERVAL - 1) - (t % INTERVAL)

\* getRemainingSeconds
Remaining(t) == INTERVAL - (t % INTERVAL)

Time == 0 .. MaxTime
Steps == -1 .. Step(MaxTime)
Limits == 0 .. MaxTime + INTERVAL + Late + Transit

TypeOK ==
    /\ now \in Time
    /\ thread \in [pc : {"plan", "nap", "generate", "send"}, left : 0 .. INTERVAL,
                   due : 0 .. MaxTime + 1, step : Steps, limit : Limits]
    /\ main \in [pc : {"idle", "generate", "send"}, step : Steps, limit : Limits]
    /\ wire \in Seq([step : Steps, remaining : 1 .. INTERVAL, limit : Limits])
    /\ client \in [view : {"closed", "asked", "shown"}, step : Steps,
                   expiration : 0 .. MaxTime + INTERVAL]
    /\ typed \in [pc : {"none", "sent", "accepted", "refused"}, step : Steps,
                  limit : Limits]

MainIdle == [pc |-> "idle", step |-> -1, limit |-> 0]

Init ==
    /\ now \in 0 .. INTERVAL - 1
    /\ thread = [pc |-> "plan", left |-> 0, due |-> 0, step |-> -1, limit |-> now]
    /\ main = MainIdle
    /\ wire = <<>>
    /\ client = [view |-> "closed", step |-> -1, expiration |-> 0]
    /\ typed = [pc |-> "none", step |-> -1, limit |-> 0]

\* A second passes, unless somebody is already as late as it may be.
Tick ==
    /\ now < MaxTime
    /\ now < thread.limit
    /\ main.pc # "idle" => now < main.limit
    /\ wire # <<>> => now < Head(wire).limit
    /\ typed.pc = "sent" => now < typed.limit
    /\ now' = now + 1
    /\ UNCHANGED <<thread, main, wire, client, typed>>

-----------------------------------------------------------------------------
\* TOTPManager::m_run

\* Mutant: every round sleeps a whole interval.
PlanInterval ==
    /\ thread.pc = "plan"
    /\ thread' = [thread EXCEPT !.pc = "nap", !.left = INTERVAL, !.due = now + 1,
                                !.limit = now + INTERVAL + Late]
    /\ UNCHANGED <<now, main, wire, client, typed>>

\* sleep = getRemainingSeconds()
Plan ==
    /\ thread.pc = "plan"
    /\ thread' = [thread EXCEPT !.pc = "nap", !.left = Remaining(now),
                                !.due = now + 1,
                                !.limit = now + Remaining(now) + Late]
    /\ UNCHANGED <<now, main, wire, client, typed>>

\* One sleep_for(1000 ms): never shorter than asked.
Nap ==
    /\ thread.pc = "nap" /\ now >= thread.due
    /\ thread' = IF thread.left > 1
                 THEN [thread EXCEPT !.left = @ - 1, !.due = now + 1]
                 ELSE [thread EXCEPT !.left = 0, !.due = 0, !.pc = "generate"]
    /\ UNCHANGED <<now, main, wire, client, typed>>

\* sendCodesToClient: the code first ...
Generate ==
    /\ thread.pc = "generate"
    /\ thread' = [thread EXCEPT !.pc = "send", !.step = Step(now)]
    /\ UNCHANGED <<now, main, wire, client, typed>>

CodeResp(step) ==
    [step |-> step, remaining |-> Remaining(now), limit |-> now + Transit]

\* ... then the remaining seconds, read from the clock again, and the message.
\* Only sessions in the code view get one, and the server hears of the view
\* late: EXIT_SCS may be on its way when it is closed, REQ_CODE_CLIENT when it
\* was opened.
Send ==
    /\ thread.pc = "send"
    /\ \/ wire' = Append(wire, CodeResp(thread.step))
       \/ (client.view = "closed" \/ main.pc = "generate") /\ UNCHANGED wire
    /\ thread' = [thread EXCEPT !.pc = "plan"]
    /\ UNCHANGED <<now, main, client, typed>>

-----------------------------------------------------------------------------
\* The Auth Client's view and RequestCodeClientCommand, which calls
\* sendCodesToClient from the main thread.

\* The codes of the last view are still in the context.
Enter ==
    /\ client.view = "closed" /\ main.pc = "idle" /\ Len(wire) < MaxWire
    /\ client' = [client EXCEPT !.view = "asked"]
    /\ main' = [main EXCEPT !.pc = "generate", !.limit = now + Late]
    /\ UNCHANGED <<now, thread, wire, typed>>

MainGenerate ==
    /\ main.pc = "generate"
    /\ main' = [main EXCEPT !.pc = "send", !.step = Step(now)]
    /\ UNCHANGED <<now, thread, wire, client, typed>>

MainSend ==
    /\ main.pc = "send"
    /\ wire' = Append(wire, CodeResp(main.step))
    /\ main' = MainIdle
    /\ UNCHANGED <<now, thread, client, typed>>

\* CodeResponseCommand::execute in the client
Receive ==
    /\ wire # <<>>
    /\ client' = [view |-> IF client.view = "closed" THEN "closed" ELSE "shown",
                  step |-> Head(wire).step,
                  expiration |-> now + Head(wire).remaining]
    /\ wire' = Tail(wire)
    /\ UNCHANGED <<now, thread, main, typed>>

Exit ==
    /\ client.view # "closed"
    /\ client' = [client EXCEPT !.view = "closed"]
    /\ UNCHANGED <<now, thread, main, wire, typed>>

-----------------------------------------------------------------------------

\* The user types a code that is shown; it reaches the Auth Server through the
\* Dummy Server.
Type ==
    /\ client.view = "shown" /\ typed.pc # "sent"
    /\ typed' = [pc |-> "sent", step |-> client.step, limit |-> now + Transit]
    /\ UNCHANGED <<now, thread, main, wire, client>>

\* verifyCode
Verify ==
    /\ typed.pc = "sent"
    /\ typed' = [pc |-> IF typed.step = Step(now) THEN "accepted" ELSE "refused",
                 step |-> -1, limit |-> 0]
    /\ UNCHANGED <<now, thread, main, wire, client>>

Next ==
    \/ Tick
    \/ Plan \/ Nap \/ Generate \/ Send
    \/ Enter \/ MainGenerate \/ MainSend \/ Receive \/ Exit
    \/ Type \/ Verify

Spec == Init /\ [][Next]_vars

-----------------------------------------------------------------------------
\* Properties

\* The thread generates for every time step, once: what a round generates is of
\* the step right after that of the round before, no later one and not the same
\* again, although the sleep is counted in naps that may each be late and the
\* clock is read three times a round.
EveryStepOnce ==
    [][thread.pc = "generate" /\ thread'.pc = "send" =>
         thread.step = -1 \/ thread'.step = thread.step + 1]_vars

\* Give the delays their time and the code on the screen is of the present step
\* or the one before, whichever of the two threads sent last and however their
\* messages crossed: the round after the next boundary repairs the view.
AtMostOneStepBehind ==
    client.view = "shown" =>
        client.step \in Step(now - (Late + Transit) - 1) - 1 .. Step(now)

\* verifyCode accepts a code for Tolerance seconds after its step has ended.
ToleranceWindow ==
    [][typed.pc = "sent" /\ typed'.pc = "refused" =>
         now >= (typed.step + 1) * INTERVAL + Tolerance]_vars
=============================================================================
