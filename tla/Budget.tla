-------------------------------- MODULE Budget --------------------------------
(***************************************************************************)
(* How the program spends one bucket of GitHub requests: the brake before  *)
(* each request and before its retry, and the reading of the bucket every  *)
(* answer brings (internal/ghapi/client.go: brake, readRate, sendTwice).   *)
(*                                                                         *)
(* The collectors ask one at a time, so there is one call.  Windows turn   *)
(* over while it waits, pauses or is on its way, and processes follow one  *)
(* another within a window.  Not every charge is told of: an answer may    *)
(* not come, may say nothing of this bucket, or may be the end of a chain  *)
(* of redirects that one brake let through.  The client's clock is         *)
(* GitHub's, and the token has no other user.                              *)
(***************************************************************************)
EXTENDS Integers

CONSTANTS
    Window,    \* what a window of the bucket allows
    Reserve,   \* what the configuration keeps back
    MaxStarts, \* bound: processes started within a window
    MaxDark,   \* bound: charges in the dark at once
    Unseen

ASSUME BudgetAssumption ==
    Window \in Nat \ {0} /\ Reserve \in Nat /\ MaxStarts \in Nat /\ MaxDark \in Nat

\* A reading, and whether the window it is of is over.
Rates == [left : 0 .. Window, past : BOOLEAN]

ASSUME UnseenAssumption == Unseen \notin Rates

VARIABLES
    left,   \* what GitHub still allows in this window
    waits,  \* the client waits for the next window, as in a backfill
    rate,   \* the client's reading of the bucket
    stage,  \* where the call is
    again,  \* it is at its retry
    heard,  \* what its answer says of the bucket
    vain,   \* the answer is one of the four that are asked once more
    \* Bookkeeping of the model.
    read,   \* this process has read an answer of this window
    blind,  \* what was charged in this window to a process that had not
    dark,   \* what was charged in it, since GitHub last told of more than the
            \* reserve, to such a process or with nothing told of it
    starts  \* the processes started in this window

budget == <<left, waits, rate, stage, again, heard, vain, read, blind, dark, starts>>

-----------------------------------------------------------------------------
\* What is kept back of this bucket: no more than a fifth of it.
Held == IF Window \div 5 < Reserve THEN Window \div 5 ELSE Reserve

Over(r) == IF r = Unseen THEN r ELSE [r EXCEPT !.past = TRUE]

PassesAtReserve(r) ==  \* a mutant
    Reserve > 0 /\ r # Unseen => r.left >= Held

\* The brake lets through what finds more than that left, or nothing known.
Passes(r) == Reserve > 0 /\ r # Unseen => r.left > Held

CallOver == stage' = "idle" /\ again' = FALSE

\* brake, where it returns nil: a window that is over counts as whole again.
Through ==
    /\ stage' = "asked"
    /\ \/ Passes(rate) /\ UNCHANGED rate
       \/ ~Passes(rate) /\ rate.past /\ rate' = [rate EXCEPT !.left = Window]

\* What the brake stops, for as long as the window lasts.
Stopped == ~Passes(rate) /\ ~rate.past

Request ==
    /\ stage = "idle"
    /\ Through
    /\ UNCHANGED <<left, waits, again, heard, vain, read, blind, dark, starts>>

\* A client that does not wait refuses, the first time or the second.
RefuseRetry ==
    /\ stage = "pausing" /\ Stopped /\ ~waits
    /\ CallOver
    /\ UNCHANGED <<left, waits, rate, heard, vain, read, blind, dark, starts>>

\* One that waits asks the brake again once the window is over.
Wait ==
    /\ stage \in {"idle", "pausing"} /\ Stopped /\ waits
    /\ stage' = "waiting"
    /\ again' = (stage = "pausing")
    /\ UNCHANGED <<left, waits, rate, heard, vain, read, blind, dark, starts>>

Waited ==
    /\ stage = "waiting"
    /\ rate.past
    /\ Through
    /\ UNCHANGED <<left, waits, again, heard, vain, read, blind, dark, starts>>

\* GitHub answers: a 304 is free, anything else costs one, while there is one.
\* An answer that tells of this bucket carries the limit and the bucket's name.
Charge ==
    /\ stage = "asked"
    /\ stage' = "replied"
    /\ \E cost \in {n \in {0, 1} : n <= left}, tells \in BOOLEAN :
         /\ left' = left - cost
         /\ heard' = IF tells THEN [left |-> left - cost, past |-> FALSE] ELSE Unseen
         /\ vain' \in {FALSE, cost = 1}
         /\ blind' = IF tells /\ ~read THEN blind + cost ELSE blind
         /\ dark' = IF tells /\ read THEN dark ELSE dark + cost
    /\ dark' <= MaxDark
    /\ UNCHANGED <<waits, rate, again, read, starts>>

\* GitHub redirects, and Do asks on: a hop is charged and no brake is asked.
Redirect ==
    /\ stage = "asked"
    /\ left > 0 /\ left' = left - 1
    /\ dark < MaxDark /\ dark' = dark + 1
    /\ UNCHANGED <<waits, rate, stage, again, heard, vain, read, blind, starts>>

\* No answer comes: the request was lost, or was charged and its answer lost.
\* Nothing is read.
NoAnswer ==
    /\ stage = "asked"
    /\ CallOver
    /\ \E cost \in {n \in {0, 1} : n <= left /\ dark + n <= MaxDark} :
         left' = left - cost /\ dark' = dark + cost
    /\ UNCHANGED <<waits, rate, heard, vain, read, blind, starts>>

\* readRate: what says nothing of the bucket leaves the reading as it was.
ReadRate ==
    IF heard = Unseen THEN UNCHANGED <<rate, read, dark>>
    ELSE /\ rate' = heard
         /\ read' = ~heard.past
         /\ dark' = IF ~heard.past /\ heard.left > Held THEN 0 ELSE dark

\* The answer is at hand: the call is over, or pauses before its retry.
AnswerTaken ==
    /\ stage = "replied"
    /\ heard' = Unseen /\ vain' = FALSE
    /\ IF vain /\ ~again THEN stage' = "pausing" /\ UNCHANGED again ELSE CallOver
    /\ UNCHANGED <<left, waits, blind, starts>>

TakeUnread ==  \* a mutant: what is asked again is thrown away unread
    /\ AnswerTaken
    /\ IF vain /\ ~again THEN UNCHANGED <<rate, read, dark>> ELSE ReadRate

Take == AnswerTaken /\ ReadRate

\* The pause is over: the retry asks the brake like any other request.
Retry ==
    /\ stage = "pausing"
    /\ again' = TRUE
    /\ Through
    /\ UNCHANGED <<left, waits, heard, vain, read, blind, dark, starts>>

\* The sweep is canceled in the pause or while it waits for a window.
Cancel ==
    /\ stage \in {"pausing", "waiting"}
    /\ CallOver
    /\ UNCHANGED <<left, waits, rate, heard, vain, read, blind, dark, starts>>

\* The next window begins.
TurnOver ==
    /\ left' = Window
    /\ rate' = Over(rate) /\ heard' = Over(heard)
    /\ read' = FALSE /\ blind' = 0 /\ dark' = 0 /\ starts' = 0
    /\ UNCHANGED <<waits, stage, again, vain>>

\* A process knows nothing of the bucket.
StartOver ==
    /\ starts < MaxStarts
    /\ starts' = starts + 1
    /\ waits' \in BOOLEAN
    /\ rate' = Unseen /\ read' = FALSE
    /\ CallOver
    /\ heard' = Unseen /\ vain' = FALSE
    /\ UNCHANGED <<left, blind, dark>>

BudgetInit ==
    /\ left = Window /\ waits \in BOOLEAN /\ rate = Unseen
    /\ stage = "idle" /\ again = FALSE /\ heard = Unseen /\ vain = FALSE
    /\ read = FALSE /\ blind = 0 /\ dark = 0 /\ starts = 0

BudgetNext ==
    \/ Request \/ RefuseRetry \/ Wait \/ Waited \/ Charge \/ Redirect \/ NoAnswer \/ Take
    \/ Retry \/ Cancel \/ TurnOver \/ StartOver

BudgetSpec == BudgetInit /\ [][BudgetNext]_budget

-----------------------------------------------------------------------------
(* Properties.                                                             *)

\* The client leaves the reserve alone (brake, and send's note on the retry):
\* what GitHub allows falls under it by no more than what it charged, since it
\* last told of more than that, to a process that knew nothing of the window
\* yet, or with nothing told (no answer came, the answer said nothing of the
\* bucket, or it was a hop of a redirect); whatever windows turn over while a
\* request waits, is on its way or is asked again.
ReserveKept == Reserve > 0 => left + dark >= Held

\* Of the answers that tell of the bucket, a process is charged for one before
\* it knows anything of the window, and for one more in a window that begins
\* under it: each is taken in before anything else is asked (sendTwice, which
\* reads an answer it is about to throw away too).
BlindBounded == blind <= starts + 1

=============================================================================
