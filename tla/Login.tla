-------------------------------- MODULE Login --------------------------------
(***************************************************************************)
(* Browser logins (auth/device-login.ts, auth/login-app.tsx), the token    *)
(* they leave in auth.json (auth/store.ts), and the logouts and logins by  *)
(* token that come in between.  A login polls until its session is         *)
(* approved in the browser, has expired, or the deadline has passed.  In a *)
(* rich terminal it runs on a screen (OnScreen): it can be quit there, and *)
(* stores the token at once and again when the account's plan is known.    *)
(***************************************************************************)
EXTENDS Naturals

CONSTANTS
    Logins,   \* browser logins, each a process
    OnScreen, \* those of a rich terminal
    MaxPolls, \* bound: polls before the deadline has passed for sure
    MaxOthers \* bound: logouts and logins by token

ASSUME LoginAssumption ==
    /\ OnScreen \subseteq Logins /\ "none" \notin Logins /\ "pasted" \notin Logins
    /\ MaxPolls \in Nat \ {0} /\ MaxOthers \in Nat

VARIABLES
    at,         \* of each login: where it is
    browser,    \* ... what its session is to the server
    reply,      \* ... the answer to its poll, until it is heard
    polls,      \* ... how many it made
    asking,     \* ... whether the account's plan is being asked for
    exit,       \* ... how it ended
    quit,       \* the logins that were quit before they had a token
    served,     \* the logins that heard their token
    auth,       \* auth.json: the login whose token it has, and whether with a plan
    superseded, \* whose token has been removed or replaced
    others      \* logouts and logins by token so far

loginVars == <<at, browser, reply, polls, asking, exit, quit, served, auth, superseded, others>>

NoAuth == [token |-> "none", plan |-> FALSE]
Pasted == [token |-> "pasted", plan |-> FALSE]

LoginInit ==
    /\ at = [l \in Logins |-> "creating"] /\ browser = [l \in Logins |-> "pending"]
    /\ reply = [l \in Logins |-> "none"] /\ polls = [l \in Logins |-> 0]
    /\ asking = [l \in Logins |-> FALSE] /\ exit = [l \in Logins |-> "running"]
    /\ quit = {} /\ served = {} /\ superseded = {} /\ others = 0 /\ auth = NoAuth

Go(l, place) == at' = [at EXCEPT ![l] = place]

Finish(l, code) == Go(l, "over") /\ exit' = [exit EXCEPT ![l] = code]

\* auth.json written, or removed.
SetAuth(new) ==
    /\ auth' = new
    /\ superseded' = superseded \cup ({auth.token} \ {new.token, "none", "pasted"})

\* writeAuthState throws: the lock is busy, the token is too short, or the disk
\* is full, before the token is stored or behind it at the configuration.
StoreFails(l) ==
    /\ Finish(l, "crash")
    /\ SetAuth([token |-> l, plan |-> FALSE]) \/ UNCHANGED <<auth, superseded>>

-----------------------------------------------------------------------------
\* createAuthSession; the link is then shown.
Create(l) ==
    /\ at[l] = "creating"
    /\ \/ Go(l, "ready") /\ UNCHANGED exit
       \/ Finish(l, "one")
    /\ UNCHANGED <<browser, reply, polls, asking, quit, served, auth, superseded, others>>

\* Enter opens the browser (waitForEnter, openAndPoll).
OpenLink(l) ==
    /\ at[l] = "ready" /\ Go(l, "waiting")
    /\ UNCHANGED <<browser, reply, polls, asking, exit, quit, served, auth, superseded, others>>

Decide(l) ==
    /\ browser[l] = "pending" /\ at[l] \in {"ready", "waiting"}
    /\ \E b \in {"approved", "expired"} : browser' = [browser EXCEPT ![l] = b]
    /\ UNCHANGED <<at, reply, polls, asking, exit, quit, served, auth, superseded, others>>

\* pollAuthSession: a server error, a timeout and an answer without a key are
\* tried again, any other trouble counts as an expired link.
Poll(l) ==
    /\ at[l] = "waiting" /\ reply[l] = "none" /\ polls[l] < MaxPolls
    /\ polls' = [polls EXCEPT ![l] = @ + 1]
    /\ \E answer \in {"pending", "expired"} \cup (IF browser[l] = "approved" THEN {"complete"} ELSE {}) :
           reply' = [reply EXCEPT ![l] = answer]
    /\ UNCHANGED <<at, browser, asking, exit, quit, served, auth, superseded, others>>

\* Slip: a pending answer is asked for again, however late it is.
HeedNoDeadline(l, late) ==
    IF reply[l] = "complete" THEN Go(l, "account") /\ asking' = [asking EXCEPT ![l] = TRUE] /\ UNCHANGED exit
    ELSE IF reply[l] = "expired" THEN Finish(l, "one") /\ UNCHANGED asking
    ELSE UNCHANGED <<at, asking, exit>>

\* What a plain login makes of the answer; late is the deadline.
Heed(l, late) ==
    IF reply[l] = "complete" THEN Go(l, "account") /\ asking' = [asking EXCEPT ![l] = TRUE] /\ UNCHANGED exit
    ELSE IF reply[l] = "expired" \/ late THEN Finish(l, "one") /\ UNCHANGED asking
    ELSE UNCHANGED <<at, asking, exit>>

Late(l) == IF polls[l] = MaxPolls THEN {TRUE} ELSE BOOLEAN
Hear(l) == at[l] = "waiting" /\ reply[l] # "none" /\ reply' = [reply EXCEPT ![l] = "none"]
Serve(l) == served' = IF reply[l] = "complete" THEN served \cup {l} ELSE served

HearPlain(l) ==
    /\ l \notin OnScreen /\ Hear(l) /\ Serve(l)
    /\ \E late \in Late(l) : Heed(l, late)
    /\ UNCHANGED <<browser, polls, quit, auth, superseded, others>>

\* fetchAccountStatus, which does not fail but may know nothing, and the token
\* stored, unless the lock is busy or the disk is full.
StorePlain(l) ==
    /\ at[l] = "account" /\ asking' = [asking EXCEPT ![l] = FALSE]
    /\ \/ Finish(l, "zero") /\ \E plan \in BOOLEAN : SetAuth([token |-> l, plan |-> plan])
       \/ StoreFails(l)
    /\ UNCHANGED <<browser, reply, polls, quit, served, others>>

-----------------------------------------------------------------------------
\* On a screen: the token is stored as soon as it is heard, and a login whose
\* screen is gone stores none.
StoreScreen(l) ==
    \/ Go(l, "success") /\ asking' = [asking EXCEPT ![l] = TRUE]
       /\ SetAuth([token |-> l, plan |-> FALSE]) /\ UNCHANGED exit
    \/ StoreFails(l) /\ UNCHANGED asking

HearOnScreen(l) ==
    /\ l \in OnScreen /\ Hear(l) /\ Serve(l)
    /\ IF reply[l] = "complete" THEN StoreScreen(l)
       ELSE (\E late \in Late(l) : Heed(l, late)) /\ UNCHANGED <<auth, superseded>>
    /\ UNCHANGED <<browser, polls, quit, others>>

\* Slip: an answer is heard although the screen is gone.
HearAnyway(l) ==
    /\ at[l] = "over" /\ reply[l] # "none"
    /\ reply' = [reply EXCEPT ![l] = "none"]
    /\ IF reply[l] = "complete" THEN SetAuth([token |-> l, plan |-> FALSE]) ELSE UNCHANGED <<auth, superseded>>
    /\ UNCHANGED <<at, browser, polls, asking, exit, quit, served, others>>

\* An answer that comes when the screen is gone (cancelled.current).
HearGone(l) ==
    /\ at[l] = "over" /\ reply[l] # "none"
    /\ reply' = [reply EXCEPT ![l] = "none"]
    /\ UNCHANGED <<at, browser, polls, asking, exit, quit, served, auth, superseded, others>>

\* The plan comes late, when the screen may be gone: known, the token is stored
\* once more, whatever has become of the file.
PlanKnown(l) ==
    /\ l \in OnScreen /\ asking[l]
    /\ asking' = [asking EXCEPT ![l] = FALSE]
    /\ \/ SetAuth([token |-> l, plan |-> TRUE]) /\ UNCHANGED <<at, exit>>
       \/ UNCHANGED <<at, exit, auth, superseded>>
       \/ Finish(l, "crash") /\ (SetAuth([token |-> l, plan |-> TRUE]) \/ UNCHANGED <<auth, superseded>>)
    /\ UNCHANGED <<browser, reply, polls, quit, served, others>>

\* A key, or the time the success is shown at most.
LeaveScreen(l) ==
    /\ at[l] = "success" /\ Finish(l, "zero")
    /\ UNCHANGED <<browser, reply, polls, asking, quit, served, auth, superseded, others>>

\* Ctrl-C takes the screen away with no exit code set; the process ends when the
\* poll under way has. A plain login dies of it, with what it heard.
QuitLogin(l) ==
    /\ at[l] \in {"creating", "ready", "waiting", "account"}
    /\ Finish(l, IF l \in OnScreen THEN "zero" ELSE "crash")
    /\ quit' = quit \cup {l}
    /\ reply' = IF l \in OnScreen THEN reply ELSE [reply EXCEPT ![l] = "none"]
    /\ asking' = [asking EXCEPT ![l] = FALSE]
    /\ UNCHANGED <<browser, polls, served, auth, superseded, others>>

-----------------------------------------------------------------------------
\* dg logout, and dg login --token.
Other(new) ==
    /\ others < MaxOthers /\ others' = others + 1
    /\ SetAuth(new)
    /\ UNCHANGED <<at, browser, reply, polls, asking, exit, quit, served>>
Logout == Other(NoAuth)
PasteToken == Other(Pasted)

\* What needs no user.
Machine(l) ==
    Create(l) \/ Poll(l) \/ HearPlain(l) \/ StorePlain(l) \/ HearOnScreen(l)
    \/ HearGone(l) \/ PlanKnown(l) \/ LeaveScreen(l)

LoginStep(l) == Machine(l) \/ OpenLink(l) \/ Decide(l) \/ QuitLogin(l)

LoginNext ==
    \/ Logout \/ PasteToken
    \/ \E l \in Logins : LoginStep(l)

LoginSpec == LoginInit /\ [][LoginNext]_loginVars

-----------------------------------------------------------------------------
\* A login that says it succeeded left its token, unless somebody removed or
\* replaced it since; one that heard its token does not end as failed unless it
\* crashed; one that was quit leaves none, even if the browser approved it and
\* the answer was under way; and a token that was removed or replaced comes back
\* in one way only: the plan of a login on a screen, which arrives after it and
\* is stored with the token.
LoginsAreHonest ==
    /\ auth.token \notin quit
    /\ auth.token \in superseded => auth.token \in OnScreen /\ auth.plan
    /\ \A l \in Logins :
         /\ exit[l] = "zero" => l \in quit \/ auth.token = l \/ l \in superseded
         /\ exit[l] = "one" => l \notin served

\* A login whose link was opened ends, in the browser's silence too: every poll
\* and every question has a timer, and the deadline passes.
LoginsEnd ==
    \A l \in Logins : at[l] = "waiting" ~> at[l] = "over" /\ ~asking[l] /\ reply[l] = "none"
==============================================================================
