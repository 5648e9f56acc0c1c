---------------------------- MODULE ListenerAccount ----------------------------
(***************************************************************************)
(* The personal account of the listener: its row in service_meta, the      *)
(* session file and its lock, the Bot's loop (Listener.run, connect, close *)
(* and the outcome of a poll), a download that reads through CheckedSource *)
(* and the terminal login.  The loop and the download are two coroutines;  *)
(* the login is another process.                                           *)
(*                                                                         *)
(* A request is answered by Telegram at one moment and its answer is seen  *)
(* by the coroutine at a later one.                                        *)
(***************************************************************************)
EXTENDS Naturals

CONSTANTS
    Accounts,   \* personal accounts somebody may log in with
    NoAccount,
    MaxClients, \* bound: clients the Bot makes
    MaxCommands \* bound: enable, disable, login, revocation, restart

ASSUME AccountAssumption ==
    NoAccount \notin Accounts /\ MaxClients \in Nat /\ MaxCommands \in Nat

VARIABLES
    account,  \* service_meta: listener_account
    session,  \* personal.session: who logged in, and whether it still holds
    lock,     \* who has session.lock
    client,   \* Listener.client, 0: None
    kept,     \* Listener._session: the lock is kept for the client
    closing,  \* disconnects under way: the client, whether it was verified, and
              \* whether the lock goes back with it
    made,     \* clients made so far
    loop,     \* Listener.run
    read,     \* a download's request
    login,    \* the terminal
    commands

accountVars == <<account, session, lock, client, kept, closing, made, loop, read, login, commands>>

Clients == 1..MaxClients
Statuses == {"out", "off", "asked", "ok", "cooling", "retry", "lost", "broken", "terminal", "in"}
Value == [enabled : BOOLEAN, account : Accounts \cup {NoAccount}, status : Statuses, cool : BOOLEAN]
NoValue == [enabled |-> FALSE, account |-> NoAccount, status |-> "out", cool |-> FALSE]
NoRead == [client |-> 0, answer |-> "none"]
AtRest == [pc |-> "idle", value |-> NoValue, client |-> 0, then |-> "nothing"]

AccountTypeOK ==
    /\ account \in Value
    /\ session \in [who : Accounts \cup {NoAccount}, valid : BOOLEAN]
    /\ lock \in {"free", "bot", "login"}
    /\ client \in 0..MaxClients /\ kept \in BOOLEAN
    /\ closing \subseteq [client : 0..MaxClients, verified : BOOLEAN, held : BOOLEAN] /\ made \in 0..MaxClients
    /\ loop \in [pc : {"idle", "identity", "poll", "ok", "denied", "limited", "closing"}, value : Value,
                 client : 0..MaxClients, then : {"nothing", "retry", "broken"}]
    /\ read \in [client : 0..MaxClients, answer : {"none", "ok", "denied"}]
    /\ login \in {"idle", "locking", "auth"} /\ commands \in 0..MaxCommands

AccountInit ==
    /\ account = NoValue /\ session = [who |-> NoAccount, valid |-> FALSE]
    /\ lock = "free" /\ client = 0 /\ kept = FALSE /\ closing = {} /\ made = 0
    /\ loop = AtRest /\ read = NoRead /\ login = "idle" /\ commands = 0

-------------------------------------------------------------------------------
\* write_state
WriteState(enabled, status, cool) ==
    account' = [account EXCEPT !.enabled = enabled, !.status = status, !.cool = cool]

\* write_state with expected: a newer value stays.
WriteStateIf(value, enabled, status, cool) ==
    IF account = value THEN WriteState(enabled, status, cool) ELSE UNCHANGED account

\* Mutant: the lock is given back before the client is gone.
GivesBackFirst(given) ==
    /\ client' = 0 /\ kept' = FALSE
    /\ closing' = IF client = 0 THEN closing
                  ELSE closing \cup {[client |-> client, verified |-> kept, held |-> FALSE]}
    /\ lock' = IF kept \/ given THEN "free" ELSE lock

\* close(): the attributes are cleared, then the disconnect is awaited, then
\* the lock goes back; `given`: the caller has it and gives it back afterwards.
\* If another coroutine is already disconnecting, there is nothing to await.
CloseClient(given) ==
    /\ client' = 0 /\ kept' = FALSE
    /\ IF client = 0
       THEN lock' = (IF given THEN "free" ELSE lock) /\ UNCHANGED closing
       ELSE /\ closing' = closing \cup {[client |-> client, verified |-> kept, held |-> kept \/ given]}
            /\ UNCHANGED lock

Disconnected(c) ==
    /\ c \in closing
    /\ closing' = closing \ {c}
    /\ lock' = IF c.held THEN "free" ELSE lock
    /\ UNCHANGED <<account, session, client, kept, made, loop, read, login, commands>>

Holds == <<client, kept, closing, lock>>

\* What comes back of a request; once the client is gone the error says nothing
\* about the account.
Answers(c) ==
    IF (c = client \/ \E x \in closing : x.client = c) /\ ~ session.valid THEN {"denied"} ELSE {"ok"}

\* source_failure for an authorization error.
SourceFailure == WriteState(FALSE, "lost", account.cool) /\ CloseClient(FALSE)

-------------------------------------------------------------------------------
(* Listener.run *)

\* The loop awaits the disconnect it has asked for, then does what is left.
LoopAwaits(then) == loop' = [loop EXCEPT !.pc = "closing", !.client = client, !.then = then]

LoopResumes ==
    /\ loop.pc = "closing" /\ \A c \in closing : c.client # loop.client
    /\ loop' = AtRest
    /\ IF loop.then = "nothing" THEN UNCHANGED account
       ELSE WriteStateIf(loop.value, loop.value.enabled /\ loop.then = "retry", loop.then,
                     loop.then = "retry" \/ account.cool)
    /\ UNCHANGED <<session, Holds, made, read, login, commands>>

Stops ==
    /\ loop.pc = "idle" /\ ~ account.enabled /\ client # 0
    /\ CloseClient(FALSE) /\ LoopAwaits("nothing")
    /\ UNCHANGED <<account, session, made, read, login, commands>>

MayConnectNow == loop.pc = "idle" /\ account.enabled /\ ~ account.cool /\ client = 0

\* No session yet, or another process has the lock.
CannotOpen ==
    /\ MayConnectNow /\ (lock # "free" \/ session.who = NoAccount)
    /\ WriteState(FALSE, "broken", account.cool)
    /\ UNCHANGED <<session, Holds, made, loop, read, login, commands>>

Connects ==
    /\ MayConnectNow /\ lock = "free" /\ session.who # NoAccount /\ made < MaxClients
    /\ lock' = "bot" /\ made' = made + 1 /\ client' = made + 1
    /\ loop' = [pc |-> "identity", value |-> account, client |-> made + 1, then |-> "nothing"]
    /\ UNCHANGED <<account, session, kept, closing, read, login, commands>>

\* connect() after connected_identity.
Identified ==
    /\ loop.pc = "identity"
    /\ IF account = loop.value /\ session.valid /\ session.who = account.account
       THEN /\ WriteState(TRUE, "ok", FALSE) /\ kept' = TRUE /\ loop' = AtRest
            /\ UNCHANGED <<client, closing, lock>>
       ELSE /\ CloseClient(TRUE) /\ LoopAwaits(IF account = loop.value THEN "broken" ELSE "nothing")
            /\ UNCHANGED account
    /\ UNCHANGED <<session, made, read, login, commands>>

\* The network fails: close, then the value it started from decides.
ConnectionFails ==
    /\ loop.pc = "identity"
    /\ CloseClient(TRUE) /\ LoopAwaits("retry")
    /\ UNCHANGED <<account, session, made, read, login, commands>>

Polls ==
    /\ loop.pc = "idle" /\ account.enabled /\ ~ account.cool /\ client # 0
    /\ loop' = [pc |-> "poll", value |-> account, client |-> client, then |-> "nothing"]
    /\ IF account.status = "cooling" THEN WriteState(TRUE, "ok", FALSE) ELSE UNCHANGED account
    /\ UNCHANGED <<session, Holds, made, read, login, commands>>

PollAnswered ==
    /\ loop.pc = "poll"
    /\ \E a \in Answers(loop.client) \cup {"limited"} : loop' = [loop EXCEPT !.pc = a]
    /\ UNCHANGED <<account, session, Holds, made, read, login, commands>>

\* An answer to a client that is no longer the current one is dropped.
PollSeen ==
    /\ loop.pc \in {"ok", "denied", "limited"}
    /\ CASE loop.pc = "denied" /\ client = loop.client -> SourceFailure /\ LoopAwaits("nothing")
         [] loop.pc = "limited" /\ client = loop.client ->
               WriteState(account.enabled, "cooling", TRUE) /\ loop' = AtRest /\ UNCHANGED Holds
         [] OTHER -> loop' = AtRest /\ UNCHANGED <<account, Holds>>
    /\ UNCHANGED <<session, made, read, login, commands>>

CooldownEnds ==
    /\ account.cool
    /\ account' = [account EXCEPT !.cool = FALSE]
    /\ UNCHANGED <<session, Holds, made, loop, read, login, commands>>

-------------------------------------------------------------------------------
(* A download of a listener task *)

\* _identity: the account of the record is the task's.
MayRead == client # 0 /\ account.enabled

ReadStarts ==
    /\ read = NoRead /\ MayRead
    /\ read' = [client |-> client, answer |-> "none"]
    /\ UNCHANGED <<account, session, Holds, made, loop, login, commands>>

ReadAnswered ==
    /\ read.client # 0 /\ read.answer = "none"
    /\ \E a \in Answers(read.client) : read' = [read EXCEPT !.answer = a]
    /\ UNCHANGED <<account, session, Holds, made, loop, login, commands>>

\* Mutant: an error counts, whichever client it was for.
AnyClient(c) == MayRead

\* classify_error
SameClient(c) == MayRead /\ client = c

ReadSeen ==
    /\ read.answer # "none"
    /\ read' = NoRead
    /\ IF read.answer = "denied" /\ SameClient(read.client) THEN SourceFailure
                                                            ELSE UNCHANGED <<account, Holds>>
    /\ UNCHANGED <<session, made, loop, login, commands>>

-------------------------------------------------------------------------------
(* The terminal, the menu, the world *)

Commands(rest) ==
    /\ commands < MaxCommands /\ commands' = commands + 1
    /\ UNCHANGED <<made, rest>>

Enables ==
    /\ account.account # NoAccount
    /\ WriteState(TRUE, "asked", account.cool)
    /\ Commands(<<session, Holds, loop, read, login>>)

Disables ==
    /\ WriteState(FALSE, "off", account.cool)
    /\ Commands(<<session, Holds, loop, read, login>>)

LoginStarts ==
    /\ login = "idle" /\ login' = "locking"
    /\ WriteState(FALSE, "terminal", account.cool)
    /\ Commands(<<session, Holds, loop, read>>)

\* One attempt a second for 15 seconds.
LoginLocks ==
    /\ login = "locking" /\ lock = "free"
    /\ lock' = "login" /\ login' = "auth"
    /\ UNCHANGED <<account, session, client, kept, closing, made, loop, read, commands>>

LoginGivesUp ==
    /\ login # "idle" /\ login' = "idle"
    /\ lock' = IF login = "auth" THEN "free" ELSE lock
    /\ UNCHANGED <<account, session, client, kept, closing, made, loop, read, commands>>

\* A session that holds is used as it is; another person is refused, but his
\* session stays in the file.
LogsIn(a) ==
    /\ login = "auth" /\ (session.valid => session.who = a)
    /\ session' = [who |-> a, valid |-> TRUE]
    /\ login' = "idle" /\ lock' = "free"
    /\ account' = IF account.account \in {NoAccount, a}
                  THEN [account EXCEPT !.account = a, !.enabled = FALSE, !.status = "in"] ELSE account
    /\ UNCHANGED <<client, kept, closing, made, loop, read, commands>>

\* Telegram ends the session.
Ends ==
    /\ session.valid /\ session' = [session EXCEPT !.valid = FALSE]
    /\ Commands(<<account, Holds, loop, read, login>>)

BotRestarts ==
    /\ client' = 0 /\ kept' = FALSE /\ closing' = {}
    /\ lock' = IF lock = "bot" THEN "free" ELSE lock
    /\ loop' = AtRest /\ read' = NoRead
    /\ Commands(<<account, session, login>>)

AccountNext ==
    \/ \E c \in closing : Disconnected(c)
    \/ LoopResumes \/ Stops \/ CannotOpen \/ Connects \/ Identified \/ ConnectionFails
    \/ Polls \/ PollAnswered \/ PollSeen \/ CooldownEnds
    \/ ReadStarts \/ ReadAnswered \/ ReadSeen
    \/ Enables \/ Disables \/ LoginStarts \/ LoginLocks \/ LoginGivesUp
    \/ \E a \in Accounts : LogsIn(a)
    \/ Ends \/ BotRestarts

AccountSpec == AccountInit /\ [][AccountNext]_accountVars

-------------------------------------------------------------------------------
(* Properties *)

\* The account is reported as revoked only while its session really is: a late
\* error of an old client does not undo a new login.
LostIsTrue == account.status = "lost" => ~ (session.valid /\ session.who = account.account)

\* While somebody logs in at the terminal the Bot has no client on the session
\* and none that it has ever verified is still being disconnected.
SessionExclusive == login = "auth" => client = 0 /\ \A c \in closing : ~ c.verified

===============================================================================
