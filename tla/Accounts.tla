------------------------------ MODULE Accounts ------------------------------
(***************************************************************************)
(* The accounts of the API and the tokens that stand for them              *)
(* (app/api/routes/auth.py, app/core/security.py, app/api/deps.py).        *)
(*                                                                         *)
(* A token is signed and stored nowhere: what the service knows of it is   *)
(* what the token says, its type, its subject and when it expires, and the *)
(* row of its subject.  So a refresh neither ends the old pair nor knows   *)
(* of it, and any client that has a token may use it: a client hands an    *)
(* ACCESS token on (Share), to a tool or another device, and never one     *)
(* that renews.  That a token cannot be made up, and that nobody else has  *)
(* a client's password, is assumed.                                        *)
(*                                                                         *)
(* A request is checked against its token when it comes in, and against    *)
(* the row after an await; the register handler awaits between its SELECT, *)
(* its commit and its refresh of the row.  No code of the repository       *)
(* clears or sets is_active of a row that exists: Switch is external, as   *)
(* is time.                                                                *)
(*                                                                         *)
(* An account is named by who registered it and with which email; its      *)
(* password is that client's.  Bounds: MaxClock ticks, from 0.             *)
(***************************************************************************)
EXTENDS Naturals

CONSTANTS Clients, Emails,
          AccessLife, RefreshLife,     \* access_token_expire_minutes and _days
          MaxClock,
          NoOne

ASSUME LifeAssumption == AccessLife \in Nat /\ RefreshLife \in Nat /\ MaxClock \in Nat
ASSUME NoOneAssumption == NoOne \notin Clients \cup Emails

Account == Clients \X Emails
Token == [type : {"access", "refresh"}, sub : Account, exp : Nat]

VARIABLES status,       \* of each account: "none" before its row, or is_active
          clock,
          held,         \* the tokens each client has
          pc,           \* where the request of each client is
          target,       \* the account it is about
          answer        \* what the last request of a client came to

vars == <<status, clock, held, pc, target, answer>>

Busy == {"insert", "inserted", "renew", "authorize", "serving"}

TypeOK == /\ status \in [Account -> {"none", "active", "disabled"}]
          /\ clock \in Nat
          /\ held \in [Clients -> SUBSET Token]
          /\ pc \in [Clients -> {"idle"} \cup Busy]
          /\ target \in [Clients -> Account]
          /\ answer \in [Clients -> {"none", "ok", "created", "conflict", "unauthorized",
                                     "forbidden", "error"}]

Init == /\ status = [a \in Account |-> "none"]
        /\ clock = 0
        /\ held = [c \in Clients |-> {}]
        /\ pc = [c \in Clients |-> "idle"]
        /\ target \in [Clients -> Account]
        /\ \A c \in Clients : target[c][1] = c
        /\ answer = [c \in Clients |-> "none"]

Exists(a) == status[a] # "none"

\* get_user_by_email finds a row, and so does the unique constraint.
Taken(e) == \E a \in Account : a[2] = e /\ Exists(a)

Goto(c, label) == pc' = [pc EXCEPT ![c] = label] /\ UNCHANGED answer

Answer(c, code) == /\ pc' = [pc EXCEPT ![c] = "idle"]
                   /\ answer' = [answer EXCEPT ![c] = code]

Target(c, a) == target' = [target EXCEPT ![c] = a]

Create(type, a) ==
    [type |-> type, sub |-> a,
     exp |-> clock + IF type = "access" THEN AccessLife ELSE RefreshLife]

\* _issue_tokens: the client gets a pair.
Issue(c, a) == held' = [held EXCEPT ![c] = @ \cup {Create("access", a), Create("refresh", a)}]

\* decode_token of the expected type.
Decodes(t, type) == t.type = type /\ clock <= t.exp

-----------------------------------------------------------------------------
\* register, up to its SELECT.
Register(c, e) ==
    /\ pc[c] = "idle"
    /\ Target(c, <<c, e>>)
    /\ IF Taken(e) THEN Answer(c, "conflict") ELSE Goto(c, "insert")
    /\ UNCHANGED <<status, clock, held>>

\* Mutant of Insert: the email is not unique in the table.
InsertAnyway(c) == /\ pc[c] = "insert"
                   /\ status' = [status EXCEPT ![target[c]] = "active"]
                   /\ Goto(c, "inserted")
                   /\ UNCHANGED <<clock, held, target>>

\* The INSERT and the commit.
Insert(c) == /\ pc[c] = "insert" /\ ~Taken(target[c][2])
             /\ status' = [status EXCEPT ![target[c]] = "active"]
             /\ Goto(c, "inserted")
             /\ UNCHANGED <<clock, held, target>>

\* Another request has inserted the email since: an IntegrityError nobody catches.
InsertFails(c) == /\ pc[c] = "insert" /\ Taken(target[c][2])
                  /\ Answer(c, "error")
                  /\ UNCHANGED <<status, clock, held, target>>

\* The row is read once more, and the client gets its first pair.
Registered(c) == /\ pc[c] = "inserted"
                 /\ Issue(c, target[c])
                 /\ Answer(c, "created")
                 /\ UNCHANGED <<status, clock, target>>

\* login: an unknown email, or another client's, whose password c does not know.
Login(c, e) ==
    LET a == <<c, e>> IN
    /\ pc[c] = "idle"
    /\ Target(c, a)
    /\ CASE status[a] = "none"     -> Answer(c, "unauthorized") /\ UNCHANGED held
         [] status[a] = "disabled" -> Answer(c, "forbidden") /\ UNCHANGED held
         [] status[a] = "active"   -> Answer(c, "ok") /\ Issue(c, a)
    /\ UNCHANGED <<status, clock>>

\* A token comes in, and passes decode_token or not.
Present(c, t, type, label) ==
    /\ pc[c] = "idle" /\ t \in held[c]
    /\ Target(c, t.sub)
    /\ IF Decodes(t, type) THEN Goto(c, label) ELSE Answer(c, "unauthorized")
    /\ UNCHANGED <<status, clock, held>>

\* Mutant of PresentRefresh: a token of either type renews.
RenewWithAny(c, t) == \E type \in {"access", "refresh"} : Present(c, t, type, "renew")

\* refresh, up to its SELECT.
PresentRefresh(c, t) == Present(c, t, "refresh", "renew")

Renew(c) == /\ pc[c] = "renew"
            /\ IF status[target[c]] = "active"
               THEN Answer(c, "ok") /\ Issue(c, target[c])
               ELSE Answer(c, "unauthorized") /\ UNCHANGED held
            /\ UNCHANGED <<status, clock, target>>

\* get_current_user, up to its SELECT.
PresentAccess(c, t) == Present(c, t, "access", "authorize")

\* Mutant of Authorize: the row is not asked whether it is active.
AuthorizeAny(c) == /\ pc[c] = "authorize"
                   /\ Goto(c, "serving")
                   /\ UNCHANGED <<status, clock, held, target>>

\* The row is there and active, or the request goes no further.
Authorize(c) == /\ pc[c] = "authorize"
                /\ IF status[target[c]] = "active"
                   THEN Goto(c, "serving") ELSE Answer(c, "unauthorized")
                /\ UNCHANGED <<status, clock, held, target>>

\* The handler of the request, /auth/me or any other, is done.
Serve(c) == /\ pc[c] = "serving"
            /\ Answer(c, "ok")
            /\ UNCHANGED <<status, clock, held, target>>

\* The database, the connection or the process fails; what was committed stays.
Fail(c) == /\ pc[c] \in Busy
           /\ Answer(c, "error")
           /\ UNCHANGED <<status, clock, held, target>>

-----------------------------------------------------------------------------
\* c hands an access token to d.
Share(c, d, t) == /\ t \in held[c] /\ t.type = "access"
                  /\ held' = [held EXCEPT ![d] = @ \cup {t}]
                  /\ UNCHANGED <<status, clock, pc, target, answer>>

\* is_active is cleared or set.
Switch(a) == /\ Exists(a)
             /\ status' = [status EXCEPT ![a] = IF @ = "active" THEN "disabled" ELSE "active"]
             /\ UNCHANGED <<clock, held, pc, target, answer>>

Tick == /\ clock < MaxClock
        /\ clock' = clock + 1
        /\ UNCHANGED <<status, held, pc, target, answer>>

RequestStep(c) == \/ Insert(c)
                  \/ InsertFails(c)
                  \/ Registered(c)
                  \/ Renew(c)
                  \/ Authorize(c)
                  \/ Serve(c)

Next == \/ \E c \in Clients, e \in Emails : Register(c, e) \/ Login(c, e)
        \/ \E c \in Clients : \E t \in held[c] : PresentRefresh(c, t) \/ PresentAccess(c, t)
        \/ \E c \in Clients : RequestStep(c) \/ Fail(c)
        \/ \E c, d \in Clients : \E t \in held[c] : Share(c, d, t)
        \/ \E a \in Account : Switch(a)
        \/ Tick

\* A request that has come in goes on: the event loop resumes it.
Spec == Init /\ [][Next]_vars /\ \A c \in Clients : WF_vars(RequestStep(c))

-----------------------------------------------------------------------------
(***************************************************************************)
(* Properties.                                                             *)
(***************************************************************************)
\* However registrations race, an email has one account, and one that is
\* registering does not stand on an account of somebody else.
OnePerEmail ==
    /\ \A a, b \in Account : Exists(a) /\ Exists(b) /\ a[2] = b[2] => a = b
    /\ \A c \in Clients : pc[c] \in {"insert", "inserted"} => target[c][1] = c

\* A token is of an account that exists; a pair is its owner's; and what anybody
\* else has of an account the owner has, too: a token that was handed on is not
\* turned into one that lives longer, or that renews.
TokensFit ==
    \A c \in Clients, t \in UNION {held[d] : d \in Clients} :
        t \in held[c] => /\ Exists(t.sub)
                         /\ t.sub[1] # c => t.type = "access" /\ t \in held[t.sub[1]]

\* What a client was told of a registration is so: "created" and it has the
\* account, "conflict" and there is one.
AnswersHold ==
    \A c \in Clients :
        /\ answer[c] = "created" /\ pc[c] = "idle" => Exists(target[c])
        /\ answer[c] = "conflict" /\ pc[c] = "idle" => Taken(target[c][2])

\* A request in hand is about an account its client has a token or a password of.
RequestsFit ==
    \A c \in Clients :
        /\ pc[c] = "inserted" => Exists(target[c])
        /\ pc[c] \in {"renew", "authorize", "serving"} =>
              \E t \in held[c] : t.sub = target[c]
        /\ pc[c] = "renew" => target[c][1] = c

\* The inductive invariant.
IInv == TypeOK /\ OnePerEmail /\ TokensFit /\ AnswersHold /\ RequestsFit

\* An account that is disabled for good is, before long, worked on by nobody,
\* though all the tokens of it are good.
DisablingTakesHold ==
    \A a \in Account :
        <>[](status[a] = "disabled")
            => <>[](\A c \in Clients : ~(pc[c] = "serving" /\ target[c] = a))

\* Accounts implements AccountBook: who an email belongs to is in its row, whom
\* its owner let in is in the tokens that are about.
Holder(e) == CHOOSE a \in Account : a[2] = e /\ Exists(a)

owner    == [e \in Emails |-> IF Taken(e) THEN Holder(e)[1] ELSE NoOne]
disabled == {e \in Emails : \E a \in Account : a[2] = e /\ status[a] = "disabled"}
guests   == {p \in Clients \X Emails :
                \E t \in held[p[1]] : t.sub[2] = p[2] /\ t.sub[1] # p[1]}
admitted == [c \in Clients |-> IF pc[c] = "serving" THEN target[c][2] ELSE NoOne]

Book == INSTANCE AccountBook WITH
    owner <- owner, disabled <- disabled, guests <- guests, admitted <- admitted

\* Whatever tokens are about, clients work on accounts that they own or were let
\* in to, while these are active, and an email keeps its owner.
BookSpec == Book!BookSpec

=============================================================================
