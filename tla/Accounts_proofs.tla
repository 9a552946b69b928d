--------------------------- MODULE Accounts_proofs ---------------------------
(***************************************************************************)
(* Proofs about Accounts, for any number of clients and emails and any     *)
(* lives of the tokens.                                                    *)
(***************************************************************************)
EXTENDS Accounts, TLAPS

\* An answer, a label or a target is set for one client and left to the others.
LEMMA CreateType ==
    ASSUME TypeOK, NEW a \in Account, NEW type \in {"access", "refresh"}
    PROVE  /\ Create(type, a) \in Token
           /\ Create(type, a).type = type /\ Create(type, a).sub = a
PROOF BY LifeAssumption DEF Create, Token, TypeOK

\* What a client gets of an account of its own is no more than TokensFit allows.
LEMMA IssueFits ==
    ASSUME TypeOK, TokensFit, NEW c \in Clients, NEW a \in Account,
           Exists(a), a[1] = c, Issue(c, a), UNCHANGED status
    PROVE  /\ held' \in [Clients -> SUBSET Token]
           /\ TokensFit'
           /\ \A d \in Clients : held[d] \subseteq held'[d]
PROOF
<1> DEFINE pair == {Create("access", a), Create("refresh", a)}
<1>1. /\ pair \subseteq Token
      /\ \A t \in pair : t.sub = a
  BY CreateType
<1>2. /\ held \in [Clients -> SUBSET Token]
      /\ held' = [held EXCEPT ![c] = @ \cup pair]
  BY DEF Issue, TypeOK
<1> HIDE DEF pair
<1>3. held' \in [Clients -> SUBSET Token]
  BY <1>1, <1>2
<1>4. /\ \A d \in Clients : held[d] \subseteq held'[d]
      /\ \A d \in Clients : \A t \in held'[d] : t \in held[d] \/ (d = c /\ t \in pair)
  BY <1>2
<1>5. ASSUME NEW d \in Clients, NEW t \in held'[d]
      PROVE  Exists(t.sub)' /\ (t.sub[1] # d => t.type = "access" /\ t \in held'[t.sub[1]])
  <2>1. CASE t \in held[d]
    <3>1. /\ Exists(t.sub) /\ (t.sub[1] # d => t.type = "access" /\ t \in held[t.sub[1]])
          /\ t.sub[1] \in Clients
      BY <1>2, <2>1 DEF TokensFit, Token, Account
    <3> QED
      BY <1>4, <3>1 DEF Exists
  <2>2. CASE d = c /\ t \in pair
    BY <1>1, <2>2 DEF Exists
  <2> QED
    BY <1>4, <1>5, <2>1, <2>2
<1> QED
  BY <1>3, <1>4, <1>5 DEF TokensFit

\* The request of c moves to label, about a, with code for an answer, and nothing
\* of what the invariant asks of that is missing.
Moves(c, label, a, code) ==
    /\ UNCHANGED <<status, clock>>
    /\ label \in {"idle"} \cup Busy
    /\ a \in Account
    /\ code \in {"none", "ok", "created", "conflict", "unauthorized", "forbidden", "error"}
    /\ pc' = [pc EXCEPT ![c] = label]
    /\ target' = [target EXCEPT ![c] = a]
    /\ answer' = [answer EXCEPT ![c] = code]
    /\ label \in {"insert", "inserted", "renew"} => a[1] = c
    /\ label = "inserted" \/ (label = "idle" /\ code = "created") => Exists(a)
    /\ label = "idle" /\ code = "conflict" => Taken(a[2])
    /\ label \in {"renew", "authorize", "serving"} => \E t \in held[c] : t.sub = a

\* Such a step keeps the invariant, if the tokens it gives c fit.
LEMMA IssueMoves ==
    ASSUME IInv, NEW c \in Clients, NEW label, NEW a, NEW code, Moves(c, label, a, code),
           held' \in [Clients -> SUBSET Token], TokensFit',
           \A d \in Clients : held[d] \subseteq held'[d]
    PROVE  IInv'
PROOF
<1>1. TypeOK'
  BY DEF IInv, TypeOK, Busy, Moves
<1>2. /\ pc'[c] = label /\ target'[c] = a /\ answer'[c] = code
      /\ \A d \in Clients \ {c} : pc'[d] = pc[d] /\ target'[d] = target[d] /\ answer'[d] = answer[d]
  BY DEF IInv, TypeOK, Moves
<1>3. \A b \in Account : Exists(b)' <=> Exists(b)
  BY DEF Exists, Moves
<1>4. \A e : Taken(e)' <=> Taken(e)
  BY <1>3 DEF Taken
<1>5. OnePerEmail'
  BY <1>2, <1>3 DEF IInv, OnePerEmail, Moves
<1>6. AnswersHold'
  <2>1. \A d \in Clients : target[d] \in Account
    BY DEF IInv, TypeOK
  <2> QED
    BY <1>2, <1>3, <1>4, <2>1 DEF IInv, AnswersHold, Moves
<1>7. RequestsFit'
  <2>1. \A d \in Clients : target[d] \in Account
    BY DEF IInv, TypeOK
  <2>2. ASSUME NEW d \in Clients \ {c}
        PROVE  /\ pc'[d] = "inserted" => Exists(target[d])'
               /\ pc'[d] \in {"renew", "authorize", "serving"} =>
                     \E t \in held'[d] : t.sub = target'[d]
               /\ pc'[d] = "renew" => target'[d][1] = d
    BY <1>2, <1>3, <2>1 DEF IInv, RequestsFit, Exists, Moves
  <2>3. /\ pc'[c] = "inserted" => Exists(target[c])'
        /\ pc'[c] \in {"renew", "authorize", "serving"} =>
              \E t \in held'[c] : t.sub = target'[c]
        /\ pc'[c] = "renew" => target'[c][1] = c
    BY <1>2 DEF Exists, Moves
  <2> QED
    BY <2>2, <2>3 DEF RequestsFit
<1> QED
  BY <1>1, <1>5, <1>6, <1>7 DEF IInv

\* The same where c gets no token.
LEMMA TokenlessMoves ==
    ASSUME IInv, NEW c \in Clients, NEW label, NEW a, NEW code, Moves(c, label, a, code),
           UNCHANGED held
    PROVE  IInv'
PROOF
<1>1. /\ held' \in [Clients -> SUBSET Token]
      /\ \A d \in Clients : held[d] \subseteq held'[d]
  BY DEF IInv, TypeOK
<1>2. TokensFit'
  BY DEF IInv, TokensFit, Exists, Moves
<1> QED
  BY <1>1, <1>2, IssueMoves

\* The answers and the labels of the code.
LEMMA HandlerFits ==
    ASSUME IInv, NEW c \in Clients, RequestStep(c) \/ Fail(c)
    PROVE  IInv'
PROOF
<1> USE DEF Busy
<1>1. /\ TypeOK /\ OnePerEmail /\ TokensFit /\ RequestsFit
      /\ target[c] \in Account /\ answer[c] \in {"none", "ok", "created", "conflict",
                                            "unauthorized", "forbidden", "error"}
      /\ target' = target => target' = [target EXCEPT ![c] = target[c]]
      /\ answer' = answer => answer' = [answer EXCEPT ![c] = answer[c]]
  BY DEF IInv, TypeOK
<1>2. CASE Insert(c)
  <2>1. /\ pc[c] = "insert" /\ ~Taken(target[c][2]) /\ target[c][1] = c
        /\ status' = [status EXCEPT ![target[c]] = "active"]
        /\ pc' = [pc EXCEPT ![c] = "inserted"]
        /\ UNCHANGED <<clock, held, target, answer>>
    BY <1>1, <1>2 DEF Insert, Goto, OnePerEmail
  <2>2. TypeOK'
    BY <1>1, <2>1 DEF TypeOK
  <2>3. /\ Exists(target[c])'
        /\ \A a \in Account : Exists(a) => Exists(a)'
        /\ \A a \in Account : Exists(a)' => Exists(a) \/ a = target[c]
    BY <1>1, <2>1 DEF TypeOK, Exists
  <2>4. \A e : Taken(e) => Taken(e)'
    BY <2>3 DEF Taken
  <2>5. OnePerEmail'
    <3>1. \A a \in Account : Exists(a) => a[2] # target[c][2]
      BY <2>1 DEF Taken
    <3>2. \A d \in Clients : pc'[d] \in {"insert", "inserted"} => target'[d][1] = d
      BY <1>1, <2>1 DEF OnePerEmail, TypeOK
    <3> QED
      BY <1>1, <2>3, <3>1, <3>2 DEF OnePerEmail
  <2>6. TokensFit'
    <3>1. \A d \in Clients : \A t \in held[d] : t.sub \in Account
      BY <1>1 DEF TypeOK, Token
    <3> QED
      BY <1>1, <2>1, <2>3, <3>1 DEF TokensFit
  <2>7. AnswersHold'
    <3>1. \A d \in Clients : pc'[d] = "idle" => pc[d] = "idle" /\ target[d] \in Account
      BY <1>1, <2>1 DEF TypeOK
    <3> QED
      BY <2>1, <2>3, <2>4, <3>1 DEF IInv, AnswersHold
  <2>8. RequestsFit'
    <3>1. \A d \in Clients \ {c} : pc'[d] = pc[d] /\ target[d] \in Account
      BY <1>1, <2>1 DEF TypeOK
    <3>2. pc'[c] = "inserted"
      BY <1>1, <2>1 DEF TypeOK
    <3>3. /\ \A d \in Clients : pc'[d] = "inserted" => Exists(target[d])'
          /\ \A d \in Clients : pc'[d] \in {"renew", "authorize", "serving"} =>
                 \E t \in held'[d] : t.sub = target'[d]
          /\ \A d \in Clients : pc'[d] = "renew" => target'[d][1] = d
      BY <1>1, <2>1, <2>3, <3>1, <3>2 DEF RequestsFit
    <3> QED
      BY <2>1, <3>3 DEF RequestsFit, Exists
  <2> QED
    BY <2>2, <2>5, <2>6, <2>7, <2>8 DEF IInv
<1>3. CASE InsertFails(c)
  <2>1. Moves(c, "idle", target[c], "error") /\ UNCHANGED held
    BY <1>1, <1>3 DEF InsertFails, Answer, Moves
  <2> QED
    BY <2>1, TokenlessMoves
<1>4. CASE Registered(c)
  <2>1. Exists(target[c]) /\ target[c][1] = c
    BY <1>1, <1>4 DEF Registered, RequestsFit, OnePerEmail
  <2>2. UNCHANGED status /\ Issue(c, target[c])
    BY <1>4 DEF Registered
  <2>3. /\ held' \in [Clients -> SUBSET Token]
        /\ TokensFit'
        /\ \A d \in Clients : held[d] \subseteq held'[d]
    BY <1>1, <2>1, <2>2, IssueFits
  <2>4. Moves(c, "idle", target[c], "created")
    BY <1>1, <1>4, <2>1 DEF Registered, Answer, Moves
  <2> QED
    BY <2>3, <2>4, IssueMoves
<1>5. CASE Renew(c)
  <2>1. CASE status[target[c]] = "active"
    <3>1. Exists(target[c]) /\ target[c][1] = c
      BY <1>1, <1>5, <2>1 DEF Renew, RequestsFit, Exists
    <3>2. UNCHANGED status /\ Issue(c, target[c])
      BY <1>5, <2>1 DEF Renew
    <3>3. /\ held' \in [Clients -> SUBSET Token]
          /\ TokensFit'
          /\ \A d \in Clients : held[d] \subseteq held'[d]
      BY <1>1, <3>1, <3>2, IssueFits
    <3>4. Moves(c, "idle", target[c], "ok")
      BY <1>1, <1>5, <2>1 DEF Renew, Answer, Moves
    <3> QED
      BY <3>3, <3>4, IssueMoves
  <2>2. CASE status[target[c]] # "active"
    <3>1. Moves(c, "idle", target[c], "unauthorized") /\ UNCHANGED held
      BY <1>1, <1>5, <2>2 DEF Renew, Answer, Moves
    <3> QED
      BY <3>1, TokenlessMoves
  <2> QED
    BY <2>1, <2>2
<1>6. CASE Authorize(c)
  <2>1. \E t \in held[c] : t.sub = target[c]
    BY <1>1, <1>6 DEF Authorize, RequestsFit
  <2>2. CASE status[target[c]] = "active"
    <3>1. Moves(c, "serving", target[c], answer[c]) /\ UNCHANGED held
      BY <1>1, <1>6, <2>1, <2>2 DEF Authorize, Goto, Moves
    <3> QED
      BY <3>1, TokenlessMoves
  <2>3. CASE status[target[c]] # "active"
    <3>1. Moves(c, "idle", target[c], "unauthorized") /\ UNCHANGED held
      BY <1>1, <1>6, <2>3 DEF Authorize, Answer, Moves
    <3> QED
      BY <3>1, TokenlessMoves
  <2> QED
    BY <2>2, <2>3
<1>7. CASE Serve(c)
  <2>1. Moves(c, "idle", target[c], "ok") /\ UNCHANGED held
    BY <1>1, <1>7 DEF Serve, Answer, Moves
  <2> QED
    BY <2>1, TokenlessMoves
<1>8. CASE Fail(c)
  <2>1. Moves(c, "idle", target[c], "error") /\ UNCHANGED held
    BY <1>1, <1>8 DEF Fail, Answer, Moves
  <2> QED
    BY <2>1, TokenlessMoves
<1> QED
  BY <1>2, <1>3, <1>4, <1>5, <1>6, <1>7, <1>8 DEF RequestStep

\* A request that comes in.
LEMMA RequestFits ==
    ASSUME IInv, NEW c \in Clients,
           \/ \E e \in Emails : Register(c, e) \/ Login(c, e)
           \/ \E t \in held[c] : PresentRefresh(c, t) \/ PresentAccess(c, t)
    PROVE  IInv'
PROOF
<1> USE DEF Busy
<1>1. /\ TypeOK /\ TokensFit
      /\ answer[c] \in {"none", "ok", "created", "conflict", "unauthorized",
                        "forbidden", "error"}
      /\ answer' = answer => answer' = [answer EXCEPT ![c] = answer[c]]
  BY DEF IInv, TypeOK
<1>2. ASSUME NEW e \in Emails, Register(c, e)
      PROVE  IInv'
  <2>1. <<c, e>> \in Account /\ <<c, e>>[1] = c /\ <<c, e>>[2] = e
    BY DEF Account
  <2>2. CASE Taken(e)
    <3>1. Moves(c, "idle", <<c, e>>, "conflict") /\ UNCHANGED held
      BY <1>1, <1>2, <2>1, <2>2 DEF Register, Answer, Target, Moves
    <3> QED
      BY <3>1, TokenlessMoves
  <2>3. CASE ~Taken(e)
    <3>1. Moves(c, "insert", <<c, e>>, answer[c]) /\ UNCHANGED held
      BY <1>1, <1>2, <2>1, <2>3 DEF Register, Goto, Target, Moves
    <3> QED
      BY <3>1, TokenlessMoves
  <2> QED
    BY <2>2, <2>3
<1>3. ASSUME NEW e \in Emails, Login(c, e)
      PROVE  IInv'
  <2>1. /\ <<c, e>> \in Account /\ <<c, e>>[1] = c
        /\ status[<<c, e>>] \in {"none", "active", "disabled"}
    BY <1>1 DEF Account, TypeOK
  <2>2. CASE status[<<c, e>>] = "active"
    <3>1. Exists(<<c, e>>) /\ UNCHANGED status /\ Issue(c, <<c, e>>)
      BY <1>3, <2>2 DEF Login, Exists
    <3>2. /\ held' \in [Clients -> SUBSET Token]
          /\ TokensFit'
          /\ \A d \in Clients : held[d] \subseteq held'[d]
      BY <1>1, <2>1, <3>1, IssueFits
    <3>3. Moves(c, "idle", <<c, e>>, "ok")
      BY <1>1, <1>3, <2>1, <2>2 DEF Login, Answer, Target, Moves
    <3> QED
      BY <3>2, <3>3, IssueMoves
  <2>3. CASE status[<<c, e>>] = "none"
    <3>1. Moves(c, "idle", <<c, e>>, "unauthorized") /\ UNCHANGED held
      BY <1>1, <1>3, <2>1, <2>3 DEF Login, Answer, Target, Moves
    <3> QED
      BY <3>1, TokenlessMoves
  <2>4. CASE status[<<c, e>>] = "disabled"
    <3>1. Moves(c, "idle", <<c, e>>, "forbidden") /\ UNCHANGED held
      BY <1>1, <1>3, <2>1, <2>4 DEF Login, Answer, Target, Moves
    <3> QED
      BY <3>1, TokenlessMoves
  <2> QED
    BY <2>1, <2>2, <2>3, <2>4
<1>4. ASSUME NEW t \in held[c], NEW type \in {"access", "refresh"},
             NEW label \in {"renew", "authorize"}, label = "renew" => type = "refresh",
             Present(c, t, type, label)
      PROVE  IInv'
  <2>1. t \in Token /\ t.sub \in Account /\ Exists(t.sub)
    BY <1>1 DEF TypeOK, Token, TokensFit
  <2>2. CASE Decodes(t, type)
    <3>1. label = "renew" => t.sub[1] = c
      BY <1>1, <1>4, <2>2 DEF TokensFit, Decodes
    <3>2. Moves(c, label, t.sub, answer[c]) /\ UNCHANGED held
      BY <1>1, <1>4, <2>1, <2>2, <3>1 DEF Present, Goto, Target, Moves
    <3> QED
      BY <3>2, TokenlessMoves
  <2>3. CASE ~Decodes(t, type)
    <3>1. Moves(c, "idle", t.sub, "unauthorized") /\ UNCHANGED held
      BY <1>1, <1>4, <2>1, <2>3 DEF Present, Answer, Target, Moves
    <3> QED
      BY <3>1, TokenlessMoves
  <2> QED
    BY <2>2, <2>3
<1> QED
  BY <1>2, <1>3, <1>4 DEF PresentRefresh, PresentAccess

\* An access token that is handed on is the owner's still.
LEMMA ShareFits ==
    ASSUME IInv, NEW c \in Clients, NEW d \in Clients, NEW t \in held[c], Share(c, d, t)
    PROVE  IInv'
PROOF
<1>1. /\ TypeOK /\ TokensFit /\ held \in [Clients -> SUBSET Token]
      /\ t.type = "access" /\ held' = [held EXCEPT ![d] = @ \cup {t}]
      /\ UNCHANGED <<status, clock, pc, target, answer>>
  BY DEF IInv, TypeOK, Share
<1>2. t \in Token /\ t.sub[1] \in Clients
  BY <1>1 DEF Token, Account
<1>3. /\ held' \in [Clients -> SUBSET Token]
      /\ \A x \in Clients : held[x] \subseteq held'[x]
      /\ \A x \in Clients : \A u \in held'[x] : u \in held[x] \/ (x = d /\ u = t)
  BY <1>1, <1>2
<1>4. ASSUME NEW x \in Clients, NEW u \in held'[x]
      PROVE  Exists(u.sub)' /\ (u.sub[1] # x => u.type = "access" /\ u \in held'[u.sub[1]])
  <2>1. CASE u \in held[x]
    <3>1. /\ Exists(u.sub) /\ (u.sub[1] # x => u.type = "access" /\ u \in held[u.sub[1]])
          /\ u.sub[1] \in Clients
      BY <1>1, <2>1 DEF TokensFit, Token, Account
    <3> QED
      BY <1>1, <1>3, <3>1 DEF Exists
  <2>2. CASE x = d /\ u = t
    <3>1. Exists(t.sub) /\ (t.sub[1] # c => t \in held[t.sub[1]])
      BY <1>1 DEF TokensFit
    <3>2. t \in held[t.sub[1]]
      BY <3>1
    <3> QED
      BY <1>1, <1>2, <1>3, <2>2, <3>1, <3>2 DEF Exists
  <2> QED
    BY <1>3, <2>1, <2>2
<1>5. TokensFit'
  BY <1>4 DEF TokensFit
<1>6. TypeOK'
  BY <1>1, <1>3 DEF TypeOK
<1>7. OnePerEmail' /\ AnswersHold'
  BY <1>1 DEF IInv, OnePerEmail, AnswersHold, Exists, Taken
<1>8. RequestsFit'
  BY <1>1, <1>3 DEF IInv, RequestsFit, Exists
<1> QED
  BY <1>5, <1>6, <1>7, <1>8 DEF IInv

LEMMA SwitchFits ==
    ASSUME IInv, NEW a \in Account, Switch(a)
    PROVE  IInv'
PROOF
<1>1. /\ TypeOK /\ status \in [Account -> {"none", "active", "disabled"}] /\ status[a] # "none"
      /\ status' = [status EXCEPT ![a] = IF @ = "active" THEN "disabled" ELSE "active"]
      /\ UNCHANGED <<clock, held, pc, target, answer>>
  BY DEF IInv, TypeOK, Switch, Exists
<1>2. TypeOK'
  BY <1>1 DEF TypeOK
<1>3. \A b \in Account : Exists(b)' <=> Exists(b)
  BY <1>1 DEF Exists
<1>4. \A e : Taken(e)' <=> Taken(e)
  BY <1>3 DEF Taken
<1>5. /\ \A c \in Clients : target[c] \in Account
      /\ \A c \in Clients : \A t \in held[c] : t.sub \in Account
  BY <1>1 DEF TypeOK, Token
<1>6. OnePerEmail' /\ TokensFit'
  BY <1>1, <1>3, <1>5 DEF IInv, OnePerEmail, TokensFit
<1>7. AnswersHold'
  BY <1>1, <1>3, <1>4, <1>5 DEF IInv, AnswersHold
<1>8. RequestsFit'
  <2>1. \A c \in Clients : Exists(target[c]) => Exists(target[c])'
    BY <1>1, <1>3, <1>5 DEF Exists
  <2> QED
    BY <1>1, <2>1 DEF IInv, RequestsFit
<1> QED
  BY <1>2, <1>6, <1>7, <1>8 DEF IInv

\* However registrations race and tokens are passed about, one email has one
\* account, and nobody holds a token that its account has not been given.
THEOREM Invariance == Spec => []IInv
PROOF
<1>1. Init => IInv
  BY LifeAssumption DEF Init, IInv, TypeOK, OnePerEmail, TokensFit, AnswersHold,
                        RequestsFit, Exists, Taken, Account
<1>2. IInv /\ [Next]_vars => IInv'
  <2>1. ASSUME IInv, Tick
        PROVE  IInv'
    <3>1. TypeOK'
      BY <2>1 DEF Tick, IInv, TypeOK
    <3> QED
      BY <2>1, <3>1 DEF Tick, IInv, OnePerEmail, TokensFit, AnswersHold, RequestsFit,
                        Exists, Taken
  <2>2. ASSUME IInv, UNCHANGED vars
        PROVE  IInv'
    BY <2>2 DEF vars, IInv, TypeOK, OnePerEmail, TokensFit, AnswersHold, RequestsFit,
                Exists, Taken
  <2> QED
    BY <2>1, <2>2, HandlerFits, RequestFits, ShareFits, SwitchFits DEF Next
<1> QED
  BY <1>1, <1>2, PTL DEF Spec

-----------------------------------------------------------------------------
\* The abstract owner of an email is the one of its only account.
LEMMA OwnerIs ==
    ASSUME OnePerEmail, NEW a \in Account, Exists(a)
    PROVE  Taken(a[2]) /\ Holder(a[2]) = a /\ a[2] \in Emails /\ owner[a[2]] = a[1]
PROOF
<1>1. Taken(a[2]) /\ a[2] \in Emails
  BY DEF Taken, Account
<1>2. Holder(a[2]) \in Account /\ Holder(a[2])[2] = a[2] /\ Exists(Holder(a[2]))
  BY DEF Holder
<1>3. Holder(a[2]) = a
  BY <1>2 DEF OnePerEmail
<1> QED
  BY <1>1, <1>3 DEF owner

LEMMA NoOwner == ASSUME NEW e \in Emails, ~Taken(e) PROVE owner[e] = NoOne
PROOF BY DEF owner

\* The same of the next state.
LEMMA NextOwner ==
    ASSUME OnePerEmail'
    PROVE  /\ \A a \in Account : Exists(a)' => owner'[a[2]] = a[1]
           /\ \A e \in Emails : ~Taken(e)' => owner'[e] = NoOne
           /\ owner' = [e \in Emails |-> owner'[e]]
PROOF
<1>1. ASSUME NEW a \in Account, Exists(a)'
      PROVE  owner'[a[2]] = a[1]
  <2>1. Taken(a[2])' /\ a[2] \in Emails
    BY <1>1 DEF Taken, Account
  <2>2. Holder(a[2])' \in Account /\ (Holder(a[2])')[2] = a[2] /\ Exists(Holder(a[2]))'
    BY <1>1 DEF Holder
  <2>3. Holder(a[2])' = a
    BY <1>1, <2>2 DEF OnePerEmail
  <2> QED
    BY <2>1, <2>3 DEF owner
<1>2. \A e \in Emails : ~Taken(e)' => owner'[e] = NoOne
  BY DEF owner
<1>3. owner' = [e \in Emails |-> owner'[e]]
  BY DEF owner
<1> QED
  BY <1>1, <1>2, <1>3

\* As long as no row is inserted, the owners are the same.
LEMMA OwnersStay ==
    ASSUME IInv, OnePerEmail', \A a \in Account : Exists(a)' <=> Exists(a)
    PROVE  owner' = owner
PROOF
<1>1. owner = [e \in Emails |-> owner[e]] /\ owner' = [e \in Emails |-> owner'[e]]
  BY DEF owner
<1>2. ASSUME NEW e \in Emails
      PROVE  owner'[e] = owner[e]
  <2>1. CASE Taken(e)
    <3>1. PICK a \in Account : a[2] = e /\ Exists(a)
      BY <2>1 DEF Taken
    <3>2. owner[e] = a[1]
      BY <3>1, OwnerIs DEF IInv
    <3>3. owner'[e] = a[1]
      BY <3>1, NextOwner
    <3> QED
      BY <3>2, <3>3
  <2>2. CASE ~Taken(e)
    <3>1. ~Taken(e)'
      BY <2>2 DEF Taken
    <3> QED
      BY <2>2, <3>1, NoOwner, NextOwner
  <2> QED
    BY <2>1, <2>2
<1> QED
  BY <1>1, <1>2

\* The guests are the same if nobody has a new token of another client's account.
LEMMA GuestsStay ==
    ASSUME \A c \in Clients : held[c] \subseteq held'[c],
           \A c \in Clients : \A t \in held'[c] : t \in held[c] \/ t.sub[1] = c
    PROVE  guests' = guests
PROOF BY DEF guests

\* A token gives its holder a right to the account it is of.
LEMMA HolderIsWelcome ==
    ASSUME IInv, NEW c \in Clients, NEW t \in held[c]
    PROVE  Book!Welcome(c, t.sub[2]) /\ t.sub[2] \in Emails
PROOF
<1>1. t.sub \in Account /\ Exists(t.sub) /\ OnePerEmail
  BY DEF IInv, TypeOK, Token, TokensFit
<1>2. owner[t.sub[2]] = t.sub[1] /\ t.sub[2] \in Emails
  BY <1>1, OwnerIs
<1>3. t.sub[1] # c => <<c, t.sub[2]>> \in guests
  BY <1>2 DEF guests
<1> QED
  BY <1>2, <1>3 DEF Book!Welcome

\* An account is off in the abstract book as long as it is off here.
LEMMA ActiveIsOn ==
    ASSUME IInv, NEW a \in Account, status[a] = "active"
    PROVE  a[2] \notin disabled
PROOF BY DEF IInv, OnePerEmail, Exists, disabled

LEMMA InsertClaims ==
    ASSUME IInv, IInv', NEW c \in Clients, Insert(c)
    PROVE  Book!BookNext
PROOF
<1> DEFINE e == target[c][2]
<1>1. /\ pc[c] = "insert" /\ ~Taken(e) /\ target[c] \in Account /\ target[c][1] = c
      /\ status \in [Account -> {"none", "active", "disabled"}]
      /\ status' = [status EXCEPT ![target[c]] = "active"]
      /\ pc \in [Clients -> {"idle"} \cup Busy]
      /\ pc' = [pc EXCEPT ![c] = "inserted"] /\ UNCHANGED <<held, target>>
      /\ OnePerEmail /\ OnePerEmail' /\ e \in Emails
  BY DEF IInv, TypeOK, OnePerEmail, Insert, Goto, Account
<1>2. /\ status'[target[c]] = "active"
      /\ \A a \in Account \ {target[c]} : status'[a] = status[a]
      /\ status[target[c]] = "none"
  BY <1>1 DEF Taken, Exists
<1>3. owner[e] = NoOne /\ owner'[e] = c
  <2>1. owner[e] = NoOne
    BY <1>1, NoOwner
  <2>2. Exists(target[c])'
    BY <1>1, <1>2 DEF Exists
  <2> QED
    BY <1>1, <2>1, <2>2, NextOwner
<1>4. ASSUME NEW x \in Emails \ {e}
      PROVE  owner'[x] = owner[x]
  <2>1. \A a \in Account : a[2] = x => (Exists(a)' <=> Exists(a))
    BY <1>2 DEF Exists
  <2>2. CASE Taken(x)
    <3>1. PICK a \in Account : a[2] = x /\ Exists(a)
      BY <2>2 DEF Taken
    <3>2. owner[x] = a[1]
      BY <1>1, <3>1, OwnerIs
    <3>3. owner'[x] = a[1]
      BY <1>1, <2>1, <3>1, NextOwner
    <3> QED
      BY <3>2, <3>3
  <2>3. CASE ~Taken(x)
    <3>1. ~Taken(x)'
      BY <2>1, <2>3 DEF Taken
    <3> QED
      BY <1>1, <2>3, <3>1, NoOwner, NextOwner
  <2> QED
    BY <2>2, <2>3
<1>5. owner' = [owner EXCEPT ![e] = c]
  <2>1. owner = [x \in Emails |-> owner[x]] /\ owner' = [x \in Emails |-> owner'[x]]
    BY DEF owner
  <2> QED
    BY <1>1, <1>3, <1>4, <2>1
<1>6. disabled' = disabled
  BY <1>2 DEF disabled
<1>7. guests' = guests /\ admitted' = admitted
  BY <1>1 DEF guests, admitted
<1> QED
  BY <1>1, <1>3, <1>5, <1>6, <1>7 DEF Book!BookNext, Book!Claim

\* Nothing but a switch changes which accounts there are or are off.
LEMMA RowsStay ==
    ASSUME IInv, IInv', UNCHANGED status
    PROVE  owner' = owner /\ disabled' = disabled
PROOF
<1>1. \A a \in Account : Exists(a)' <=> Exists(a)
  BY DEF Exists
<1>2. owner' = owner
  BY <1>1, OwnersStay DEF IInv
<1> QED
  BY <1>2 DEF disabled

LEMMA AuthorizeAdmits ==
    ASSUME IInv, IInv', NEW c \in Clients, Authorize(c), status[target[c]] = "active"
    PROVE  Book!BookNext
PROOF
<1>1. /\ pc[c] = "authorize" /\ target[c] \in Account
      /\ pc \in [Clients -> {"idle"} \cup Busy]
      /\ pc' = [pc EXCEPT ![c] = "serving"] /\ UNCHANGED <<status, held, target>>
  BY DEF IInv, TypeOK, Authorize, Goto
<1>2. PICK t \in held[c] : t.sub = target[c]
  BY <1>1 DEF IInv, RequestsFit
<1>3. Book!Welcome(c, target[c][2]) /\ target[c][2] \in Emails
  BY <1>2, HolderIsWelcome
<1>4. target[c][2] \notin disabled
  BY <1>1, ActiveIsOn
<1>5. admitted[c] = NoOne /\ admitted' = [admitted EXCEPT ![c] = target[c][2]]
  BY <1>1 DEF admitted
<1>6. owner' = owner /\ disabled' = disabled /\ guests' = guests
  BY <1>1, RowsStay DEF guests
<1> QED
  BY <1>3, <1>4, <1>5, <1>6 DEF Book!BookNext, Book!Admit

\* A client that is done leaves, or was not there.
LEMMA DoneLeaves ==
    ASSUME IInv, IInv', NEW c \in Clients, UNCHANGED <<status, held, target>>,
           pc' = [pc EXCEPT ![c] = "idle"]
    PROVE  Book!BookNext
PROOF
<1>1. admitted' = [admitted EXCEPT ![c] = NoOne]
  <2>1. pc \in [Clients -> {"idle"} \cup Busy]
    BY DEF IInv, TypeOK
  <2> QED
    BY <2>1 DEF admitted
<1>2. owner' = owner /\ disabled' = disabled /\ guests' = guests
  BY RowsStay DEF guests
<1> QED
  BY <1>1, <1>2 DEF Book!BookNext, Book!Leave

\* Up to the check of its row a request is not seen in the book, and tokens that
\* a client gets of its own account are not either.
LEMMA Unseen ==
    ASSUME IInv, IInv', NEW c \in Clients, UNCHANGED status,
           pc[c] # "serving",
           NEW label \in {"idle"} \cup Busy, label # "serving", pc' = [pc EXCEPT ![c] = label],
           NEW a, target' = [target EXCEPT ![c] = a],
           \A d \in Clients : held[d] \subseteq held'[d],
           \A d \in Clients : \A t \in held'[d] : t \in held[d] \/ t.sub[1] = d
    PROVE  UNCHANGED Book!bookVars
PROOF
<1>1. admitted' = admitted
  <2>1. pc \in [Clients -> {"idle"} \cup Busy] /\ target \in [Clients -> Account]
    BY DEF IInv, TypeOK
  <2> QED
    BY <2>1 DEF admitted
<1>2. owner' = owner /\ disabled' = disabled /\ guests' = guests
  BY RowsStay, GuestsStay
<1> QED
  BY <1>1, <1>2 DEF Book!bookVars

LEMMA ShareLetsIn ==
    ASSUME IInv, IInv', NEW c \in Clients, NEW d \in Clients, NEW t \in held[c],
           Share(c, d, t)
    PROVE  Book!BookNext \/ UNCHANGED Book!bookVars
PROOF
<1> DEFINE e == t.sub[2]
<1>1. /\ held \in [Clients -> SUBSET Token] /\ held' = [held EXCEPT ![d] = @ \cup {t}]
      /\ UNCHANGED <<status, pc, target>>
  BY DEF IInv, TypeOK, Share
<1>2. Book!Welcome(c, e) /\ e \in Emails
  BY HolderIsWelcome
<1>3. owner' = owner /\ disabled' = disabled /\ admitted' = admitted
  BY <1>1, RowsStay DEF admitted
<1>4. CASE t.sub[1] = d
  <2>1. guests' = guests
    BY <1>1, <1>4, GuestsStay
  <2> QED
    BY <1>3, <2>1 DEF Book!bookVars
<1>5. CASE t.sub[1] # d
  <2>1. guests' = guests \cup {<<d, e>>}
    <3>1. <<d, e>> \in Clients \X Emails /\ <<d, e>>[1] = d /\ <<d, e>>[2] = e
      BY <1>2
    <3>2. ASSUME NEW p \in Clients \X Emails
          PROVE  (\E u \in held'[p[1]] : u.sub[2] = p[2] /\ u.sub[1] # p[1])
                    <=> (\E u \in held[p[1]] : u.sub[2] = p[2] /\ u.sub[1] # p[1])
                          \/ p = <<d, e>>
      <4>1. /\ p[1] # d => held'[p[1]] = held[p[1]]
            /\ p[1] = d => held'[p[1]] = held[p[1]] \cup {t}
            /\ p = <<d, e>> <=> p[1] = d /\ p[2] = e
        BY <1>1, <3>1
      <4> QED
        BY <1>5, <4>1
    <3> QED
      BY <3>1, <3>2 DEF guests
  <2> QED
    BY <1>2, <1>3, <2>1 DEF Book!BookNext, Book!LetIn
<1> QED
  BY <1>4, <1>5

LEMMA SwitchSwitches ==
    ASSUME IInv, IInv', NEW a \in Account, Switch(a)
    PROVE  Book!BookNext
PROOF
<1> DEFINE e == a[2]
<1>1. /\ status \in [Account -> {"none", "active", "disabled"}] /\ status[a] # "none"
      /\ status' = [status EXCEPT ![a] = IF @ = "active" THEN "disabled" ELSE "active"]
      /\ UNCHANGED <<held, pc, target>> /\ OnePerEmail /\ e \in Emails /\ a[1] \in Clients
  BY DEF IInv, TypeOK, Switch, Exists, Account
<1>2. \A b \in Account : Exists(b)' <=> Exists(b)
  BY <1>1 DEF Exists
<1>3. owner' = owner /\ guests' = guests /\ admitted' = admitted
  BY <1>1, <1>2, OwnersStay DEF IInv, guests, admitted
<1>4. owner[e] # NoOne
  <2>1. owner[e] = a[1]
    BY <1>1, OwnerIs DEF Exists
  <2> QED
    BY <1>1, <2>1, NoOneAssumption
<1>5. /\ e \in disabled <=> status[a] = "disabled"
      /\ e \in disabled' <=> status'[a] = "disabled"
      /\ \A x \in Emails \ {e} : x \in disabled' <=> x \in disabled
  <2>1. \A b \in Account : b[2] = e /\ status[b] # "none" => b = a
    BY <1>1 DEF OnePerEmail, Exists
  <2>2. \A b \in Account : b # a => status'[b] = status[b]
    BY <1>1
  <2>3. e \in disabled <=> status[a] = "disabled"
    BY <1>1, <2>1 DEF disabled
  <2>4. e \in disabled' <=> status'[a] = "disabled"
    BY <1>1, <2>1, <2>2 DEF disabled
  <2>5. \A x \in Emails \ {e} : x \in disabled' <=> x \in disabled
    BY <2>2 DEF disabled
  <2> QED
    BY <2>3, <2>4, <2>5
<1>6. disabled' = IF e \in disabled THEN disabled \ {e} ELSE disabled \cup {e}
  <2>1. status'[a] = IF status[a] = "active" THEN "disabled" ELSE "active"
    BY <1>1
  <2>2. e \in disabled' <=> e \notin disabled
    BY <1>1, <1>5, <2>1
  <2>3. disabled \subseteq Emails /\ disabled' \subseteq Emails
    BY DEF disabled
  <2> QED
    BY <1>1, <1>5, <2>2, <2>3
<1> QED
  BY <1>1, <1>3, <1>4, <1>6 DEF Book!BookNext, Book!Switch

\* Every step of a request is one of the book, or not seen there.
LEMMA HandlerInBook ==
    ASSUME IInv, IInv', NEW c \in Clients, RequestStep(c) \/ Fail(c)
    PROVE  Book!BookNext \/ UNCHANGED Book!bookVars
PROOF
<1> USE DEF Busy
<1>1. /\ TypeOK /\ target \in [Clients -> Account] /\ held \in [Clients -> SUBSET Token]
      /\ target' = target => target' = [target EXCEPT ![c] = target[c]]
      /\ UNCHANGED held => /\ \A d \in Clients : held[d] \subseteq held'[d]
                           /\ \A d \in Clients : \A t \in held'[d] :
                                  t \in held[d] \/ t.sub[1] = d
  BY DEF IInv, TypeOK
<1>2. CASE Insert(c)
  BY <1>2, InsertClaims
<1>3. CASE InsertFails(c)
  BY <1>3, DoneLeaves DEF InsertFails, Answer
<1>4. ASSUME pc[c] # "serving", target[c][1] = c, Issue(c, target[c]),
             UNCHANGED <<status, target>>, pc' = [pc EXCEPT ![c] = "idle"]
      PROVE  UNCHANGED Book!bookVars
  <2>1. /\ \A d \in Clients : held[d] \subseteq held'[d]
        /\ \A d \in Clients : \A t \in held'[d] : t \in held[d] \/ t.sub[1] = d
    <3>1. /\ Create("access", target[c]).sub = target[c]
          /\ Create("refresh", target[c]).sub = target[c]
      BY <1>1, CreateType
    <3> QED
      BY <1>1, <1>4, <3>1 DEF Issue
  <2> QED
    BY <1>1, <1>4, <2>1, Unseen
<1>5. CASE Registered(c)
  BY <1>4, <1>5 DEF Registered, Answer, IInv, OnePerEmail
<1>6. CASE Renew(c)
  BY <1>4, <1>6, DoneLeaves DEF Renew, Answer, IInv, RequestsFit
<1>7. CASE Authorize(c)
  <2>1. CASE status[target[c]] = "active"
    BY <1>7, <2>1, AuthorizeAdmits
  <2>2. CASE status[target[c]] # "active"
    BY <1>7, <2>2, DoneLeaves DEF Authorize, Answer
  <2> QED
    BY <2>1, <2>2
<1>8. CASE Serve(c)
  BY <1>8, DoneLeaves DEF Serve, Answer
<1>9. CASE Fail(c)
  BY <1>9, DoneLeaves DEF Fail, Answer
<1> QED
  BY <1>2, <1>3, <1>5, <1>6, <1>7, <1>8, <1>9 DEF RequestStep

\* Nor does a request that comes in.
LEMMA RequestInBook ==
    ASSUME IInv, IInv', NEW c \in Clients,
           \/ \E e \in Emails : Register(c, e) \/ Login(c, e)
           \/ \E t \in held[c] : PresentRefresh(c, t) \/ PresentAccess(c, t)
    PROVE  UNCHANGED Book!bookVars
PROOF
<1> USE DEF Busy
<1>1. /\ TypeOK /\ held \in [Clients -> SUBSET Token]
      /\ UNCHANGED held => /\ \A d \in Clients : held[d] \subseteq held'[d]
                           /\ \A d \in Clients : \A t \in held'[d] :
                                  t \in held[d] \/ t.sub[1] = d
  BY DEF IInv, TypeOK
<1>2. /\ pc[c] = "idle" /\ UNCHANGED status
      /\ \E label \in {"idle", "insert", "renew", "authorize"} :
             pc' = [pc EXCEPT ![c] = label]
      /\ \E a \in Account : target' = [target EXCEPT ![c] = a]
  <2>1. ASSUME NEW e \in Emails
        PROVE  <<c, e>> \in Account
    BY DEF Account
  <2>2. \A t \in held[c] : t.sub \in Account
    BY <1>1 DEF Token
  <2> QED
    BY <1>1, <2>1, <2>2 DEF Register, Login, PresentRefresh, PresentAccess, Present, Target,
                            Goto, Answer, TypeOK
<1>3. /\ \A d \in Clients : held[d] \subseteq held'[d]
      /\ \A d \in Clients : \A t \in held'[d] : t \in held[d] \/ t.sub[1] = d
  <2>1. ASSUME NEW e \in Emails, Issue(c, <<c, e>>)
        PROVE  /\ \A d \in Clients : held[d] \subseteq held'[d]
               /\ \A d \in Clients : \A t \in held'[d] : t \in held[d] \/ t.sub[1] = d
    <3>1. /\ <<c, e>> \in Account /\ <<c, e>>[1] = c
      BY DEF Account
    <3>2. /\ Create("access", <<c, e>>).sub[1] = c
          /\ Create("refresh", <<c, e>>).sub[1] = c
      BY <1>1, <3>1, CreateType
    <3> QED
      BY <1>1, <2>1, <3>2 DEF Issue
  <2>2. UNCHANGED held \/ \E e \in Emails : Issue(c, <<c, e>>)
    <3>1. ASSUME NEW e \in Emails, Login(c, e)
          PROVE  UNCHANGED held \/ Issue(c, <<c, e>>)
      <4>1. status[<<c, e>>] \in {"none", "active", "disabled"}
        BY <1>1 DEF TypeOK, Account
      <4> QED
        BY <3>1, <4>1 DEF Login
    <3> QED
      BY <3>1 DEF Register, PresentRefresh, PresentAccess, Present
  <2> QED
    BY <1>1, <2>1, <2>2
<1> QED
  BY <1>2, <1>3, Unseen

\* Whatever tokens are about, clients work on accounts that they own or were let
\* in to, and an email keeps its owner.
THEOREM Refinement == Spec => BookSpec
PROOF
<1>1. Init => Book!BookInit
  <2>1. ASSUME Init
        PROVE  /\ owner = [e \in Emails |-> NoOne] /\ disabled = {}
               /\ guests = {} /\ admitted = [c \in Clients |-> NoOne]
    <3>1. \A a \in Account : ~Exists(a) /\ status[a] # "disabled"
      BY <2>1 DEF Init, Exists
    <3>2. owner = [e \in Emails |-> NoOne]
      BY <3>1 DEF owner, Taken
    <3>3. disabled = {}
      BY <3>1 DEF disabled
    <3> QED
      BY <2>1, <3>2, <3>3 DEF Init, guests, admitted
  <2> QED
    BY <2>1 DEF Book!BookInit
<1>2. IInv /\ IInv' /\ [Next]_vars => [Book!BookNext]_(Book!bookVars)
  <2>1. ASSUME IInv, IInv', Tick \/ UNCHANGED vars
        PROVE  UNCHANGED Book!bookVars
    <3>1. UNCHANGED <<status, held, pc, target>>
      BY <2>1 DEF Tick, vars
    <3> QED
      BY <2>1, <3>1, RowsStay DEF guests, admitted, Book!bookVars
  <2> QED
    BY <2>1, HandlerInBook, RequestInBook, ShareLetsIn, SwitchSwitches DEF Next
<1>3. Spec => []IInv
  BY Invariance
<1> QED
  BY <1>1, <1>2, <1>3, PTL DEF Spec, BookSpec, Book!BookSpec

=============================================================================
